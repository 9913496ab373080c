--------------------------- MODULE MCSkillSwitches ---------------------------
(* A small instance of the skill switches for TLC: a group of two skills,   *)
(* and a skill without a group.                                            *)
EXTENDS SkillSwitches, TLC

CONSTANTS text_to_image, image_to_image, search, image

Skills == {text_to_image, image_to_image, search}
GroupMembers == [g \in {image} |-> {text_to_image, image_to_image}]

\* The skills of the group can be exchanged.
Alike == Permutations({text_to_image, image_to_image})
=============================================================================
