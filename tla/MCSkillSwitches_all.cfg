SPECIFICATION Spec
CONSTANTS
  text_to_image = text_to_image
  image_to_image = image_to_image
  search = search
  image = image
  Skill <- Skills
  Group = {image}
  Members <- GroupMembers
  Kind = {"skills"}
  Text = {t1}
  None = None
  Admin = {a1}
SYMMETRY Alike
PROPERTIES
  ImportRestores
  SwitchesAreIndependent
