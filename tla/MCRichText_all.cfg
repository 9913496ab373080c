SPECIFICATION TextSpec
CONSTANTS
  Texts <- MCTexts
  Safe = 15
  Blocks = 3
INVARIANT CodeIsKept
INVARIANT PiecesStandAlone
INVARIANT PiecesFit
INVARIANT AnswersAreWhole
