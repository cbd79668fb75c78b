CONSTANTS
  Handle = {p, q}
  Literal = {"empty", "ae", "e"}
  LiteralBytes <- MCBytes
  Rune <- MCRune
  Block = {b1, b2, b3}
  NULL = NULL
  NoText = NoText
  Position = {0, 1, 2}
  Bytes = {0, 1, 3}
  MaxSize = 5
SYMMETRY Symmetry
SPECIFICATION Spec
INVARIANTS
  BlocksOwned
  WellFormed
  QuestionsInCodepoints
PROPERTIES
  RefinesText
