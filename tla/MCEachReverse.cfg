CONSTANTS
  Value = {"x", "y"}
  Wanted = {"x"}
  Kind = {"vec", "buf", "arr"}
  Errors <- MCErrors
  NoIndex = NoIndex
  SizeMax = 3
  MaxLen = 3
SPECIFICATION Spec
INVARIANT
  ReverseInRange
