CONSTANTS
  Value = {"x", "y"}
  Wanted = {"x"}
  Kind = {"vec", "buf", "arr"}
  Errors <- MCErrors
  NoIndex = NoIndex
  SizeMax = 3
  MaxLen = 3
SPECIFICATION Spec
INVARIANTS
  ForwardInRange
  EachVisitsAll
  ReverseVisitsAll
  ErrorEndsLoop
  SearchFindsFirst
PROPERTY
  LoopEnds
