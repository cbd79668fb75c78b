CONSTANTS
  Value = {x, y}
  Garbage = garbage
  NoValue = none
  Block <- MCBlock
  MaxCap = 5
  Index <- MCIndex
SPECIFICATION Spec
INVARIANT EndIsPastLast
