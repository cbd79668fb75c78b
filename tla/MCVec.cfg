CONSTANTS
  Value = {x, y}
  Garbage = garbage
  NoValue = none
  Block <- MCBlock
  MaxCap = 5
  Index <- MCIndex
SPECIFICATION Spec
INVARIANTS
  OwnsOneBlock
  ElementsInitialised
  IteratorsSafe
PROPERTIES
  NoMoveWithinCapacity
  RefinesSeq
