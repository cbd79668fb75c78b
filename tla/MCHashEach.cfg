CONSTANTS
  a = a  b = b  c = c  z = z
  Key = {a, b, c, z}
  NullKey = a
  Value = {v}
  NullValue = nil
  fnHashCode <- MCHash
  InitialCapacity = 2
  MaxCapacity = 8
  Errors = {"COL_ERR_BAD_ALLOC"}
SPECIFICATION EachSpec
INVARIANTS
  EachOnce
PROPERTIES
  EachGivesBindings
  EachEnds
