CONSTANTS
  a = a  b = b  c = c  d = d  z = z
  Key = {a, b, c, d, z}
  NullKey = a
  Value = {v, w}
  NullValue = nil
  fnHashCode <- MCHash
  InitialCapacity = 2
  MaxCapacity = 8
SPECIFICATION Spec
INVARIANTS
  ChainsIntact
  KeysUnique
  LengthExact
  LoadBound
  BlocksBalanced
  CopyExact
  FixUpInv
PROPERTIES
  RefinesMap
  OpsReturn
