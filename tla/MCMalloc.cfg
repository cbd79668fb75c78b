CONSTANTS
  AddressBits = 5
  OffsetBits = 4
  MallocAlign = 4
  Align <- MCAlign
  Size <- MCSize
SPECIFICATION Spec
INVARIANTS
  EveryBlockOwned
  NothingLeaks
  BlocksApart
