CONSTANTS
  WordBits = 6
  Fnv <- MCFnv
  ByteBits = 3
  Starts = {0, 21}
  Byte = {5}
  Uint32 = {0, 1027, 4095}
  Uint64 = {4095, 4096, 2738051}
  Signed <- MCSigned
  MaxBytes = 10
  SizeofType = 3
  ElemAlign = 4
  ArrayLen = 3
  SizeMax = 31
  Place = {4, 16}
SPECIFICATION MCSpec
INVARIANTS
  EachBitOnce
  HashIsFold
  OneByteApart
  ElementsApart
CHECK_DEADLOCK FALSE
