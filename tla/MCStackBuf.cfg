CONSTANTS
  SizeBits = 8
  Base = 64
  NewSize <- MCNewSize
  Size <- MCSize
  Junk <- MCJunk
SPECIFICATION Spec
INVARIANT PointersFromBuf
