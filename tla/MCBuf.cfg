CONSTANTS
  Byte = {x}
  Garbage = garbage
  Block <- MCBlock
  SizeofType = 3
  Align <- MCAlign
  Size <- MCSize
  SizeBits = 6
  MaxBytes = 20
SPECIFICATION Spec
INVARIANTS
  OwnsOneBlock
  EntriesInBlock
  PointerGood
PROPERTIES
  RefinesEntries
