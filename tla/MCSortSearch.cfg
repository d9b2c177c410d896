SPECIFICATION Spec
CONSTANTS
  Ints <- MCInts
  MaxLen = 4
  SizeMod = 32
  IntMod = 16
INVARIANTS
  Sorts
  SearchRight
  ReadsInside
PROPERTIES
  SearchEnds
