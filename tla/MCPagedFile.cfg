SPECIFICATION Spec
CONSTANTS
  PAGE_SIZE = 10
  FHDR_SIZE = 5
  PHDR_SIZE = 4
  FTR_SIZE = 2
  CUR_AT = 2
  HalfMod = 8
  OffMod = 32
  page_count = 2
  Lens <- MCLens
  Curs <- MCCurs
  MapArgs <- MCMapArgs
  Parts <- MCParts
  MaxCalls = 3
INVARIANTS
  HeaderVouches
  HeadersCountMoves
  CursorDataKept
PROPERTIES
  StraysOnlyPartialOrHuge
