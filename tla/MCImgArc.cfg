SPECIFICATION Spec
CONSTANTS
  short = short
  long = long
  unlucky = unlucky
  empty = empty
  Bufs = {short, long, unlucky, empty}
  ZeroSum = {unlucky, empty}
  BufLen <- MCBufLen
  HDR_SIZE = 2
  TOC_ENTRY_SIZE = 2
  ALIGN_SIZE = 2
  EntryCounts = {0, 1, 2}
  MaxFile = 10
  MaxSlips = 2
INVARIANTS
  EntriesApart
  EntriesReadBack
  ProgramArchiveReads
PROPERTIES
  SumsOfFlush
