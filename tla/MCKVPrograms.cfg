SPECIFICATION PSpec
CONSTANTS
  k1 = k1
  k2 = k2
  kl = kl
  v1 = v1
  v2 = v2
  NoKey = NoKey
  NoVal = NoVal
  Keys = {k1, k2, kl}
  Vals = {v1, v2}
  KLen <- MCKLen
  VLen <- MCVLen
  Hash <- MCHash
  Prefix <- MCPrefix
  WordMod <- MCWordMod
  Builds = {FALSE}
  CreateCaps = {1, 2, 3}
  CreateSizes = {16}
  MaxCap = 2
  MaxMem = 32
  MaxSaves = 2
  PowerFails = FALSE
  MEM_SIZE = 16
  MainKeys <- MCMainKeys
  MainCap = 2
  KvCaps = {2, 3}
  AnyKeys = {k1, kl}
  AnySaves = 1
INVARIANTS
  LoadedTableSound
  ShowsWhatWasTold
  ProgramsKeepTheirTable
PROPERTIES
  RoundTrip
  KillsOnlyWithoutLastNul
