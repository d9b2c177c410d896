SPECIFICATION KSpec
CONSTANTS
  k1 = k1
  k2 = k2
  k3 = k3
  NoKey = NoKey
  Keys <- MCKeys
  KLen <- MCKLen
  Hash <- MCHash
  Builds = {FALSE, TRUE}
  InitCaps = {0, 2, 3, 5}
  ArenaSizes = {76, 134, 152}
  MaxDead = 3
INVARIANTS
  IndexHolds
  DeadCounted
  StringsApart
  EnumerationShowsLive
  PrintsItsOwnValue
PROPERTIES
  RefinesRegistry
