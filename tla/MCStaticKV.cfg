SPECIFICATION SSpec
CONSTANTS
  k1 = k1
  k2 = k2
  k3 = k3
  v1 = v1
  v2 = v2
  NoKey = NoKey
  NoVal = NoVal
  Keys = {k1, k2, k3}
  Vals = {v1, v2}
  Hash <- MCHash
  KeySize = 3
  ValSize = 2
  Builds = {FALSE, TRUE}
  InitCaps = {2, 8}
  ArenaSizes = {60, 112}
  MaxDead = 2
INVARIANTS
  OneEntryRemembered
  ArenaHoldsArrays
PROPERTIES
  RefinesMap
