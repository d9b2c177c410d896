SPECIFICATION FSpec
CONSTANTS
  k1 = k1
  k2 = k2
  kl = kl
  v1 = v1
  v2 = v2
  NoKey = NoKey
  NoVal = NoVal
  Keys = {k1, k2}
  Vals = {v1, v2}
  KLen <- MCKLen
  VLen <- MCVLen
  Hash <- MCHash
  Prefix <- MCPrefix
  WordMod <- MCWordMod
  Builds = {FALSE}
  CreateCaps = {1}
  CreateSizes = {16}
  MaxCap = 2
  MaxMem = 32
  MaxSaves = 1
  PowerFails = FALSE
PROPERTIES
  CompactionKeepsAssertion
