SPECIFICATION Spec
CONSTANTS
  k1 = k1
  k2 = k2
  k3 = k3
  v0 = v0
  v1 = v1
  v2 = v2
  NoKey = NoKey
  NoVal = NoVal
  Keys <- MCKeys
  Vals <- MCVals
  KLen <- MCKLen
  VLen <- MCVLen
  Hash <- MCHash
  Builds = {FALSE}
  CreateCaps = {1, 3}
  CreateSizes = {0, 8, 10}
  MaxCap = 4
  MaxMem = 40
INVARIANTS
  ResizesWhenOutOfMem
