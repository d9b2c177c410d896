SPECIFICATION VSpec
CONSTANTS
  a = a
  b = b
  Junk = Junk
  Elems = {a, b}
  MinDefaultCapacity = 2
  InitCaps = {0, 1, 3}
  Literals <- MCLiterals
  MaxCap = 4
INVARIANTS
  OneBuffer
  PointersKeptWithinCapacity
PROPERTIES
  SelfPushReadsElement
  RefinesSeq
