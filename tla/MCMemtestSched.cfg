SPECIFICATION FairSpec
CONSTANTS
  NumCpus = 3
  NumTests = 3
  BitFade = {2}
  BitfLast = 1
  Mem = {0, 1, 2, 3, 5, 6, 9}
  WIN_SZ = 4
  MAX_MEM = 100
  Win0Start = 1
  Win1End = 2
  MapLimits = {6, 100}
INVARIANT SchedInv
INVARIANT NoSelfTest
INVARIANT SetupMatches
INVARIANT Coverage
PROPERTY CopyStable
PROPERTY NoHang
