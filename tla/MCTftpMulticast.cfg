SPECIFICATION FairSpec
CONSTANTS
  Clients = {c1, c2}
  First = c1
  Threads = {1,2}
  Blocks = 1
  Wrap = 4
  NB_OF_RETRY = 1
  MayCancel = TRUE
  MaxAcks = 1
INVARIANT GroupInv
PROPERTY Terminates
