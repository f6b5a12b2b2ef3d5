SPECIFICATION FairSpec
CONSTANTS
  FullBlocks = 3
  Partial = TRUE
  Wrap = 8
  NB_OF_RETRY = 1
  Requests = {"unknown", "invalid", "options", "plain"}
  WrapAllowed = FALSE
  Signals = {"main", "worker"}
  Reordered = {"plain"}
  Capacity = 2
  MaxTries = 1
INVARIANT SendInv
INVARIANT Integrity
INVARIANT EndComplete
PROPERTY Terminates
