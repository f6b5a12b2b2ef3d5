SPECIFICATION FairSpec
CONSTANTS
  Threads = {t1, t2}
  NULL = NULL
  tftpd_max_thread = 1
  Daemon = FALSE
  Signals = {"main", "worker"}
INVARIANT ThreadInv
INVARIANT StdinExclusive
PROPERTY Stops
