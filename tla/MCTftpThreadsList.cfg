SPECIFICATION Spec
CONSTANTS
  Threads = {t1, t2}
  NULL = NULL
  tftpd_max_thread = 2
  Daemon = TRUE
  Signals = {}
INVARIANT ListSafe
