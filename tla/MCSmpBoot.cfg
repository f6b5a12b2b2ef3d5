SPECIFICATION FairSpec
CONSTANTS
  MAX_CPUS = 4
  MaxDead = 0
  Firmwares <- MCFirmwares
  Cpuids <- MCCpuids
INVARIANT BootInv
INVARIANT CpusFound
INVARIANT StartAgreed
PROPERTY BootCompletes
