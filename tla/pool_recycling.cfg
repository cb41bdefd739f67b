\* One block, two clients, every system call may fail: recycling, quarantine and
\* the shutdown.
CONSTANTS
  MAX_CONNECTION_SETS = 1
  SOCKS_PER_CONNECTION = 2
  MaxAccepts = 2
  FallibleCalls <- EveryCall
SPECIFICATION FairSpec
INVARIANTS
  TypeOK
  PoolPartition
  FreeSetsAreClean
  KeysAreOwned
  CountersAgree
PROPERTIES
  QuarantineIsForever
  ShutdownCompletes
