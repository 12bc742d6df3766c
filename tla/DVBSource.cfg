CONSTANTS
  Callers = {main, other}
  Owner = main
  NoOwner = nobody
SPECIFICATION DvbSpec
INVARIANTS DvbInductiveInv NoOrphanReader StaleReadOnlyInStop DevicesNotLeaked
PROPERTIES OneReader StopCompletes DvbImplementsTSSource
CHECK_DEADLOCK FALSE
