CONSTANTS
  Callers = {main, other}
  Owner = main
  NoOwner = nobody
  Preload = FALSE
  Chunks = 2
  Failures = {"open", "format", "read"}
  MaxHandles = 3
SPECIFICATION FileSpec
INVARIANTS FileInductiveInv HandlesAccounted FinishedMeansEnded EosMeansAllDelivered
PROPERTY ImplementsTSSource
CHECK_DEADLOCK FALSE
