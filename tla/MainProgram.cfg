CONSTANTS
  Callers = {main}
  Owner = main
  NoOwner = nobody
  Preload = TRUE
  Chunks = 12
  Failures = {"open", "format", "read"}
  MaxHandles = 2
SPECIFICATION MainSpec
INVARIANTS FinishedBeforeDying NoCallbackWhenDying
PROPERTY MainTerminates
CHECK_DEADLOCK FALSE
