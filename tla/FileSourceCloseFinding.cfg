CONSTANTS
  Callers = {main, other}
  Owner = main
  NoOwner = nobody
  Preload = FALSE
  Chunks = 2
  Failures = {"open", "format", "read"}
  MaxHandles = 2
SPECIFICATION FileSpec
INVARIANT NoUseAfterClose
CHECK_DEADLOCK FALSE
