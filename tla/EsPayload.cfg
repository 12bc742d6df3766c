CONSTANTS
  Sizes = {0, 2, 14, 20}
  Lengths = {0, 5}
  SizeMod = 64
  MaxUnits = 2
SPECIFICATION Spec
INVARIANT FramesAreOwn
CHECK_DEADLOCK FALSE
