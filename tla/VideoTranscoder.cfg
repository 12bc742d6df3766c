CONSTANTS
  PoolSize = 4
  Times = {1, 2}
  MaxFrames = 5
SPECIFICATION Spec
INVARIANTS NoAliasing PoolSorted FramesAccounted EncodedOnce OutputInOrder
PROPERTY ImplementsReorderBuffer
CHECK_DEADLOCK FALSE
