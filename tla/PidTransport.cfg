CONSTANTS
  CtrMod = 4
  MaxPackets = 8
  MaxLoss = 2
SPECIFICATION Spec
INVARIANTS HistoryInv FramesAreUnitPrefixes IntactUnitsDelivered FramesInOrder
  EmptyOnlyFirst
PROPERTY RepeatIgnored
CHECK_DEADLOCK FALSE
