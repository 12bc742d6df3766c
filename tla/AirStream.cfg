CONSTANTS
  Places = 5
  Enough = 4
  MaxPackets = 6
SPECIFICATION Spec
INVARIANT EachPacketOnce
CHECK_DEADLOCK FALSE
