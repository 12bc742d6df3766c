CONSTANTS
  PacketSize = 3
  BufferSize = 5
  MaxLength = 9
SPECIFICATION Spec
INVARIANTS InductiveInv PacketsWhole EndMeansAllRead
PROPERTY ImplementsScanner
CHECK_DEADLOCK FALSE
