CONSTANTS
  MaxPid = 4
  Pat <- MCPat
  Pmt <- MCPmt
  MaxUnits <- MCMaxUnits
SPECIFICATION Spec
INVARIANTS OnlyWantedFed TablesTaken EveryUnitOnce
PROPERTY HandlersNotReplaced
CHECK_DEADLOCK FALSE
