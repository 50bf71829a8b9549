SPECIFICATION Spec
CONSTANTS
  T0_N = 6
  Kilo = 32
  SPMM_N = 6
  SPMM_DIM = 2
  SPMM_MB = 2
  SPMM_KB = 3
  InFlight = 4
  AccRes = {TRUE, FALSE}
  Designs <- MCDesigns
  Patterns <- MCPatterns
  Pinned <- MCPinned
INVARIANTS SpmmTypeOK ScheduleStaysInBounds
PROPERTIES TilesLeaveOnceAndWhole ComputesTheProduct ProductIsReached
CHECK_DEADLOCK FALSE
