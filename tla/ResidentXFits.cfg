SPECIFICATION Spec
CONSTANTS
  T0_N = 6
  Kilo = 32
  SPMM_N = 6
  SPMM_DIM = 2
  SPMM_MB = 2
  SPMM_KB = 3
  InFlight = 6
  AccRes = {TRUE, FALSE}
  Designs <- MCAllDesigns
  Patterns <- MCPatterns
  Pinned <- MCPinned
INVARIANT LegalSchedulesFit
CHECK_DEADLOCK FALSE
