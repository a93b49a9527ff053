SPECIFICATION Spec
CONSTANTS
  Half = 8
  Bases <- AllBases
  MaxStream = 20
  MaxLen = 3
  Window = 5
  MaxQueue = 2
INVARIANTS
  VerdictRight
  AcksNothingUnsent
CHECK_DEADLOCK FALSE
