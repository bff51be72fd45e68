SPECIFICATION Spec
CONSTANTS
  MaxBytes = 1
  HasTimeout = FALSE
  Rate = 1
  Burst = 2
INVARIANTS
  ErrorReported
CHECK_DEADLOCK FALSE
