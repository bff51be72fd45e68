SPECIFICATION Spec
CONSTANTS
  MaxBytes = 3
  HasTimeout = TRUE
  Rate = 1
  Burst = 2
INVARIANTS
  StreamInOrder
PROPERTIES
  ImplementsStream
  EofComesLast
  DeadIsClosed
  StreamArrives
CHECK_DEADLOCK FALSE
