SPECIFICATION Spec
CONSTANTS
  Size = 2
  Z = 2
  MaxBytes = 4
INVARIANT EchoTransformed
PROPERTIES
  OnlyRestLost
  BlocksArrive
CHECK_DEADLOCK FALSE
