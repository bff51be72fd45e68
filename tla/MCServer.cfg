SPECIFICATION Spec
CONSTANTS
  Fd = {d1, d2, d3}
  N = 2
  IdxSize = 4
  MayBreak = {1}
INVARIANTS
  NoTornFd
  OneServer
PROPERTIES
  HandOffCompletes
  BreakIsNoticed
  ImplementsHandOff
CHECK_DEADLOCK FALSE
