SPECIFICATION Spec
CONSTANTS
  t1 = t1
  t0 = t0
  Timer <- MCTimer
  Period <- MCPeriod
  Trigger = {g1}
  Signal = {s1}
  Exit = {x1}
  MaxTick = 1
  MaxCaught = 2
INVARIANTS
  KillIsPrompt
  TicksExact
PROPERTIES
  KillReturns
  ExitReturns
