SPECIFICATION Spec
CONSTANTS
  Conn = {c1, c2, c3}
  Tmp1 = t1
  Tmp2 = t2
  Bev = {b1, b2, b3}
  Filter = {f1, f2}
  Fd = {d1, d2}
  Cfg = {k1}
  Hdl = {h1}
  Extra = {x1}
  NULL = null
SYMMETRY Symmetry
INVARIANTS
  TypeOK
  CallbacksReachOwner
  OneOwner
  RateLimitCfgAlive
  HeldOnce
  DoubleFreeOnlyOnConnect
PROPERTIES
  PayloadTravels
  ImplementsOwnership
CHECK_DEADLOCK FALSE
