SPECIFICATION Spec
CONSTANTS
  Conn = {c1}
  Tmp1 = t1
  Tmp2 = t2
  Bev = {b1}
  Filter = {f1}
  Fd = {d1}
  Cfg = {k1}
  Hdl = {h1}
  Extra = {x1}
  NULL = null
INVARIANT NoDoubleFree
CHECK_DEADLOCK FALSE
