SPECIFICATION LuaSpec
CONSTANTS
  Conn = {c1, c2, c3}
  Fd = {d1, d2}
  NULL = null
INVARIANTS
  TableSound
  KeptByTable
  GoneIsLeftAlone
