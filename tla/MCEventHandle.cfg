SPECIFICATION Spec
CONSTANTS
  Handle = {o1, o2, o3}
  Tmp = t
  Impl = {i1, i2, i3}
  Hdl = {h1, h2}
  NULL = null
SYMMETRY Symmetry
INVARIANTS
  NoDangling
  HandlerTravels
PROPERTIES
  ImplementsOwnership
