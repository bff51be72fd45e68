SPECIFICATION Spec
CONSTANTS
  Acc = {a1, a2, a3}
  Tmp = t
  Listener = {l1, l2}
  Conn = {c1, c2, c3, c4}
  Fd = {3, 4, 5}
  NULL = null
SYMMETRY Symmetry
INVARIANTS
  AcceptedOwnedOnce
  Sorted
  AcceptedKept
PROPERTIES
  ImplementsOwnership
