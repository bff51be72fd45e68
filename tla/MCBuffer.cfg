SPECIFICATION Spec
CONSTANTS
  Buf = {b1, b2, b3}
  Ev = {e1, e2}
  ConnEv = c
  MaxByte = 3
  Newline = {2}
  NULL = null
INVARIANTS
  OwnedOnce
  FreedRightly
PROPERTY BytesInOrder
