SPECIFICATION Spec
CONSTANTS
  Opens = {o1}
  Closes = {k1}
  Ios = {c1}
  Ops = {"write"}
  Paths = {p1}
  Allowed = {p1}
  MaxSessions = 1
  ClosesOpening = TRUE
  None = None
INVARIANTS
  NoIoAfterClose
