SPECIFICATION Spec
CONSTANTS
  Opens = {o1, o2, o3}
  Closes = {k1, k2}
  Ios = {c1}
  Ops = {"read"}
  Paths = {p1, p2, p3, px}
  Allowed = {p1, p2, p3}
  MaxSessions = 2
  ClosesOpening = TRUE
  None = None
SYMMETRY RequestSymmetry
INVARIANTS
  TypeOK
  PortIffReady
  PathReserved
  CapRespected
  NoOrphans
  GoneIffClosed
