SPECIFICATION FairSpec
CONSTANTS
  Opens = {o1}
  Closes = {k1}
  Ios = {c1, c2}
  Ops = {"read", "exec"}
  Paths = {p1}
  Allowed = {p1}
  MaxSessions = 1
  ClosesOpening = TRUE
  None = None
PROPERTIES
  EveryRequestAnswered
