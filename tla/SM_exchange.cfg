SPECIFICATION Spec
CONSTANTS
  Opens = {o1, o2}
  Closes = {k1}
  Ios = {c1, c2}
  Ops = {"write", "read", "exec"}
  Paths = {p1}
  Allowed = {p1}
  MaxSessions = 2
  ClosesOpening = FALSE
  None = None
SYMMETRY RequestSymmetry
INVARIANTS
  ExchangeExclusive
  NoIoAfterClose
  TransitionAsserts
  HonestReply
PROPERTIES
  ImplementsLifecycle
