SPECIFICATION Spec
CONSTANTS
  c1 = c1
  c2 = c2
  k  = k
  Calls  <- MCCalls
  Closer = k
  Ops = {"write", "read", "read_until", "drain", "exec"}
  Timeouts = {1, 9}
  MaxTimeout = 5
  DrainIdle = 1
  DrainTotal = 2
  MaxBytes = 2
  MaxChunk = 3
  Lag = 1
  MaxInput = 1
SYMMETRY MCSymmetry
INVARIANTS
  TypeOK
  AnswersInTime
PROPERTIES
  DrainMeansQuiet
  CloseOutwaits
