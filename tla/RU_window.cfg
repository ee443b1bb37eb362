SPECIFICATION Spec
CONSTANTS
  Bytes = {"r", "n", "m"}
  Patterns <- PromptOrNothing
  Terminator <- Crlf
  EchoModes = {"unknown", "none", "line"}
  MaxBuffer = 4
  MaxChunk = 2
  MaxStream = 9
INVARIANTS
  TypeOK
  PhysicalBound
  WindowIsNewest
  EchoNotMatched
  NoMissedMatch
  UntruncatedIsWhole
CHECK_DEADLOCK FALSE
