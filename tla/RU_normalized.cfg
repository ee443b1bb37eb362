SPECIFICATION Spec
CONSTANTS
  Bytes = {"n", "m"}
  Patterns <- PromptOrNothing
  Terminator <- Lf
  EchoModes = {"unknown", "none", "line"}
  MaxBuffer = 3
  MaxChunk = 2
  MaxStream = 8
INVARIANTS
  NormalizedKeepsOutput
CHECK_DEADLOCK FALSE
