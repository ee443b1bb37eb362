SPECIFICATION Spec
CONSTANTS
  Pieces <- SomePieces
  Bodies <- SomeBodies
  Terminator <- Crlf
  Window = 13
  MaxPieces = 4
  None = None
INVARIANTS
  TypeOK
  ShowsLikeTerminal
  ClaimsOneCommand
  ReportsAreFinal
CHECK_DEADLOCK FALSE
