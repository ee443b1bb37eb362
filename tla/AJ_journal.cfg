SPECIFICATION FairSpec
CONSTANTS
  Calls = {c1, c2}
  Capacity = 2
  MaxErrors = 2
  None = None
INVARIANTS
  TypeOK
  Audited
  RowsOrdered
  SessionsIntroduced
PROPERTIES
  NeverBlocks
