SPECIFICATION Spec
CONSTANTS
  Sessions = {s1, s2}
  Calls = {c1}
  Tools = {"serial.write", "serial.exec"}
  Commands <- Lines
  Profile <- Privileged
  OpenOptions <- Overrides
  LineEndings = {None, "none"}
  Elicitation = {TRUE, FALSE}
  Answers = {"accept", "decline"}
  MaxWrite = 2
  MaxAsked = 2
  MaxAnswers = 1
  MaxLine = 0
  None = None
INVARIANTS
  TypeOK
  Authorized
  NeverAskedInVain
