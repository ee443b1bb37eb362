SPECIFICATION Spec
CONSTANTS
  Sessions = {s1, s2}
  Calls = {c1}
  Tools = {"serial.write", "serial.exec"}
  Commands <- ShortCommands
  Profile <- Guarded
  OpenOptions <- GuardedOverrides
  LineEndings = {None, "lf", "crlf"}
  Elicitation = {FALSE}
  Answers = {"accept"}
  MaxWrite = 3
  MaxAsked = 0
  MaxAnswers = 0
  MaxLine = 3
  None = None
INVARIANTS
  LinesJudged
