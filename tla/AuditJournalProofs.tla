------------------------- MODULE AuditJournalProofs -------------------------
(***************************************************************************)
(* Theorems about AuditJournal, for any number of calls, any buffer and    *)
(* any number of disk errors.                                              *)
(***************************************************************************)
EXTENDS AuditJournal, SequenceTheorems, TLAPS

AnyPiece == [row : Rows, whole : BOOLEAN]

\* The part of TypeOK that the argument needs.
Shaped ==
  /\ journal \in BOOLEAN
  /\ stage  \in [Calls -> {"idle", "called", "running", "ran", "done"}]
  /\ log    \in [Rows -> {"none", "off", "lock", "write", "flush", "ok", "warned"}]
  /\ \A r \in Rows : log[r] \in {"write", "flush"} => holder = r
  /\ buffer \in Seq(Rows) /\ inflight \in Seq(Rows)
  /\ disk \in {"idle", "busy", "ok", "failed"}
  /\ disk # "busy" => inflight = <<>>
  /\ file \in Seq(AnyPiece)

In(r, rows) == \E i \in DOMAIN rows : rows[i] = r

\* The row of the log that waits for its flush is on its way, unless the disk
\* has failed and the log is still to learn of it.
OnItsWay ==
  \A r \in Rows : log[r] = "flush" =>
    InFile(r) \/ In(r, inflight) \/ In(r, buffer) \/ disk = "failed"

\* The log that returns without a warning has its row in the file.
Acknowledged == \A r \in Rows : log[r] = "ok" => InFile(r)

\* A call goes on once its row's log has returned.
Waited ==
  \A c \in Calls :
    /\ stage[c] \in {"running", "ran", "done"} => Logged(<<c, "call">>)
    /\ stage[c] = "done" => Logged(<<c, "result">>)

\* With a journal every row is logged.
AlwaysOn == journal => \A r \in Rows : log[r] # "off"

\* The inductive invariant.
JournalInv == Shaped /\ OnItsWay /\ Acknowledged /\ Waited /\ AlwaysOn

-----------------------------------------------------------------------------
(* Lemmas *)

\* Where the elements of two sequences are in their concatenation.
LEMMA ConcatElements ==
  ASSUME NEW S, NEW s \in Seq(S), NEW t \in Seq(S)
  PROVE  /\ s \o t \in Seq(S)
         /\ \A i \in DOMAIN s : i \in DOMAIN (s \o t) /\ (s \o t)[i] = s[i]
         /\ \A i \in DOMAIN t :
              /\ Len(s) + i \in DOMAIN (s \o t)
              /\ (s \o t)[Len(s) + i] = t[i]
<1> DEFINE st == s \o t
<1>1. /\ st \in Seq(S) /\ Len(st) = Len(s) + Len(t)
      /\ \A i \in 1..Len(s) + Len(t) : st[i] = IF i <= Len(s) THEN s[i] ELSE t[i - Len(s)]
  BY ConcatProperties
<1>2. /\ DOMAIN s = 1..Len(s) /\ DOMAIN t = 1..Len(t) /\ DOMAIN st = 1..Len(s) + Len(t)
      /\ Len(s) \in Nat /\ Len(t) \in Nat
  BY <1>1, LenProperties
<1>3. ASSUME NEW i \in DOMAIN s PROVE i \in DOMAIN st /\ st[i] = s[i]
  <2>1. i \in 1..Len(s) + Len(t) /\ i <= Len(s)
    BY <1>2
  <2> QED BY <1>1, <1>2, <2>1
<1>4. ASSUME NEW i \in DOMAIN t PROVE Len(s) + i \in DOMAIN st /\ st[Len(s) + i] = t[i]
  <2>1. Len(s) + i \in 1..Len(s) + Len(t) /\ ~(Len(s) + i <= Len(s)) /\ (Len(s) + i) - Len(s) = i
    BY <1>2
  <2> QED BY <1>1, <1>2, <2>1
<1> QED BY <1>1, <1>3, <1>4

\* Sequences of one element and of none, as a torn row or its absence is appended.
LEMMA ShortSequences == ASSUME NEW S, NEW x \in S PROVE <<x>> \in Seq(S) /\ <<>> \in Seq(S)
  OBVIOUS

\* The pieces of a sequence of rows.
LEMMA PiecesType ==
  ASSUME NEW rows \in Seq(Rows)
  PROVE  /\ Pieces(rows) \in Seq(AnyPiece)
         /\ DOMAIN Pieces(rows) = DOMAIN rows
         /\ \A i \in DOMAIN rows : Pieces(rows)[i] = Piece(rows[i], TRUE)
<1>1. rows \in [1..Len(rows) -> Rows] /\ Len(rows) \in Nat /\ DOMAIN rows = 1..Len(rows)
  BY LenProperties
<1>2. Pieces(rows) \in [1..Len(rows) -> AnyPiece]
  BY <1>1 DEF Pieces, Piece, AnyPiece
<1>3. ASSUME NEW p \in [1..Len(rows) -> AnyPiece] PROVE p \in Seq(AnyPiece)
  BY <1>1
<1>4. DOMAIN Pieces(rows) = DOMAIN rows
  BY DEF Pieces
<1>5. \A i \in DOMAIN rows : Pieces(rows)[i] = Piece(rows[i], TRUE)
  BY DEF Pieces
<1> QED BY <1>2, <1>3, <1>4, <1>5

\* What the file holds it keeps when it grows.
LEMMA FileKeeps ==
  ASSUME NEW r, InFile(r),
         \A i \in DOMAIN file : i \in DOMAIN file' /\ file'[i] = file[i]
  PROVE  InFile(r)'
  BY DEF InFile, Piece

-----------------------------------------------------------------------------
(* The steps *)

\* The background thread's success brings all it was given into the file.
LEMMA DiskKeepsInv == ASSUME JournalInv, DiskWrites PROVE JournalInv'
<1>1. Pieces(inflight) \in Seq(AnyPiece) /\ DOMAIN Pieces(inflight) = DOMAIN inflight
      /\ \A i \in DOMAIN inflight : Pieces(inflight)[i] = Piece(inflight[i], TRUE)
  BY PiecesType DEF JournalInv, Shaped
<1>2. /\ file' \in Seq(AnyPiece)
      /\ \A i \in DOMAIN file : i \in DOMAIN file' /\ file'[i] = file[i]
      /\ \A i \in DOMAIN inflight :
           /\ Len(file) + i \in DOMAIN file'
           /\ file'[Len(file) + i] = Piece(inflight[i], TRUE)
  <2>1. PICK p : p = Pieces(inflight)
    OBVIOUS
  <2>2. file \in Seq(AnyPiece) /\ p \in Seq(AnyPiece) /\ file' = file \o p
    BY <1>1, <2>1 DEF JournalInv, Shaped, DiskWrites
  <2>3. /\ file' \in Seq(AnyPiece)
        /\ \A i \in DOMAIN file : i \in DOMAIN file' /\ file'[i] = file[i]
        /\ \A i \in DOMAIN p :
             Len(file) + i \in DOMAIN file' /\ file'[Len(file) + i] = p[i]
    BY <2>2, ConcatElements
  <2> QED BY <1>1, <2>1, <2>3
<1>3. \A r \in Rows : InFile(r) => InFile(r)'
  BY <1>2, FileKeeps
<1>4. \A r \in Rows : In(r, inflight) => InFile(r)'
  BY <1>2 DEF In, InFile, Piece
<1>5. Shaped'
  BY <1>2 DEF JournalInv, Shaped, DiskWrites
<1>6. OnItsWay' /\ Acknowledged'
  BY <1>3, <1>4 DEF JournalInv, OnItsWay, Acknowledged, DiskWrites
<1>7. Waited' /\ AlwaysOn'
  BY DEF JournalInv, Waited, AlwaysOn, Logged, DiskWrites
<1> QED BY <1>5, <1>6, <1>7 DEF JournalInv

\* The thread's failure loses rows, but the log that waits for them will be told.
LEMMA DiskFailureKeepsInv == ASSUME JournalInv, DiskFails PROVE JournalInv'
<1>1. PICK n \in 0..Len(inflight) - 1, torn \in BOOLEAN :
        file' = file \o Pieces(SubSeq(inflight, 1, n))
                     \o (IF torn THEN <<Piece(inflight[n + 1], FALSE)>> ELSE <<>>)
  BY DEF DiskFails
<1>2. PICK p : p = Pieces(SubSeq(inflight, 1, n))
  OBVIOUS
<1>3. PICK q : q = (IF torn THEN <<Piece(inflight[n + 1], FALSE)>> ELSE <<>>)
  OBVIOUS
<1>4. p \in Seq(AnyPiece)
  <2>1. SubSeq(inflight, 1, n) \in Seq(Rows)
    BY DEF JournalInv, Shaped
  <2> QED BY <1>2, <2>1, PiecesType
<1>5. q \in Seq(AnyPiece)
  <2>1. inflight[n + 1] \in Rows
    BY DEF JournalInv, Shaped
  <2>2. Piece(inflight[n + 1], FALSE) \in AnyPiece
    BY <2>1 DEF Piece, AnyPiece
  <2>3. PICK x : x = Piece(inflight[n + 1], FALSE)
    OBVIOUS
  <2>4. <<x>> \in Seq(AnyPiece) /\ <<>> \in Seq(AnyPiece)
    BY <2>2, <2>3, ShortSequences
  <2> QED BY <1>3, <2>3, <2>4
<1>6. file \in Seq(AnyPiece)
  BY DEF JournalInv, Shaped
<1>7. PICK f : f = file \o p
  OBVIOUS
<1>8. /\ f \in Seq(AnyPiece)
      /\ \A i \in DOMAIN file : i \in DOMAIN f /\ f[i] = file[i]
  BY <1>4, <1>6, <1>7, ConcatElements
<1>9. file' = f \o q
  BY <1>1, <1>2, <1>3, <1>7
<1>10. /\ file' \in Seq(AnyPiece)
       /\ \A i \in DOMAIN f : i \in DOMAIN file' /\ file'[i] = f[i]
  BY <1>5, <1>8, <1>9, ConcatElements
<1>11. \A r \in Rows : InFile(r) => InFile(r)'
  BY <1>8, <1>10, FileKeeps
<1>12. Shaped'
  <2>1. UNCHANGED <<journal, stage, log, holder, buffer>> /\ disk' = "failed" /\ inflight' = <<>>
    BY DEF DiskFails
  <2> QED BY <1>10, <2>1 DEF JournalInv, Shaped
<1>13. OnItsWay' /\ Acknowledged'
  BY <1>11 DEF JournalInv, OnItsWay, Acknowledged, DiskFails
<1>14. Waited' /\ AlwaysOn'
  BY DEF JournalInv, Waited, AlwaysOn, Logged, DiskFails
<1> QED BY <1>12, <1>13, <1>14 DEF JournalInv

\* call_tool starts a log for a row, and moves on when the log is done.
LEMMA CallKeepsInv ==
  ASSUME JournalInv, NEW c \in Calls, Arrive(c) \/ Dispatch(c) \/ Returns(c) \/ Reply(c)
  PROVE  JournalInv'
<1>1. ASSUME NEW to \in {"called", "running", "ran", "done"}, Moves(c, to),
             to = "running" => Logged(<<c, "call">>),
             to = "done" => Logged(<<c, "result">>),
             to \in {"ran", "done"} => stage[c] \in {"running", "ran"},
             UNCHANGED <<journal, log, holder, sink>>
      PROVE  JournalInv'
  <2>1. \A d \in Calls : stage'[d] = IF d = c THEN to ELSE stage[d]
    BY <1>1 DEF Moves, JournalInv, Shaped
  <2>2. Shaped' /\ OnItsWay' /\ Acknowledged' /\ AlwaysOn'
    BY <1>1 DEF JournalInv, Shaped, OnItsWay, Acknowledged, AlwaysOn, InFile, Moves, sink
  <2>3. Waited'
    BY <1>1, <2>1 DEF JournalInv, Waited, Logged
  <2> QED BY <2>2, <2>3 DEF JournalInv
<1>2. ASSUME NEW r \in Rows, NEW to \in {"called", "ran"}, Moves(c, to), StartLog(r) \/ DropRow(r),
             to = "called" => stage[c] = "idle" /\ r = <<c, "call">>,
             to = "ran" => stage[c] = "running" /\ r = <<c, "result">>,
             UNCHANGED <<journal, holder, sink>>
      PROVE  JournalInv'
  <2>1. \A d \in Calls : stage'[d] = IF d = c THEN to ELSE stage[d]
    BY <1>2 DEF Moves, JournalInv, Shaped
  <2>2. PICK res \in {"lock", "off", "warned"} :
          log' = [log EXCEPT ![r] = res] /\ (journal => res # "off")
    BY <1>2 DEF StartLog, DropRow
  <2>3. \A q \in Rows : log'[q] = IF q = r THEN res ELSE log[q]
    BY <2>2 DEF JournalInv, Shaped
  <2>4. Shaped'
    BY <1>2, <2>2, <2>3 DEF JournalInv, Shaped, Moves, sink
  <2>5. OnItsWay' /\ Acknowledged'
    BY <1>2, <2>3 DEF JournalInv, OnItsWay, Acknowledged, InFile, sink
  <2>6. AlwaysOn'
    BY <1>2, <2>2, <2>3 DEF JournalInv, AlwaysOn
  <2>7. Waited'
    <3>1. ASSUME NEW d \in Calls, stage'[d] \in {"running", "ran", "done"}
          PROVE  Logged(<<d, "call">>)'
      <4>1. stage[d] \in {"running", "ran", "done"} /\ <<d, "call">> # r
        BY <1>2, <2>1, <3>1
      <4> QED BY <2>3, <4>1 DEF JournalInv, Waited, Logged, Rows
    <3>2. ASSUME NEW d \in Calls, stage'[d] = "done"
          PROVE  Logged(<<d, "result">>)'
      <4>1. stage[d] = "done" /\ <<d, "result">> # r
        BY <1>2, <2>1, <3>2
      <4> QED BY <2>3, <4>1 DEF JournalInv, Waited, Logged, Rows
    <3> QED BY <3>1, <3>2 DEF Waited
  <2> QED BY <2>4, <2>5, <2>6, <2>7 DEF JournalInv
<1>3. <<c, "call">> \in Rows /\ <<c, "result">> \in Rows
  BY DEF Rows
<1>4. CASE Arrive(c)
  BY <1>2, <1>3, <1>4 DEF Arrive
<1>5. CASE Dispatch(c)
  BY <1>1, <1>5 DEF Dispatch
<1>6. CASE Returns(c)
  BY <1>2, <1>3, <1>6 DEF Returns
<1>7. CASE Reply(c)
  BY <1>1, <1>7 DEF Reply
<1> QED BY <1>4, <1>5, <1>6, <1>7

\* A log's step changes the log of one row; no row loses its place.
LEMMA LogKeepsInv == ASSUME JournalInv, NEW r \in Rows, LogStep(r) PROVE JournalInv'
<1> DEFINE Log(res) == log' = [log EXCEPT ![r] = res]
<1>1. ASSUME NEW res \in {"write", "flush", "ok", "warned"}, Log(res),
             ~Logged(r), Shaped', UNCHANGED <<journal, stage, file>>,
             res = "ok" => InFile(r),
             \A q \in Rows : log'[q] = "flush" =>
               InFile(q) \/ In(q, inflight') \/ In(q, buffer') \/ disk' = "failed"
      PROVE  JournalInv'
  <2>1. \A q \in Rows : log'[q] = IF q = r THEN res ELSE log[q]
    BY <1>1 DEF JournalInv, Shaped
  <2>2. \A q \in Rows : InFile(q)' = InFile(q)
    BY <1>1 DEF InFile
  <2>3. OnItsWay'
    BY <1>1, <2>2 DEF OnItsWay, In
  <2>4. Acknowledged'
    BY <1>1, <2>1, <2>2 DEF JournalInv, Acknowledged
  <2>5. AlwaysOn'
    BY <1>1, <2>1 DEF JournalInv, AlwaysOn
  <2>6. \A q \in Rows : Logged(q) => Logged(q)'
    BY <1>1, <2>1 DEF Logged
  <2>7. Waited'
    BY <1>1, <2>6 DEF JournalInv, Waited, Rows
  <2> QED BY <1>1, <2>3, <2>4, <2>5, <2>7 DEF JournalInv
<1>2. \A res : Log(res) => \A q \in Rows : log'[q] = IF q = r THEN res ELSE log[q]
  BY DEF JournalInv, Shaped
<1>3. \A q \in Rows : log[q] \in {"write", "flush"} => holder = q
  BY DEF JournalInv, Shaped
<1>4. CASE Acquire(r)
  <2>1. /\ Log("write") /\ ~Logged(r) /\ UNCHANGED <<journal, stage, sink>> /\ holder = None
        /\ holder' = r
    BY <1>4 DEF Acquire, Logged
  <2>2. None \notin Rows
    BY ConstantsAssumption DEF Rows
  <2>3. Shaped'
    BY <1>2, <1>3, <2>1, <2>2 DEF JournalInv, Shaped, sink
  <2>4. \A q \in Rows : log'[q] # "flush"
    BY <1>2, <1>3, <2>1, <2>2
  <2> QED BY <1>1, <2>1, <2>3, <2>4 DEF sink
<1>5. CASE LockTimesOut(r)
  <2>1. Log("warned") /\ ~Logged(r) /\ UNCHANGED <<journal, stage, holder, sink>>
    BY <1>5 DEF LockTimesOut, Logged
  <2>2. Shaped'
    BY <1>2, <2>1 DEF JournalInv, Shaped, sink
  <2>3. \A q \in Rows : log'[q] = "flush" => log[q] = "flush"
    BY <1>2, <2>1
  <2> QED BY <1>1, <2>1, <2>2, <2>3 DEF sink, JournalInv, OnItsWay
<1>6. CASE Write(r)
  <2>1. /\ Log("flush") /\ ~Logged(r) /\ holder = r /\ buffer' = Append(buffer, r)
        /\ UNCHANGED <<journal, stage, holder, inflight, disk, file>>
    BY <1>3, <1>6 DEF Write, Logged
  <2>2. /\ buffer' \in Seq(Rows) /\ Len(buffer) + 1 \in DOMAIN buffer'
        /\ buffer'[Len(buffer) + 1] = r
    BY <2>1 DEF JournalInv, Shaped
  <2>3. Shaped'
    BY <1>2, <2>1, <2>2 DEF JournalInv, Shaped
  <2>4. \A q \in Rows : log'[q] = "flush" => q = r
    BY <1>2, <1>3, <2>1
  <2>5. In(r, buffer')
    BY <2>2 DEF In
  <2> QED BY <1>1, <2>1, <2>3, <2>4, <2>5
<1>7. CASE HandOver(r)
  <2>1. /\ holder = r /\ inflight' = buffer /\ buffer' = <<>> /\ disk' = "busy"
        /\ disk \in {"idle", "ok"} /\ UNCHANGED <<journal, stage, log, holder, file>>
    BY <1>3, <1>7 DEF HandOver, Polls
  <2>2. Shaped'
    BY <2>1 DEF JournalInv, Shaped
  <2>3. inflight = <<>>
    BY <2>1 DEF JournalInv, Shaped
  <2>4. OnItsWay'
    BY <2>1, <2>3 DEF JournalInv, OnItsWay, In, InFile
  <2>5. Acknowledged' /\ Waited' /\ AlwaysOn'
    BY <2>1 DEF JournalInv, Acknowledged, Waited, AlwaysOn, Logged, InFile
  <2> QED BY <2>2, <2>4, <2>5 DEF JournalInv
<1>8. ASSUME NEW res \in {"ok", "warned"}, Ends(r, res), log[r] \in {"write", "flush"},
             disk' \in {"idle", "busy", "ok", "failed"}, disk' # "busy" => inflight = <<>>,
             UNCHANGED <<journal, stage, buffer, inflight, file>>,
             res = "ok" => InFile(r)
      PROVE  JournalInv'
  <2>1. Log(res) /\ ~Logged(r) /\ holder' = None
    BY <1>8 DEF Ends, Logged
  <2>2. \A q \in Rows : log'[q] \notin {"write", "flush"}
    BY <1>2, <1>3, <1>8, <2>1
  <2>3. Shaped'
    BY <1>2, <1>8, <2>1, <2>2 DEF JournalInv, Shaped
  <2> QED BY <1>1, <1>8, <2>1, <2>2, <2>3
<1>9. CASE Flushed(r)
  <2>1. log[r] = "flush" /\ disk \in {"idle", "ok"} /\ buffer = <<>> /\ inflight = <<>>
    BY <1>9 DEF Flushed, JournalInv, Shaped
  <2>2. InFile(r)
    BY <2>1 DEF JournalInv, OnItsWay, In
  <2> QED BY <1>8, <1>9, <2>1, <2>2 DEF Flushed
<1>10. CASE IoFails(r)
  <2>1. inflight = <<>>
    BY <1>10 DEF IoFails, JournalInv, Shaped
  <2> QED BY <1>8, <1>10, <2>1 DEF IoFails, Polls
<1>11. CASE IoTimesOut(r)
  BY <1>8, <1>11 DEF IoTimesOut, Polls, sink
<1> QED BY <1>4, <1>5, <1>6, <1>7, <1>9, <1>10, <1>11 DEF LogStep

-----------------------------------------------------------------------------
(* The audit is complete *)

\* A tool runs only once its call row is in the file or a warning has told that
\* it may be missing, and its reply waits for the result row likewise, whatever
\* deadlines pass and however the disk fails.
THEOREM AuditComplete == Spec => []Audited
<1>1. Init => JournalInv
  BY DEF Init, JournalInv, Shaped, OnItsWay, Acknowledged, Waited, AlwaysOn
<1>2. JournalInv /\ [Next]_vars => JournalInv'
  <2> SUFFICES ASSUME JournalInv, [Next]_vars PROVE JournalInv'
    OBVIOUS
  <2>1. CASE UNCHANGED vars
    BY <2>1 DEF vars, sink, JournalInv, Shaped, OnItsWay, Acknowledged, Waited, AlwaysOn,
                Logged, InFile
  <2> QED BY <2>1, CallKeepsInv, LogKeepsInv, DiskKeepsInv, DiskFailureKeepsInv DEF Next, AllDone
<1>3. JournalInv => Audited
  <2> SUFFICES ASSUME JournalInv, journal, NEW c \in Calls
               PROVE  /\ stage[c] \in {"running", "ran", "done"} =>
                           InFile(<<c, "call">>) \/ log[<<c, "call">>] = "warned"
                      /\ stage[c] = "done" =>
                           InFile(<<c, "result">>) \/ log[<<c, "result">>] = "warned"
    BY DEF Audited
  <2>1. <<c, "call">> \in Rows /\ <<c, "result">> \in Rows
    BY DEF Rows
  <2>2. \A r \in Rows : Logged(r) => InFile(r) \/ log[r] = "warned"
    BY DEF JournalInv, Acknowledged, AlwaysOn, Logged
  <2> QED BY <2>1, <2>2 DEF JournalInv, Waited
<1> QED BY <1>1, <1>2, <1>3, PTL DEF Spec

-----------------------------------------------------------------------------
(* Types and orders *)

\* A row is not logged before its time, and not without a journal.
Paced ==
  /\ \A c \in Calls :
       /\ stage[c] = "idle" => log[<<c, "call">>] = "none"
       /\ stage[c] \in {"idle", "called", "running"} => log[<<c, "result">>] = "none"
  /\ ~journal => \A r \in Rows : log[r] \in {"none", "off"}

\* A call names no session, or one whose open is being run or was.
NamesKnown ==
  \A c \in Calls : names[c] # None =>
    /\ names[c] # c
    /\ stage[names[c]] \in {"running", "ran", "done"}
    /\ heard[c] => stage[names[c]] = "done" /\ opened[names[c]]

\* The rows that are in the file or on their way were written.
Placed(r) == log[r] \in {"flush", "ok", "warned"}
AllPlaced ==
  /\ \A i \in DOMAIN file : Placed(file[i].row)
  /\ \A i \in DOMAIN inflight : Placed(inflight[i])
  /\ \A i \in DOMAIN buffer : Placed(buffer[i])

\* Row q may not come after row p.
Clash(p, q) == p = q \/ (p[2] = "result" /\ q = <<p[1], "call">>)

\* RowsOrdered, part by part.
PartsOrdered ==
  /\ \A i, j \in DOMAIN file : i < j => ~Clash(file[i].row, file[j].row)
  /\ \A i, j \in DOMAIN inflight : i < j => ~Clash(inflight[i], inflight[j])
  /\ \A i, j \in DOMAIN buffer : i < j => ~Clash(buffer[i], buffer[j])
  /\ \A i \in DOMAIN file, j \in DOMAIN inflight : ~Clash(file[i].row, inflight[j])
  /\ \A i \in DOMAIN file, j \in DOMAIN buffer : ~Clash(file[i].row, buffer[j])
  /\ \A i \in DOMAIN inflight, j \in DOMAIN buffer : ~Clash(inflight[i], buffer[j])

\* SessionsIntroduced, of the file: what is not in the file yet comes after all
\* that is.
FileIntroduced ==
  \A j \in DOMAIN file :
    LET c == file[j].row[1]
        o == session_id(file[j].row)
    IN o \notin {None, c} =>
         /\ log[<<o, "call">>] = "warned" \/ \E i \in DOMAIN file : i < j /\ file[i].row = <<o, "call">>
         /\ heard[c] =>
              log[<<o, "result">>] = "warned" \/ \E i \in DOMAIN file : i < j /\ file[i].row = <<o, "result">>

TypeInv  == JournalInv /\ TypeOK /\ Paced
OrderInv == TypeInv /\ NamesKnown /\ AllPlaced /\ PartsOrdered /\ FileIntroduced

\* The steps of call_tool keep the types: a row's log begins once.
LEMMA CallKeepsTypes ==
  ASSUME TypeInv, NEW c \in Calls, Arrive(c) \/ Dispatch(c) \/ Returns(c) \/ Reply(c)
  PROVE  TypeInv'
<1>1. JournalInv'
  BY CallKeepsInv DEF TypeInv
<1>2. <<c, "call">> \in Rows /\ <<c, "result">> \in Rows
  BY DEF Rows
<1>3. ASSUME NEW to \in {"called", "running", "ran", "done"}, Moves(c, to)
      PROVE  /\ \A d \in Calls : stage'[d] = IF d = c THEN to ELSE stage[d]
             /\ stage' \in [Calls -> {"idle", "called", "running", "ran", "done"}]
  BY <1>3 DEF Moves, TypeInv, TypeOK
<1>4. ASSUME NEW r \in Rows, StartLog(r) \/ DropRow(r), log[r] = "none"
      PROVE  /\ \A q \in Rows : q # r => log'[q] = log[q]
             /\ log'[r] \in {"lock", "off", "warned"} /\ (~journal => log'[r] = "off")
             /\ log' \in [Rows -> {"none", "off", "lock", "write", "flush", "ok", "warned"}]
             /\ \A q \in Rows : log'[q] \in {"write", "flush"} <=> log[q] \in {"write", "flush"}
  <2>1. PICK res \in {"lock", "off", "warned"} :
          log' = [log EXCEPT ![r] = res] /\ (~journal => res = "off")
    BY <1>4 DEF StartLog, DropRow
  <2> QED BY <1>4, <2>1 DEF TypeInv, TypeOK
<1>5. CASE Arrive(c)
  <2>1. /\ stage[c] = "idle" /\ Moves(c, "called")
        /\ StartLog(<<c, "call">>) \/ DropRow(<<c, "call">>)
        /\ UNCHANGED <<journal, opened, holder, sink>> /\ log[<<c, "call">>] = "none"
    BY <1>5 DEF Arrive, TypeInv, Paced
  <2>2. names' \in [Calls -> Calls \cup {None}] /\ heard' \in [Calls -> BOOLEAN]
    BY <1>5 DEF Arrive, TypeInv, TypeOK, Known
  <2>3. TypeOK'
    BY <1>2, <1>3, <1>4, <2>1, <2>2 DEF TypeInv, TypeOK, sink
  <2>4. Paced'
    BY <1>2, <1>3, <1>4, <2>1 DEF TypeInv, Paced, Rows
  <2> QED BY <1>1, <2>3, <2>4 DEF TypeInv
<1>6. CASE Returns(c)
  <2>1. /\ stage[c] = "running" /\ Moves(c, "ran")
        /\ StartLog(<<c, "result">>) \/ DropRow(<<c, "result">>)
        /\ UNCHANGED <<journal, names, heard, holder, sink>> /\ log[<<c, "result">>] = "none"
    BY <1>6 DEF Returns, TypeInv, Paced
  <2>2. opened' \in [Calls -> BOOLEAN]
    BY <1>6 DEF Returns, TypeInv, TypeOK
  <2>3. TypeOK'
    BY <1>2, <1>3, <1>4, <2>1, <2>2 DEF TypeInv, TypeOK, sink
  <2>4. Paced'
    BY <1>2, <1>3, <1>4, <2>1 DEF TypeInv, Paced, Rows
  <2> QED BY <1>1, <2>3, <2>4 DEF TypeInv
<1>7. CASE Dispatch(c) \/ Reply(c)
  <2>1. /\ \/ stage[c] = "called" /\ Moves(c, "running")
           \/ stage[c] = "ran" /\ Moves(c, "done")
        /\ UNCHANGED <<journal, args, log, holder, sink>>
    BY <1>7 DEF Dispatch, Reply
  <2>2. TypeOK'
    BY <1>3, <2>1 DEF TypeInv, TypeOK, sink, args
  <2>3. Paced'
    BY <1>3, <2>1 DEF TypeInv, Paced
  <2> QED BY <1>1, <2>2, <2>3 DEF TypeInv
<1> QED BY <1>5, <1>6, <1>7

\* A step of a log keeps the types: the row whose log holds the lock is the one
\* that is written.
LEMMA LogKeepsTypes == ASSUME TypeInv, NEW r \in Rows, LogStep(r) PROVE TypeInv'
<1> DEFINE States == {"none", "off", "lock", "write", "flush", "ok", "warned"}
<1>1. JournalInv'
  BY LogKeepsInv DEF TypeInv
<1>2. log \in [Rows -> States] /\ \A q \in Rows : holder = q <=> log[q] \in {"write", "flush"}
  BY DEF TypeInv, TypeOK
<1>3. ASSUME NEW res \in States, log' = [log EXCEPT ![r] = res]
      PROVE  log' \in [Rows -> States] /\ \A q \in Rows : log'[q] = IF q = r THEN res ELSE log[q]
  BY <1>2, <1>3
<1>4. None \notin Rows
  BY ConstantsAssumption DEF Rows
<1>5. ASSUME NEW res \in {"write", "flush", "ok", "warned"}, log' = [log EXCEPT ![r] = res],
             log[r] \in {"lock", "write", "flush"}, UNCHANGED <<journal, stage>>
      PROVE  Paced'
  <2>1. \A q \in Rows : log'[q] = IF q = r THEN res ELSE log[q]
    BY <1>3, <1>5
  <2>2. journal
    BY <1>5 DEF TypeInv, Paced
  <2>3. \A q \in Rows : log[q] = "none" => log'[q] = "none"
    BY <1>5, <2>1
  <2>4. \A c \in Calls : <<c, "call">> \in Rows /\ <<c, "result">> \in Rows
    BY DEF Rows
  <2> QED BY <1>5, <2>2, <2>3, <2>4 DEF TypeInv, Paced
<1>6. CASE Acquire(r)
  <2>1. /\ log[r] = "lock" /\ log' = [log EXCEPT ![r] = "write"] /\ holder = None /\ holder' = r
        /\ UNCHANGED <<journal, stage, args, sink>>
    BY <1>6 DEF Acquire
  <2>2. log' \in [Rows -> States] /\ \A q \in Rows : log'[q] = IF q = r THEN "write" ELSE log[q]
    BY <1>3, <2>1
  <2>3. holder' \in Rows \cup {None} /\ \A q \in Rows : holder' = q <=> log'[q] \in {"write", "flush"}
    BY <1>2, <1>4, <2>1, <2>2
  <2>4. TypeOK'
    BY <2>1, <2>2, <2>3 DEF TypeInv, TypeOK, args, sink
  <2> QED BY <1>1, <1>5, <2>1, <2>4 DEF TypeInv
<1>7. CASE LockTimesOut(r)
  <2>1. /\ log[r] = "lock" /\ log' = [log EXCEPT ![r] = "warned"]
        /\ UNCHANGED <<journal, stage, args, holder, sink>>
    BY <1>7 DEF LockTimesOut
  <2>2. log' \in [Rows -> States] /\ \A q \in Rows : log'[q] = IF q = r THEN "warned" ELSE log[q]
    BY <1>3, <2>1
  <2>3. \A q \in Rows : holder' = q <=> log'[q] \in {"write", "flush"}
    BY <1>2, <2>1, <2>2
  <2>4. TypeOK'
    BY <2>1, <2>2, <2>3 DEF TypeInv, TypeOK, args, sink
  <2> QED BY <1>1, <1>5, <2>1, <2>4 DEF TypeInv
<1>8. CASE Write(r)
  <2>1. /\ log[r] = "write" /\ log' = [log EXCEPT ![r] = "flush"] /\ Len(buffer) < Capacity
        /\ buffer' = Append(buffer, r)
        /\ UNCHANGED <<journal, stage, args, holder, inflight, disk, file, errors>>
    BY <1>8 DEF Write
  <2>2. log' \in [Rows -> States] /\ \A q \in Rows : log'[q] = IF q = r THEN "flush" ELSE log[q]
    BY <1>3, <2>1
  <2>3. \A q \in Rows : holder' = q <=> log'[q] \in {"write", "flush"}
    BY <1>2, <2>1, <2>2
  <2>4. buffer' \in Seq(Rows) /\ Len(buffer') <= Capacity
    BY <2>1, ConstantsAssumption DEF TypeInv, TypeOK
  <2>5. TypeOK'
    BY <2>1, <2>2, <2>3, <2>4 DEF TypeInv, TypeOK, args
  <2> QED BY <1>1, <1>5, <2>1, <2>5 DEF TypeInv
<1>9. CASE HandOver(r)
  <2>1. /\ buffer # <<>> /\ inflight' = buffer /\ buffer' = <<>> /\ disk' = "busy"
        /\ UNCHANGED <<journal, stage, args, log, holder, file, errors>>
    BY <1>9 DEF HandOver
  <2>2. buffer' \in Seq(Rows) /\ Len(buffer') <= Capacity
    BY <2>1, ConstantsAssumption DEF TypeInv, TypeOK
  <2>3. TypeOK'
    BY <2>1, <2>2 DEF TypeInv, TypeOK, args
  <2>4. Paced'
    BY <2>1 DEF TypeInv, Paced
  <2> QED BY <1>1, <2>3, <2>4 DEF TypeInv
<1>10. ASSUME NEW res \in {"ok", "warned"}, Ends(r, res), log[r] \in {"write", "flush"},
              disk' \in {"idle", "busy", "ok", "failed"}, disk' = "busy" <=> disk = "busy",
              UNCHANGED <<journal, stage, args, buffer, inflight, file, errors>>
       PROVE  TypeInv'
  <2>1. log' = [log EXCEPT ![r] = res] /\ holder' = None
    BY <1>10 DEF Ends
  <2>2. log' \in [Rows -> States] /\ \A q \in Rows : log'[q] = IF q = r THEN res ELSE log[q]
    BY <1>3, <2>1
  <2>3. \A q \in Rows : holder' = q <=> log'[q] \in {"write", "flush"}
    BY <1>2, <1>4, <1>10, <2>1, <2>2
  <2>4. TypeOK'
    BY <1>10, <2>1, <2>2, <2>3 DEF TypeInv, TypeOK, args
  <2> QED BY <1>1, <1>5, <1>10, <2>1, <2>4 DEF TypeInv
<1>11. CASE Flushed(r)
  BY <1>10, <1>11 DEF Flushed
<1>12. CASE IoFails(r)
  BY <1>10, <1>12 DEF IoFails, Polls
<1>13. CASE IoTimesOut(r)
  BY <1>10, <1>13 DEF IoTimesOut, Polls, sink, TypeInv, TypeOK
<1> QED BY <1>6, <1>7, <1>8, <1>9, <1>11, <1>12, <1>13 DEF LogStep

\* So do the steps of the background thread.
LEMMA ThreadKeepsTypes == ASSUME TypeInv, DiskWrites \/ DiskFails PROVE TypeInv'
<1>1. JournalInv'
  BY DiskKeepsInv, DiskFailureKeepsInv DEF TypeInv
<1>2. /\ disk = "busy" /\ disk' \in {"ok", "failed"} /\ inflight' = <<>>
      /\ UNCHANGED <<journal, stage, args, log, holder, buffer>>
  BY DEF DiskWrites, DiskFails
<1>3. errors' \in 0..MaxErrors
  <2>1. errors' = errors \/ (errors < MaxErrors /\ errors' = errors + 1)
    BY DEF DiskWrites, DiskFails
  <2>2. errors \in 0..MaxErrors /\ MaxErrors \in Nat
    BY ConstantsAssumption DEF TypeInv, TypeOK
  <2> QED BY <2>1, <2>2
<1>4. file' \in Seq([row : Rows, whole : BOOLEAN])
  BY <1>1 DEF JournalInv, Shaped, AnyPiece
<1>5. TypeOK'
  BY <1>2, <1>3, <1>4 DEF TypeInv, TypeOK, args
<1>6. Paced'
  BY <1>2 DEF TypeInv, Paced
<1> QED BY <1>1, <1>5, <1>6 DEF TypeInv

\* The types hold at the start and are kept by every step.
LEMMA TypesInvariant == Spec => []TypeInv
<1>1. Init => TypeInv
  <2> SUFFICES ASSUME Init PROVE TypeInv
    OBVIOUS
  <2>1. JournalInv
    BY DEF Init, JournalInv, Shaped, OnItsWay, Acknowledged, Waited, AlwaysOn
  <2>2. /\ stage \in [Calls -> {"idle", "called", "running", "ran", "done"}]
        /\ names \in [Calls -> Calls \cup {None}]
        /\ opened \in [Calls -> BOOLEAN] /\ heard \in [Calls -> BOOLEAN]
        /\ log \in [Rows -> {"none", "off", "lock", "write", "flush", "ok", "warned"}]
    BY DEF Init
  <2>3. \A r \in Rows : holder = r <=> log[r] \in {"write", "flush"}
    BY ConstantsAssumption DEF Init, Rows
  <2>4. /\ buffer \in Seq(Rows) /\ Len(buffer) <= Capacity
        /\ inflight \in Seq(Rows) /\ file \in Seq([row : Rows, whole : BOOLEAN])
        /\ errors \in 0..MaxErrors
    BY ConstantsAssumption DEF Init
  <2>5. TypeOK
    BY <2>2, <2>3, <2>4 DEF Init, TypeOK
  <2>6. Paced
    BY DEF Init, Paced, Rows
  <2> QED BY <2>1, <2>5, <2>6 DEF TypeInv
<1>2. TypeInv /\ [Next]_vars => TypeInv'
  <2> SUFFICES ASSUME TypeInv, [Next]_vars PROVE TypeInv'
    OBVIOUS
  <2>1. CASE UNCHANGED vars
    <3>1. JournalInv'
      BY <2>1 DEF vars, sink, TypeInv, JournalInv, Shaped, OnItsWay, Acknowledged, Waited,
                  AlwaysOn, Logged, InFile
    <3>2. TypeOK'
      BY <2>1 DEF vars, args, sink, TypeInv, TypeOK
    <3>3. Paced'
      BY <2>1 DEF vars, TypeInv, Paced
    <3> QED BY <3>1, <3>2, <3>3 DEF TypeInv
  <2> QED BY <2>1, CallKeepsTypes, LogKeepsTypes, ThreadKeepsTypes DEF Next, AllDone
<1> QED BY <1>1, <1>2, PTL DEF Spec

-----------------------------------------------------------------------------
(* Orders *)

\* What is in the file or on its way are rows.
LEMMA RowsOnTheirWay ==
  ASSUME TypeInv
  PROVE  /\ \A i \in DOMAIN file : file[i].row \in Rows
         /\ \A i \in DOMAIN inflight : inflight[i] \in Rows
         /\ \A i \in DOMAIN buffer : buffer[i] \in Rows
<1>1. file \in Seq(AnyPiece) /\ inflight \in Seq(Rows) /\ buffer \in Seq(Rows)
  BY DEF TypeInv, TypeOK, AnyPiece
<1>2. ASSUME NEW S, NEW s \in Seq(S), NEW i \in DOMAIN s PROVE s[i] \in S
  BY ElementOfSeq, LenProperties
<1>3. \A i \in DOMAIN file : file[i] \in AnyPiece
  BY <1>1, <1>2
<1>4. \A i \in DOMAIN inflight : inflight[i] \in Rows
  BY <1>1, <1>2
<1>5. \A i \in DOMAIN buffer : buffer[i] \in Rows
  BY <1>1, <1>2
<1> QED BY <1>3, <1>4, <1>5 DEF AnyPiece

\* What a row that was logged says does not change.
LEMMA RowsFixed ==
  ASSUME OrderInv, NEW c \in Calls, Arrive(c) \/ Dispatch(c) \/ Returns(c) \/ Reply(c),
         NEW r \in Rows, log[r] # "none"
  PROVE  session_id(r)' = session_id(r) /\ heard'[r[1]] = heard[r[1]] /\ log'[r] = log[r]
<1>1. PICK d \in Calls, dir \in {"call", "result"} : r = <<d, dir>>
  BY DEF Rows
<1>2. TypeInv /\ TypeOK /\ Paced
  BY DEF OrderInv, TypeInv
<1>3. CASE Arrive(c)
  <2>1. stage[c] = "idle" /\ UNCHANGED opened
    BY <1>3 DEF Arrive
  <2>2. d # c
    BY <1>1, <1>2, <2>1 DEF Paced
  <2>3. names'[d] = names[d] /\ heard'[d] = heard[d]
    BY <1>2, <1>3, <2>2 DEF Arrive, TypeOK
  <2>4. log'[r] = log[r]
    BY <1>1, <1>2, <1>3, <2>2 DEF Arrive, StartLog, DropRow, TypeOK, Rows
  <2> QED BY <1>1, <2>1, <2>3, <2>4 DEF session_id, call_session_id, result_session_id
<1>4. CASE Returns(c)
  <2>1. stage[c] = "running" /\ UNCHANGED <<names, heard>>
    BY <1>4 DEF Returns
  <2>2. d # c \/ dir = "call"
    BY <1>1, <1>2, <2>1 DEF Paced
  <2>3. d # c => opened'[d] = opened[d]
    BY <1>2, <1>4 DEF Returns, TypeOK
  <2>4. log'[r] = log[r]
    BY <1>1, <1>2, <1>4, <2>2 DEF Returns, StartLog, DropRow, TypeOK, Rows
  <2> QED BY <1>1, <2>1, <2>2, <2>3, <2>4 DEF session_id, call_session_id, result_session_id
<1>5. CASE Dispatch(c) \/ Reply(c)
  BY <1>5 DEF Dispatch, Reply, args, session_id, call_session_id, result_session_id
<1> QED BY <1>3, <1>4, <1>5

\* The steps of call_tool write no rows.
LEMMA CallKeepsOrder ==
  ASSUME OrderInv, NEW c \in Calls, Arrive(c) \/ Dispatch(c) \/ Returns(c) \/ Reply(c)
  PROVE  OrderInv'
<1>1. TypeInv' /\ TypeInv /\ TypeOK
  BY CallKeepsTypes DEF OrderInv, TypeInv
<1>2. UNCHANGED sink
  BY DEF Arrive, Dispatch, Returns, Reply
<1>3. NamesKnown'
  <2>1. ASSUME NEW d \in Calls, names'[d] # None
        PROVE  /\ names'[d] # d
               /\ stage'[names'[d]] \in {"running", "ran", "done"}
               /\ heard'[d] => stage'[names'[d]] = "done" /\ opened'[names'[d]]
    <3>1. CASE Arrive(c)
      <4>1. stage[c] = "idle" /\ UNCHANGED opened
            /\ \A o \in Calls : o # c => stage'[o] = stage[o]
        BY <1>1, <3>1 DEF Arrive, Moves, TypeOK
      <4>2. CASE d = c
        <5>1. PICK o \in Known \cup {None} :
                /\ names' = [names EXCEPT ![c] = o]
                /\ heard' = [heard EXCEPT ![c] = o # None /\ stage[o] = "done" /\ opened[o]]
          BY <3>1 DEF Arrive
        <5>2. names'[d] = o /\ (heard'[d] => stage[o] = "done" /\ opened[o])
          BY <1>1, <4>2, <5>1 DEF TypeOK
        <5>3. o \in Calls /\ stage[o] \in {"running", "ran", "done"}
          BY <2>1, <5>1, <5>2 DEF Known
        <5> QED BY <4>1, <4>2, <5>2, <5>3
      <4>3. CASE d # c
        <5>1. names'[d] = names[d] /\ heard'[d] = heard[d]
          BY <1>1, <3>1, <4>3 DEF Arrive, TypeOK
        <5>2. /\ names[d] # d /\ stage[names[d]] \in {"running", "ran", "done"}
              /\ heard[d] => stage[names[d]] = "done" /\ opened[names[d]]
          BY <2>1, <5>1 DEF OrderInv, NamesKnown
        <5>3. names[d] \in Calls
          BY <1>1, <2>1, <5>1 DEF TypeOK
        <5> QED BY <4>1, <5>1, <5>2, <5>3
      <4> QED BY <4>2, <4>3
    <3>2. CASE Dispatch(c) \/ Returns(c) \/ Reply(c)
      <4>1. names'[d] = names[d] /\ heard'[d] = heard[d]
        BY <3>2 DEF Dispatch, Returns, Reply, args
      <4>2. /\ names[d] # d /\ stage[names[d]] \in {"running", "ran", "done"}
            /\ heard[d] => stage[names[d]] = "done" /\ opened[names[d]]
        BY <2>1, <4>1 DEF OrderInv, NamesKnown
      <4>3. names[d] \in Calls
        BY <1>1, <2>1, <4>1 DEF TypeOK
      <4>4. \A o \in Calls : stage[o] \in {"running", "ran", "done"} =>
              /\ stage'[o] \in {"running", "ran", "done"}
              /\ stage[o] = "done" => stage'[o] = "done" /\ opened'[o] = opened[o]
        BY <1>1, <3>2 DEF Dispatch, Returns, Reply, Moves, TypeOK, args
      <4> QED BY <4>1, <4>2, <4>3, <4>4
    <3> QED BY <3>1, <3>2
  <2> QED BY <2>1 DEF NamesKnown
<1>4. \A r \in Rows : log[r] # "none" =>
        session_id(r)' = session_id(r) /\ heard'[r[1]] = heard[r[1]] /\ log'[r] = log[r]
  BY RowsFixed
<1>5. /\ \A i \in DOMAIN file : file[i].row \in Rows
      /\ \A i \in DOMAIN inflight : inflight[i] \in Rows
      /\ \A i \in DOMAIN buffer : buffer[i] \in Rows
  BY RowsOnTheirWay DEF OrderInv
<1>6. AllPlaced'
  BY <1>2, <1>4, <1>5 DEF OrderInv, AllPlaced, Placed, sink
<1>7. PartsOrdered'
  BY <1>2 DEF OrderInv, PartsOrdered, sink
<1>8. FileIntroduced'
  <2> SUFFICES ASSUME NEW j \in DOMAIN file
               PROVE  LET c1 == file[j].row[1]
                          o == session_id(file[j].row)'
                      IN o \notin {None, c1} =>
                           /\ log'[<<o, "call">>] = "warned"
                                \/ \E i \in DOMAIN file : i < j /\ file[i].row = <<o, "call">>
                           /\ heard'[c1] =>
                                log'[<<o, "result">>] = "warned"
                                  \/ \E i \in DOMAIN file : i < j /\ file[i].row = <<o, "result">>
    BY <1>2 DEF FileIntroduced, sink, session_id, call_session_id, result_session_id
  <2>1. file[j].row \in Rows /\ log[file[j].row] # "none"
    BY <1>5 DEF OrderInv, AllPlaced, Placed
  <2>2. session_id(file[j].row)' = session_id(file[j].row) /\ heard'[file[j].row[1]] = heard[file[j].row[1]]
    <3>1. PICK r \in Rows : r = file[j].row
      BY <2>1
    <3>2. file' = file
      BY <1>2 DEF sink
    <3>3. session_id(r)' = session_id(r) /\ heard'[r[1]] = heard[r[1]]
      BY <1>4, <2>1, <3>1
    <3>4. session_id(file[j].row)' = session_id(r)'
      BY <3>1, <3>2 DEF session_id, call_session_id, result_session_id
    <3> QED BY <3>1, <3>3, <3>4
  <2>3. \A r \in Rows : log[r] = "warned" => log'[r] = "warned"
    BY <1>4
  <2>4. session_id(file[j].row) \in Calls \cup {None}
    BY <1>1, <2>1 DEF TypeOK, session_id, call_session_id, result_session_id, Rows
  <2> QED BY <2>2, <2>3, <2>4 DEF OrderInv, FileIntroduced, Rows
<1> QED BY <1>1, <1>3, <1>6, <1>7, <1>8 DEF OrderInv

\* The steps of a log: a row is written behind those that may come before it,
\* because call_tool awaits the call row before the tool runs.
LEMMA LogKeepsOrder == ASSUME OrderInv, NEW r \in Rows, LogStep(r) PROVE OrderInv'
<1>1. TypeInv' /\ TypeInv /\ TypeOK /\ Paced /\ Waited
  BY LogKeepsTypes DEF OrderInv, TypeInv, JournalInv
<1>2. UNCHANGED <<journal, stage, names, opened, heard, file>>
  BY DEF LogStep, Acquire, LockTimesOut, Write, HandOver, Flushed, IoFails, IoTimesOut, args, sink
<1>3. /\ \A q \in Rows : log[q] = "warned" => log'[q] = "warned"
      /\ \A q \in Rows : Placed(q) => Placed(q)'
  <2>1. ASSUME NEW from \in {"lock", "write", "flush"}, NEW to \in {"write", "flush", "ok", "warned"},
               log[r] = from, log' = [log EXCEPT ![r] = to],
               from = "flush" => to \in {"ok", "warned"}
        PROVE  /\ \A q \in Rows : log[q] = "warned" => log'[q] = "warned"
               /\ \A q \in Rows : Placed(q) => Placed(q)'
    <3>1. \A q \in Rows : log'[q] = IF q = r THEN to ELSE log[q]
      BY <1>1, <2>1 DEF TypeOK
    <3> QED BY <2>1, <3>1 DEF Placed
  <2>2. CASE Acquire(r)
    BY <2>1, <2>2 DEF Acquire
  <2>3. CASE LockTimesOut(r)
    BY <2>1, <2>3 DEF LockTimesOut
  <2>4. CASE Write(r)
    BY <2>1, <2>4 DEF Write
  <2>5. CASE HandOver(r)
    BY <2>5 DEF HandOver, Placed
  <2>6. CASE Flushed(r)
    BY <2>1, <2>6 DEF Flushed, Ends
  <2>7. CASE IoFails(r)
    BY <2>1, <2>7 DEF IoFails, Polls, Ends
  <2>8. CASE IoTimesOut(r)
    BY <2>1, <2>8 DEF IoTimesOut, Polls, Ends
  <2> QED BY <2>2, <2>3, <2>4, <2>5, <2>6, <2>7, <2>8 DEF LogStep
<1>4. NamesKnown'
  BY <1>2 DEF OrderInv, NamesKnown
<1>5. /\ \A i \in DOMAIN file : file[i].row \in Rows
      /\ \A i \in DOMAIN inflight : inflight[i] \in Rows
      /\ \A i \in DOMAIN buffer : buffer[i] \in Rows
  BY <1>1, RowsOnTheirWay
<1>6. FileIntroduced'
  <2> SUFFICES ASSUME NEW j \in DOMAIN file
               PROVE  LET c == file[j].row[1]
                          o == session_id(file[j].row)
                      IN o \notin {None, c} =>
                           /\ log'[<<o, "call">>] = "warned"
                                \/ \E i \in DOMAIN file : i < j /\ file[i].row = <<o, "call">>
                           /\ heard[c] =>
                                log'[<<o, "result">>] = "warned"
                                  \/ \E i \in DOMAIN file : i < j /\ file[i].row = <<o, "result">>
    BY <1>2 DEF FileIntroduced, session_id, call_session_id, result_session_id
  <2>1. session_id(file[j].row) \in Calls \cup {None}
    BY <1>1, <1>5 DEF TypeOK, session_id, call_session_id, result_session_id, Rows
  <2> QED BY <1>3, <2>1 DEF OrderInv, FileIntroduced, Rows
<1>7. CASE Write(r)
  <2>1. /\ log[r] = "write" /\ log' = [log EXCEPT ![r] = "flush"] /\ buffer' = Append(buffer, r)
        /\ UNCHANGED <<inflight, file>>
    BY <1>7 DEF Write
  <2>2. log'[r] = "flush"
    BY <1>1, <2>1 DEF TypeOK
  <2>3. /\ Len(buffer) \in Nat /\ DOMAIN buffer = 1..Len(buffer)
        /\ DOMAIN buffer' = 1..Len(buffer) + 1 /\ buffer'[Len(buffer) + 1] = r
        /\ \A i \in DOMAIN buffer : buffer'[i] = buffer[i]
    BY <1>1, <2>1 DEF TypeOK
  <2>4. AllPlaced'
    BY <1>3, <1>5, <2>1, <2>2, <2>3 DEF OrderInv, AllPlaced, Placed
  <2>5. ASSUME NEW p \in Rows, Placed(p) PROVE ~Clash(p, r)
    <3>1. p # r
      BY <2>1, <2>5 DEF Placed
    <3>2. ASSUME p[2] = "result", r = <<p[1], "call">> PROVE FALSE
      <4>1. PICK c \in Calls : p = <<c, "result">> /\ r = <<c, "call">>
        BY <3>2 DEF Rows
      <4>2. stage[c] \notin {"idle", "called", "running"}
        BY <1>1, <2>5, <4>1 DEF Paced, Placed
      <4>3. Logged(r)
        BY <1>1, <4>1, <4>2 DEF TypeOK, Waited
      <4> QED BY <2>1, <4>3 DEF Logged
    <3> QED BY <3>1, <3>2 DEF Clash
  <2>6. /\ \A i \in DOMAIN file : ~Clash(file[i].row, r)
        /\ \A i \in DOMAIN inflight : ~Clash(inflight[i], r)
        /\ \A i \in DOMAIN buffer : ~Clash(buffer[i], r)
    BY <1>5, <2>5 DEF OrderInv, AllPlaced
  <2>7. /\ \A i, j \in DOMAIN file : i < j => ~Clash(file[i].row, file[j].row)
        /\ \A i, j \in DOMAIN inflight : i < j => ~Clash(inflight[i], inflight[j])
        /\ \A i, j \in DOMAIN buffer : i < j => ~Clash(buffer[i], buffer[j])
        /\ \A i \in DOMAIN file, j \in DOMAIN inflight : ~Clash(file[i].row, inflight[j])
        /\ \A i \in DOMAIN file, j \in DOMAIN buffer : ~Clash(file[i].row, buffer[j])
        /\ \A i \in DOMAIN inflight, j \in DOMAIN buffer : ~Clash(inflight[i], buffer[j])
    BY DEF OrderInv, PartsOrdered
  <2>8. \A j \in DOMAIN buffer' : j \in DOMAIN buffer \/ j = Len(buffer) + 1
    BY <2>3
  <2>9. \A i, j \in DOMAIN buffer' : i < j => ~Clash(buffer'[i], buffer'[j])
    <3> SUFFICES ASSUME NEW i \in DOMAIN buffer', NEW j \in DOMAIN buffer', i < j
                 PROVE  ~Clash(buffer'[i], buffer'[j])
      OBVIOUS
    <3>1. i \in DOMAIN buffer
      BY <2>3
    <3> QED BY <2>3, <2>6, <2>7, <2>8, <3>1
  <2>10. /\ \A i \in DOMAIN file, j \in DOMAIN buffer' : ~Clash(file[i].row, buffer'[j])
         /\ \A i \in DOMAIN inflight, j \in DOMAIN buffer' : ~Clash(inflight[i], buffer'[j])
    BY <2>3, <2>6, <2>7, <2>8
  <2>11. PartsOrdered'
    BY <2>1, <2>7, <2>9, <2>10 DEF PartsOrdered, Clash
  <2> QED BY <1>1, <1>4, <1>6, <2>4, <2>11 DEF OrderInv
<1>8. CASE HandOver(r)
  <2>1. /\ inflight' = buffer /\ buffer' = <<>> /\ disk \in {"idle", "ok"}
        /\ UNCHANGED <<log, file>>
    BY <1>8 DEF HandOver
  <2>2. AllPlaced'
    BY <2>1 DEF OrderInv, AllPlaced, Placed
  <2>3. PartsOrdered'
    BY <2>1 DEF OrderInv, PartsOrdered, Clash
  <2> QED BY <1>1, <1>4, <1>6, <2>2, <2>3 DEF OrderInv
<1>9. CASE UNCHANGED <<buffer, inflight, file>>
  <2>1. AllPlaced'
    BY <1>3, <1>5, <1>9 DEF OrderInv, AllPlaced, Placed
  <2>2. PartsOrdered'
    BY <1>9 DEF OrderInv, PartsOrdered, Clash
  <2> QED BY <1>1, <1>4, <1>6, <2>1, <2>2 DEF OrderInv
<1>10. Write(r) \/ HandOver(r) \/ UNCHANGED <<buffer, inflight, file>>
  BY DEF LogStep, Acquire, LockTimesOut, Flushed, IoFails, IoTimesOut, sink
<1> QED BY <1>7, <1>8, <1>9, <1>10

\* A sequence with another appended.
LEMMA Appended ==
  ASSUME NEW S, NEW p \in Seq(S), NEW q \in Seq(S), NEW f, f = p \o q
  PROVE  /\ f \in Seq(S) /\ Len(f) = Len(p) + Len(q)
         /\ DOMAIN f = 1..Len(p) + Len(q)
         /\ \A i \in 1..Len(p) : f[i] = p[i]
         /\ \A i \in 1..Len(q) : f[Len(p) + i] = q[i]
<1>1. f \in Seq(S) /\ Len(f) = Len(p) + Len(q)
  BY ConcatProperties
<1>2. DOMAIN f = 1..Len(p) + Len(q) /\ DOMAIN p = 1..Len(p) /\ DOMAIN q = 1..Len(q)
  BY <1>1, LenProperties
<1> QED BY <1>1, <1>2, ConcatElements

\* The thread brings the first m of the rows it was given into the file.
LEMMA FileGrows ==
  ASSUME TypeInv, DiskWrites \/ DiskFails
  PROVE  \E m \in 0..Len(inflight) :
           /\ DOMAIN file' = 1..Len(file) + m
           /\ \A i \in DOMAIN file : file'[i] = file[i]
           /\ \A i \in 1..m : file'[Len(file) + i].row = inflight[i]
<1>1. /\ file \in Seq(AnyPiece) /\ inflight \in Seq(Rows)
      /\ Len(file) \in Nat /\ DOMAIN file = 1..Len(file)
      /\ Len(inflight) \in Nat /\ DOMAIN inflight = 1..Len(inflight)
  BY LenProperties DEF TypeInv, TypeOK, AnyPiece
<1>2. \A x, w : Piece(x, w).row = x
  BY DEF Piece
<1>3. CASE DiskWrites
  <2>1. PICK p : p = Pieces(inflight)
    OBVIOUS
  <2>2. p \in Seq(AnyPiece) /\ DOMAIN p = DOMAIN inflight /\ \A i \in DOMAIN inflight : p[i].row = inflight[i]
    <3>1. p \in Seq(AnyPiece) /\ DOMAIN p = DOMAIN inflight /\ \A i \in DOMAIN inflight : p[i] = Piece(inflight[i], TRUE)
      BY <1>1, <2>1, PiecesType
    <3> QED BY <1>2, <3>1
  <2>3. file' = file \o p
    BY <1>3, <2>1 DEF DiskWrites
  <2>4. Len(p) = Len(inflight)
    BY <1>1, <2>2, LenProperties
  <2>5. /\ DOMAIN file' = 1..Len(file) + Len(inflight)
        /\ \A i \in DOMAIN file : file'[i] = file[i]
        /\ \A i \in 1..Len(inflight) : file'[Len(file) + i].row = inflight[i]
    <3>1. /\ DOMAIN file' = 1..Len(file) + Len(p)
          /\ \A i \in 1..Len(file) : file'[i] = file[i]
          /\ \A i \in 1..Len(p) : file'[Len(file) + i] = p[i]
      BY <1>1, <2>2, <2>3, Appended
    <3> QED BY <1>1, <2>2, <2>4, <3>1
  <2> QED BY <1>1, <2>5
<1>4. CASE DiskFails
  <2>1. PICK n \in 0..Len(inflight) - 1, torn \in BOOLEAN :
          file' = file \o Pieces(SubSeq(inflight, 1, n))
                       \o (IF torn THEN <<Piece(inflight[n + 1], FALSE)>> ELSE <<>>)
    BY <1>4 DEF DiskFails
  <2>2. PICK s : s = SubSeq(inflight, 1, n)
    OBVIOUS
  <2>3. s \in Seq(Rows) /\ Len(s) = n /\ DOMAIN s = 1..n /\ \A i \in 1..n : s[i] = inflight[i]
    BY <1>1, <2>2
  <2>4. PICK p : p = Pieces(s)
    OBVIOUS
  <2>5. p \in Seq(AnyPiece) /\ DOMAIN p = 1..n /\ \A i \in 1..n : p[i].row = inflight[i]
    <3>1. p \in Seq(AnyPiece) /\ DOMAIN p = DOMAIN s /\ \A i \in DOMAIN s : p[i] = Piece(s[i], TRUE)
      BY <2>3, <2>4, PiecesType
    <3>2. DOMAIN p = 1..n /\ \A i \in 1..n : p[i] = Piece(inflight[i], TRUE)
      BY <2>3, <3>1
    <3> QED BY <1>2, <3>1, <3>2
  <2>6. Len(p) = n
    BY <2>5, LenProperties
  <2>7. PICK x : x = Piece(inflight[n + 1], FALSE)
    OBVIOUS
  <2>8. x \in AnyPiece /\ x.row = inflight[n + 1]
    <3>1. inflight[n + 1] \in Rows
      BY <1>1
    <3> QED BY <2>7, <3>1 DEF Piece, AnyPiece
  <2>9. PICK q : q = (IF torn THEN <<x>> ELSE <<>>)
    OBVIOUS
  <2>10. q \in Seq(AnyPiece)
    BY <2>8, <2>9, ShortSequences
  <2>11. (torn => Len(q) = 1 /\ q[1] = x) /\ (~torn => Len(q) = 0)
    BY <2>9
  <2>12. PICK f : f = file \o p
    OBVIOUS
  <2>13. /\ f \in Seq(AnyPiece) /\ Len(f) = Len(file) + n /\ DOMAIN f = 1..Len(file) + n
         /\ \A i \in DOMAIN file : f[i] = file[i]
         /\ \A i \in 1..n : f[Len(file) + i] = p[i]
    <3>1. /\ f \in Seq(AnyPiece) /\ Len(f) = Len(file) + Len(p) /\ DOMAIN f = 1..Len(file) + Len(p)
          /\ \A i \in 1..Len(file) : f[i] = file[i]
          /\ \A i \in 1..Len(p) : f[Len(file) + i] = p[i]
      BY <1>1, <2>5, <2>12, Appended
    <3> QED BY <1>1, <2>6, <3>1
  <2>14. file' = f \o q
    BY <2>1, <2>2, <2>4, <2>7, <2>9, <2>12
  <2>15. /\ DOMAIN file' = 1..Len(file) + n + Len(q)
         /\ \A i \in DOMAIN f : file'[i] = f[i]
         /\ \A i \in 1..Len(q) : file'[Len(file) + n + i] = q[i]
    <3>1. /\ DOMAIN file' = 1..Len(f) + Len(q)
          /\ \A i \in 1..Len(f) : file'[i] = f[i]
          /\ \A i \in 1..Len(q) : file'[Len(f) + i] = q[i]
      <4>1. f \in Seq(AnyPiece)
        BY <2>13
      <4> HIDE <2>13
      <4> QED BY <2>10, <2>14, <4>1, Appended
    <3> QED BY <2>13, <3>1
  <2>16. PICK m : m = n + Len(q)
    OBVIOUS
  <2>17. m \in 0..Len(inflight) /\ DOMAIN file' = 1..Len(file) + m
    <3>1. Len(q) \in {0, 1}
      BY <2>11
    <3>2. n \in Nat /\ n + 1 <= Len(inflight) /\ Len(file) + n + Len(q) = Len(file) + m
      BY <1>1, <2>16, <3>1
    <3>3. n + Len(q) \in 0..Len(inflight)
      <4>1. PICK k : k = Len(q)
        OBVIOUS
      <4>2. k = 0 \/ k = 1
        BY <3>1, <4>1
      <4>3. n + k \in 0..Len(inflight)
        BY <1>1, <3>2, <4>2
      <4> QED BY <4>1, <4>3
    <3> QED BY <2>15, <2>16, <3>2, <3>3
  <2>18. \A i \in DOMAIN file : file'[i] = file[i]
    BY <1>1, <2>13, <2>15
  <2>19. ASSUME NEW i \in 1..m PROVE file'[Len(file) + i].row = inflight[i]
    <3>1. CASE i <= n
      <4>1. i \in 1..n /\ Len(file) + i \in DOMAIN f
        BY <1>1, <2>13, <3>1
      <4> QED BY <2>5, <2>13, <2>15, <4>1
    <3>2. CASE i > n
      <4>1. torn /\ i = n + 1
        <5>1. Len(q) \in {0, 1} /\ (Len(q) = 1 => torn)
          BY <2>11
        <5>2. n \in Nat /\ m \in Nat /\ i \in Nat /\ i <= n + Len(q)
          BY <2>16, <2>17
        <5>3. PICK k : k = Len(q)
          OBVIOUS
        <5>4. (k = 0 \/ k = 1) /\ (k = 1 => torn) /\ i <= n + k
          BY <5>1, <5>2, <5>3
        <5> QED BY <3>2, <5>2, <5>4
      <4>2. 1 \in 1..Len(q)
        BY <2>11, <4>1
      <4>3. file'[Len(file) + n + 1] = x
        BY <2>11, <2>15, <4>1, <4>2
      <4>4. Len(file) + i = Len(file) + n + 1
        BY <1>1, <4>1
      <4> QED BY <2>8, <4>1, <4>3, <4>4
    <3> QED BY <3>1, <3>2
  <2> QED BY <2>17, <2>18, <2>19
<1> QED BY <1>3, <1>4

\* A row that was written names a session whose open is in the file already, or
\* was warned of; that of a client that had the open's answer, its result too.
LEMMA Introduced ==
  ASSUME OrderInv, NEW r \in Rows, Placed(r), session_id(r) \notin {None, r[1]}
  PROVE  LET o == session_id(r)
         IN /\ o \in Calls
            /\ InFile(<<o, "call">>) \/ log[<<o, "call">>] = "warned"
            /\ heard[r[1]] => /\ session_id(<<o, "result">>) = o
                              /\ InFile(<<o, "result">>) \/ log[<<o, "result">>] = "warned"
<1>1. TypeOK /\ Paced /\ JournalInv
  BY DEF OrderInv, TypeInv
<1>2. PICK c \in Calls, dir \in {"call", "result"} : r = <<c, dir>>
  BY DEF Rows
<1>3. PICK o : o = session_id(r)
  OBVIOUS
<1>4. o = names[c] /\ o # None /\ o \in Calls
  BY <1>1, <1>2, <1>3 DEF session_id, call_session_id, result_session_id, TypeOK
<1>5. stage[o] \in {"running", "ran", "done"} /\ (heard[c] => stage[o] = "done" /\ opened[o])
  BY <1>2, <1>4 DEF OrderInv, NamesKnown
<1>6. journal
  BY <1>1 DEF Paced, Placed
<1>7. ASSUME NEW q \in Rows, Logged(q) PROVE InFile(q) \/ log[q] = "warned"
  BY <1>1, <1>6, <1>7 DEF JournalInv, AlwaysOn, Acknowledged, Logged
<1>8. <<o, "call">> \in Rows /\ <<o, "result">> \in Rows
  BY <1>4 DEF Rows
<1>9. Logged(<<o, "call">>) /\ (heard[c] => Logged(<<o, "result">>))
  BY <1>1, <1>4, <1>5 DEF JournalInv, Waited
<1>10. heard[c] => session_id(<<o, "result">>) = o
  BY <1>5 DEF session_id, result_session_id
<1> QED BY <1>2, <1>3, <1>4, <1>7, <1>8, <1>9, <1>10

\* What the thread writes comes behind what the file holds, in the order given.
LEMMA ThreadKeepsOrder == ASSUME OrderInv, DiskWrites \/ DiskFails PROVE OrderInv'
<1>1. TypeInv' /\ TypeInv /\ TypeOK
  BY ThreadKeepsTypes DEF OrderInv, TypeInv
<1>2. /\ UNCHANGED <<journal, stage, names, opened, heard, log, buffer>> /\ inflight' = <<>>
  BY DEF DiskWrites, DiskFails, args
<1>3. PICK m \in 0..Len(inflight) :
        /\ DOMAIN file' = 1..Len(file) + m
        /\ \A i \in DOMAIN file : file'[i] = file[i]
        /\ \A i \in 1..m : file'[Len(file) + i].row = inflight[i]
  BY <1>1, FileGrows DEF OrderInv
<1>4. /\ Len(file) \in Nat /\ DOMAIN file = 1..Len(file)
      /\ Len(inflight) \in Nat /\ DOMAIN inflight = 1..Len(inflight)
      /\ \A i \in DOMAIN file : file[i].row \in Rows
      /\ \A i \in DOMAIN inflight : inflight[i] \in Rows
      /\ \A i \in DOMAIN buffer : buffer[i] \in Rows
  <2>1. file \in Seq(AnyPiece) /\ inflight \in Seq(Rows)
    BY <1>1 DEF TypeOK, AnyPiece
  <2> QED BY <1>1, <2>1, RowsOnTheirWay, LenProperties
<1>5. NamesKnown'
  BY <1>2 DEF OrderInv, NamesKnown
\* A place of the new file is one of the old, or one of those that were given.
<1>6. ASSUME NEW i \in DOMAIN file'
      PROVE  \/ i \in DOMAIN file /\ file'[i] = file[i]
             \/ /\ i \notin DOMAIN file /\ i > Len(file)
                /\ i - Len(file) \in DOMAIN inflight /\ file'[i].row = inflight[i - Len(file)]
  <2>1. i \in 1..Len(file) + m
    BY <1>3
  <2>2. CASE i <= Len(file)
    BY <1>3, <1>4, <2>1, <2>2
  <2>3. CASE i > Len(file)
    <3>1. i - Len(file) \in 1..m /\ i = Len(file) + (i - Len(file))
      BY <1>3, <1>4, <2>1, <2>3
    <3>2. file'[i].row = inflight[i - Len(file)]
      BY <1>3, <3>1
    <3> QED BY <1>3, <1>4, <2>3, <3>1, <3>2
  <2> QED BY <1>4, <2>1, <2>2, <2>3
<1>7. AllPlaced'
  BY <1>2, <1>6 DEF OrderInv, AllPlaced, Placed
<1>8. PartsOrdered'
  <2>1. /\ \A i, j \in DOMAIN file : i < j => ~Clash(file[i].row, file[j].row)
        /\ \A i, j \in DOMAIN inflight : i < j => ~Clash(inflight[i], inflight[j])
        /\ \A i, j \in DOMAIN buffer : i < j => ~Clash(buffer[i], buffer[j])
        /\ \A i \in DOMAIN file, j \in DOMAIN inflight : ~Clash(file[i].row, inflight[j])
        /\ \A i \in DOMAIN file, j \in DOMAIN buffer : ~Clash(file[i].row, buffer[j])
        /\ \A i \in DOMAIN inflight, j \in DOMAIN buffer : ~Clash(inflight[i], buffer[j])
    BY DEF OrderInv, PartsOrdered
  <2>2. ASSUME NEW i \in DOMAIN file', NEW j \in DOMAIN file', i < j
        PROVE  ~Clash(file'[i].row, file'[j].row)
    <3>1. i \in Int /\ j \in Int
      BY <1>3
    <3>2. CASE j \in DOMAIN file
      <4>1. i \in DOMAIN file
        BY <1>4, <1>6, <2>2, <3>1, <3>2
      <4> QED BY <1>3, <2>1, <2>2, <3>2, <4>1
    <3>3. CASE j \notin DOMAIN file
      <4>1. j - Len(file) \in DOMAIN inflight /\ file'[j].row = inflight[j - Len(file)]
        BY <1>6, <3>3
      <4>2. CASE i \in DOMAIN file
        BY <1>3, <2>1, <4>1, <4>2
      <4>3. CASE i \notin DOMAIN file
        <5>1. i - Len(file) \in DOMAIN inflight /\ file'[i].row = inflight[i - Len(file)]
          BY <1>6, <4>3
        <5>2. i - Len(file) < j - Len(file)
          BY <1>4, <2>2, <3>1
        <5> QED BY <2>1, <4>1, <5>1, <5>2
      <4> QED BY <4>2, <4>3
    <3> QED BY <3>2, <3>3
  <2>3. \A i \in DOMAIN file', j \in DOMAIN buffer : ~Clash(file'[i].row, buffer[j])
    BY <1>6, <2>1
  <2> QED BY <1>2, <2>1, <2>2, <2>3 DEF PartsOrdered, Clash
<1>9. FileIntroduced'
  <2> SUFFICES ASSUME NEW j \in DOMAIN file'
               PROVE  LET c == file'[j].row[1]
                          o == session_id(file'[j].row)
                      IN o \notin {None, c} =>
                           /\ log[<<o, "call">>] = "warned"
                                \/ \E i \in DOMAIN file' : i < j /\ file'[i].row = <<o, "call">>
                           /\ heard[c] =>
                                log[<<o, "result">>] = "warned"
                                  \/ \E i \in DOMAIN file' : i < j /\ file'[i].row = <<o, "result">>
    BY <1>2 DEF FileIntroduced, session_id, call_session_id, result_session_id
  <2>1. \A i \in DOMAIN file : i \in DOMAIN file' /\ file'[i].row = file[i].row
    BY <1>3, <1>4
  <2>2. CASE j \in DOMAIN file
    <3>1. PICK r : r = file[j].row
      OBVIOUS
    <3>2. file'[j].row = r
      BY <2>1, <2>2, <3>1
    <3>3. PICK o : o = session_id(r)
      OBVIOUS
    <3>4. o \notin {None, r[1]} =>
            /\ log[<<o, "call">>] = "warned"
                 \/ \E i \in DOMAIN file : i < j /\ file[i].row = <<o, "call">>
            /\ heard[r[1]] =>
                 log[<<o, "result">>] = "warned"
                   \/ \E i \in DOMAIN file : i < j /\ file[i].row = <<o, "result">>
      BY <2>2, <3>1, <3>3 DEF OrderInv, FileIntroduced
    <3>5. \A q : (\E i \in DOMAIN file : i < j /\ file[i].row = q) =>
                 \E i \in DOMAIN file' : i < j /\ file'[i].row = q
      BY <2>1
    <3> QED BY <3>2, <3>3, <3>4, <3>5
  <2>3. CASE j \notin DOMAIN file
    <3>1. /\ j - Len(file) \in DOMAIN inflight /\ file'[j].row = inflight[j - Len(file)]
          /\ j > Len(file)
      BY <1>6, <2>3
    <3>2. PICK r \in Rows : r = file'[j].row
      BY <1>4, <3>1
    <3>3. Placed(r)
      BY <3>1, <3>2 DEF OrderInv, AllPlaced
    <3>4. ASSUME NEW q, InFile(q) PROVE \E i \in DOMAIN file' : i < j /\ file'[i].row = q
      <4>1. PICK i \in DOMAIN file : file[i] = Piece(q, TRUE)
        BY <3>4 DEF InFile
      <4>2. file'[i].row = q /\ i \in DOMAIN file'
        BY <2>1, <4>1 DEF Piece
      <4>3. i < j
        BY <1>3, <1>4, <3>1, <4>1
      <4> QED BY <4>2, <4>3
    <3>5. PICK o : o = session_id(r)
      OBVIOUS
    <3>6. o \notin {None, r[1]} =>
            /\ InFile(<<o, "call">>) \/ log[<<o, "call">>] = "warned"
            /\ heard[r[1]] => InFile(<<o, "result">>) \/ log[<<o, "result">>] = "warned"
      BY <3>3, <3>5, Introduced
    <3>7. o \notin {None, r[1]} =>
            /\ log[<<o, "call">>] = "warned"
                 \/ \E i \in DOMAIN file' : i < j /\ file'[i].row = <<o, "call">>
            /\ heard[r[1]] =>
                 log[<<o, "result">>] = "warned"
                   \/ \E i \in DOMAIN file' : i < j /\ file'[i].row = <<o, "result">>
      BY <3>4, <3>6
    <3> QED BY <3>2, <3>5, <3>7
  <2> QED BY <2>2, <2>3
<1> QED BY <1>1, <1>5, <1>7, <1>8, <1>9 DEF OrderInv

\* The orders hold at the start and are kept by every step.
LEMMA OrdersInvariant == Spec => []OrderInv
<1>1. Init /\ TypeInv => OrderInv
  <2> SUFFICES ASSUME Init, TypeInv PROVE OrderInv
    OBVIOUS
  <2>1. /\ DOMAIN file = {} /\ DOMAIN inflight = {} /\ DOMAIN buffer = {}
    BY DEF Init
  <2>2. NamesKnown
    BY DEF Init, NamesKnown
  <2> QED BY <2>1, <2>2 DEF OrderInv, AllPlaced, PartsOrdered, FileIntroduced
<1>2. OrderInv /\ [Next]_vars => OrderInv'
  <2> SUFFICES ASSUME OrderInv, [Next]_vars PROVE OrderInv'
    OBVIOUS
  <2>1. CASE UNCHANGED vars
    <3>1. TypeInv'
      <4>1. UNCHANGED <<journal, stage, names, opened, heard, log, holder, buffer, inflight, disk, file, errors>>
        BY <2>1 DEF vars, args, sink
      <4>2. JournalInv'
        BY <4>1 DEF OrderInv, TypeInv, JournalInv, Shaped, OnItsWay, Acknowledged, Waited,
                    AlwaysOn, Logged, InFile
      <4>3. TypeOK' /\ Paced'
        BY <4>1 DEF OrderInv, TypeInv, TypeOK, Paced
      <4> QED BY <4>2, <4>3 DEF TypeInv
    <3>2. NamesKnown' /\ AllPlaced'
      BY <2>1 DEF vars, args, sink, OrderInv, NamesKnown, AllPlaced, Placed
    <3>3. PartsOrdered'
      BY <2>1 DEF vars, sink, OrderInv, PartsOrdered, Clash
    <3>4. FileIntroduced'
      BY <2>1 DEF vars, args, sink, OrderInv, FileIntroduced, session_id, call_session_id,
                  result_session_id
    <3> QED BY <3>1, <3>2, <3>3, <3>4 DEF OrderInv
  <2> QED BY <2>1, CallKeepsOrder, LogKeepsOrder, ThreadKeepsOrder DEF Next, AllDone
<1>3. Spec => []TypeInv
  BY TypesInvariant
<1> QED BY <1>1, <1>2, <1>3, PTL DEF Spec

\* A place of the pipeline is one of the file, one of what the thread has, or
\* one of the buffer.
LEMMA PipelineParts ==
  ASSUME TypeInv
  PROVE  /\ DOMAIN Pipeline = 1..Len(file) + Len(inflight) + Len(buffer)
         /\ \A i \in 1..Len(file) : Pipeline[i] = file[i].row
         /\ \A i \in 1..Len(inflight) : Pipeline[Len(file) + i] = inflight[i]
         /\ \A i \in 1..Len(buffer) : Pipeline[Len(file) + Len(inflight) + i] = buffer[i]
<1>1. PICK f : f = [i \in DOMAIN file |-> file[i].row]
  OBVIOUS
<1>2. /\ file \in Seq(AnyPiece) /\ inflight \in Seq(Rows) /\ buffer \in Seq(Rows)
      /\ Len(file) \in Nat /\ DOMAIN file = 1..Len(file)
      /\ \A i \in DOMAIN file : file[i].row \in Rows
  BY LenProperties, RowsOnTheirWay DEF TypeInv, TypeOK, AnyPiece
<1>3. f \in Seq(Rows) /\ Len(f) = Len(file) /\ \A i \in 1..Len(file) : f[i] = file[i].row
  <2>1. f \in [1..Len(file) -> Rows]
    BY <1>1, <1>2
  <2>2. ASSUME NEW n \in Nat, NEW s \in [1..n -> Rows] PROVE s \in Seq(Rows) /\ Len(s) = n
    BY LenProperties
  <2> QED BY <1>1, <1>2, <2>1, <2>2
<1>4. PICK g : g = f \o inflight
  OBVIOUS
<1>5. /\ g \in Seq(Rows) /\ Len(g) = Len(f) + Len(inflight)
      /\ \A i \in 1..Len(f) : g[i] = f[i]
      /\ \A i \in 1..Len(inflight) : g[Len(f) + i] = inflight[i]
  <2>1. f \in Seq(Rows) /\ inflight \in Seq(Rows)
    BY <1>2, <1>3
  <2> HIDE <1>2, <1>3
  <2> QED BY <1>4, <2>1, Appended
<1>6. Pipeline = g \o buffer
  <2>1. Pipeline = f \o inflight \o buffer
    BY <1>1 DEF Pipeline
  <2> QED BY <1>4, <2>1
<1>7. PICK h : h = g \o buffer
  OBVIOUS
<1>8. g \in Seq(Rows)
  BY <1>5
<1>9. /\ DOMAIN h = 1..Len(g) + Len(buffer)
      /\ \A i \in 1..Len(g) : h[i] = g[i]
      /\ \A i \in 1..Len(buffer) : h[Len(g) + i] = buffer[i]
  BY <1>2, <1>7, <1>8, Appended
<1>10. Len(g) = Len(file) + Len(inflight) /\ Len(file) \in Nat /\ Len(inflight) \in Nat
  BY <1>2, <1>3, <1>5, LenProperties
<1>11. \A i \in 1..Len(file) : h[i] = file[i].row
  BY <1>3, <1>5, <1>9, <1>10
<1>12. ASSUME NEW i \in 1..Len(inflight) PROVE h[Len(file) + i] = inflight[i]
  <2>1. Len(file) + i \in 1..Len(g)
    BY <1>10
  <2> QED BY <1>3, <1>5, <1>9, <2>1
<1> QED BY <1>6, <1>7, <1>9, <1>10, <1>11, <1>12

-----------------------------------------------------------------------------
(* Theorems *)

\* The types of the journal's state: the lock is held by the log that is
\* writing, and by no other.
THEOREM TypeCorrect == Spec => []TypeOK
<1>1. TypeInv => TypeOK
  BY DEF TypeInv
<1> QED BY <1>1, TypesInvariant, PTL

\* No row is in the file twice and no result row precedes its call row, in what
\* is written and in what is on its way, whatever deadlines pass and however the
\* disk fails.
THEOREM RowsKeepOrder == Spec => []RowsOrdered
<1>1. OrderInv => RowsOrdered
  <2> SUFFICES ASSUME OrderInv, NEW i \in DOMAIN Pipeline, NEW j \in DOMAIN Pipeline, i < j
               PROVE  ~Clash(Pipeline[i], Pipeline[j])
    BY DEF RowsOrdered, Clash
  <2>1. TypeInv /\ PartsOrdered
    BY DEF OrderInv
  <2> DEFINE F == Len(file)
             I == Len(inflight)
             B == Len(buffer)
  <2>2. /\ F \in Nat /\ DOMAIN file = 1..F
        /\ I \in Nat /\ DOMAIN inflight = 1..I
        /\ B \in Nat /\ DOMAIN buffer = 1..B
    BY <2>1, LenProperties DEF TypeInv, TypeOK
  <2>3. /\ DOMAIN Pipeline = 1..F + I + B
        /\ \A k \in 1..F : Pipeline[k] = file[k].row
        /\ \A k \in 1..I : Pipeline[F + k] = inflight[k]
        /\ \A k \in 1..B : Pipeline[F + I + k] = buffer[k]
    BY <2>1, PipelineParts
  <2> HIDE DEF F, I, B
  <2>4. ASSUME NEW k \in DOMAIN Pipeline
        PROVE  \/ k \in 1..F /\ Pipeline[k] = file[k].row
               \/ k > F /\ k - F \in 1..I /\ Pipeline[k] = inflight[k - F]
               \/ k > F + I /\ k - (F + I) \in 1..B /\ Pipeline[k] = buffer[k - (F + I)]
    <3>1. k \in 1..F + I + B
      BY <2>3
    <3>2. CASE k <= F
      BY <2>2, <2>3, <3>1, <3>2
    <3>3. CASE k > F /\ k <= F + I
      <4>1. k - F \in 1..I /\ k = F + (k - F)
        BY <2>2, <3>1, <3>3
      <4> QED BY <2>3, <3>3, <4>1
    <3>4. CASE k > F + I
      <4>1. k - (F + I) \in 1..B /\ k = F + I + (k - (F + I))
        BY <2>2, <3>1, <3>4
      <4> QED BY <2>3, <3>4, <4>1
    <3> QED BY <2>2, <3>1, <3>2, <3>3, <3>4
  <2>5. i \in Int /\ j \in Int
    BY <2>2, <2>3
  <2>6. CASE j \in 1..F /\ Pipeline[j] = file[j].row
    <3>1. i \in 1..F
      BY <2>2, <2>3, <2>6
    <3> QED BY <2>1, <2>2, <2>3, <2>6, <3>1 DEF PartsOrdered
  <2>7. CASE j > F /\ j - F \in 1..I /\ Pipeline[j] = inflight[j - F]
    <3>1. CASE i \in 1..F /\ Pipeline[i] = file[i].row
      BY <2>1, <2>2, <2>7, <3>1 DEF PartsOrdered
    <3>2. CASE i > F /\ i - F \in 1..I /\ Pipeline[i] = inflight[i - F]
      <4>1. i - F < j - F
        BY <2>2, <2>5
      <4> QED BY <2>1, <2>2, <2>7, <3>2, <4>1 DEF PartsOrdered
    <3>3. ~(i > F + I)
      BY <2>2, <2>5, <2>7
    <3> QED BY <2>4, <3>1, <3>2, <3>3
  <2>8. CASE j > F + I /\ j - (F + I) \in 1..B /\ Pipeline[j] = buffer[j - (F + I)]
    <3>1. CASE i \in 1..F /\ Pipeline[i] = file[i].row
      BY <2>1, <2>2, <2>8, <3>1 DEF PartsOrdered
    <3>2. CASE i > F /\ i - F \in 1..I /\ Pipeline[i] = inflight[i - F]
      BY <2>1, <2>2, <2>8, <3>2 DEF PartsOrdered
    <3>3. CASE i > F + I /\ i - (F + I) \in 1..B /\ Pipeline[i] = buffer[i - (F + I)]
      <4>1. i - (F + I) < j - (F + I)
        BY <2>2, <2>5
      <4> QED BY <2>1, <2>2, <2>8, <3>3, <4>1 DEF PartsOrdered
    <3> QED BY <2>4, <3>1, <3>2, <3>3
  <2> QED BY <2>4, <2>6, <2>7, <2>8
<1> QED BY <1>1, OrdersInvariant, PTL

\* What was done in a session can be followed back to the rows of its open, in
\* every trail a crash may leave: call_tool, result_session_id.
THEOREM TrailsBegin == Spec => []SessionsIntroduced
<1>1. OrderInv => SessionsIntroduced
  <2> SUFFICES ASSUME OrderInv, NEW j \in DOMAIN Pipeline, NEW r, r = Pipeline[j],
                      NEW o, o = session_id(r), o \notin {None, r[1]}
               PROVE  /\ Before(j, <<o, "call">>) \/ log[<<o, "call">>] = "warned"
                      /\ heard[r[1]] =>
                           /\ session_id(<<o, "result">>) = o
                           /\ Before(j, <<o, "result">>) \/ log[<<o, "result">>] = "warned"
    BY DEF SessionsIntroduced
  <2>1. TypeInv
    BY DEF OrderInv
  <2> DEFINE F == Len(file)
             I == Len(inflight)
             B == Len(buffer)
  <2>2. /\ F \in Nat /\ DOMAIN file = 1..F
        /\ I \in Nat /\ DOMAIN inflight = 1..I
        /\ B \in Nat /\ DOMAIN buffer = 1..B
    BY <2>1, LenProperties DEF TypeInv, TypeOK
  <2>3. /\ DOMAIN Pipeline = 1..F + I + B
        /\ \A k \in 1..F : Pipeline[k] = file[k].row
        /\ \A k \in 1..I : Pipeline[F + k] = inflight[k]
        /\ \A k \in 1..B : Pipeline[F + I + k] = buffer[k]
    BY <2>1, PipelineParts
  <2> HIDE DEF F, I, B
  <2>4. r \in Rows /\ Placed(r)
    <3>1. j \in 1..F + I + B
      BY <2>3
    <3>2. CASE j <= F
      <4>1. j \in DOMAIN file /\ r = file[j].row
        BY <2>2, <2>3, <3>1, <3>2
      <4> QED BY <2>1, <4>1, RowsOnTheirWay DEF OrderInv, AllPlaced
    <3>3. CASE j > F /\ j <= F + I
      <4>1. j - F \in 1..I /\ j = F + (j - F)
        BY <2>2, <3>1, <3>3
      <4>2. j - F \in DOMAIN inflight /\ r = inflight[j - F]
        BY <2>2, <2>3, <4>1
      <4> QED BY <2>1, <4>2, RowsOnTheirWay DEF OrderInv, AllPlaced
    <3>4. CASE j > F + I
      <4>1. j - (F + I) \in 1..B /\ j = F + I + (j - (F + I))
        BY <2>2, <3>1, <3>4
      <4>2. j - (F + I) \in DOMAIN buffer /\ r = buffer[j - (F + I)]
        BY <2>2, <2>3, <4>1
      <4> QED BY <2>1, <4>2, RowsOnTheirWay DEF OrderInv, AllPlaced
    <3> QED BY <2>2, <3>1, <3>2, <3>3, <3>4
  <2>5. /\ InFile(<<o, "call">>) \/ log[<<o, "call">>] = "warned"
        /\ heard[r[1]] => /\ session_id(<<o, "result">>) = o
                          /\ InFile(<<o, "result">>) \/ log[<<o, "result">>] = "warned"
    BY <2>4, Introduced
  <2>6. CASE j > F
    <3>1. ASSUME NEW q, InFile(q) PROVE Before(j, q)
      <4>1. PICK i \in DOMAIN file : file[i] = Piece(q, TRUE)
        BY <3>1 DEF InFile
      <4>2. i \in 1..F /\ file[i].row = q
        BY <2>2, <4>1 DEF Piece
      <4>3. Pipeline[i] = q /\ i \in 1..j - 1
        BY <2>2, <2>3, <2>6, <4>2
      <4> QED BY <4>3 DEF Before
    <3> QED BY <2>5, <3>1
  <2>7. CASE j <= F
    <3>1. j \in DOMAIN file /\ r = file[j].row
      BY <2>2, <2>3, <2>7
    <3>2. ASSUME NEW i \in DOMAIN file, i < j PROVE Before(j, file[i].row)
      <4>1. i \in 1..F /\ i \in 1..j - 1
        BY <2>2, <3>1, <3>2
      <4> QED BY <2>3, <4>1 DEF Before
    <3>3. /\ log[<<o, "call">>] = "warned"
               \/ \E i \in DOMAIN file : i < j /\ file[i].row = <<o, "call">>
          /\ heard[r[1]] =>
               log[<<o, "result">>] = "warned"
                 \/ \E i \in DOMAIN file : i < j /\ file[i].row = <<o, "result">>
      BY <3>1 DEF OrderInv, FileIntroduced
    <3> QED BY <2>5, <3>2, <3>3
  <2> QED BY <2>2, <2>3, <2>6, <2>7
<1> QED BY <1>1, OrdersInvariant, PTL
=============================================================================
