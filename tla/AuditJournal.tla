---------------------------- MODULE AuditJournal ----------------------------
(***************************************************************************)
(* The audit journal: call_tool of src/src/mcp/mod.rs logs one row before  *)
(* it dispatches a call and one after, and JournalWriter::log of           *)
(* src/src/serial/journal.rs puts a row into the file under a lock, with a *)
(* deadline on the lock and another on the write.  Calls run concurrently; *)
(* one action is one step between two awaits.  Of what a row says, the     *)
(* session it belongs to is kept (src/src/mcp/journal.rs).                 *)
(*                                                                         *)
(* The file is reached through tokio's BufWriter and File, which are       *)
(* external and modelled by what log can see of them: write_all fills a    *)
(* buffer; flush hands the buffer to a background thread and waits for it; *)
(* a deadline ends the waiting, not the write; an error of the thread is   *)
(* told to whoever polls next; what was handed over is gone from the       *)
(* buffer, what was not stays for the next flush.                          *)
(***************************************************************************)
EXTENDS Naturals, Sequences

CONSTANTS
  Calls,      \* tools/call requests
  Capacity,   \* rows the BufWriter holds
  MaxErrors,  \* bound: the disk fails this often
  None        \* "no value"

ASSUME ConstantsAssumption ==
  /\ Capacity \in Nat \ {0}
  /\ MaxErrors \in Nat
  /\ None \notin Calls /\ None \notin Calls \X {"call", "result"}

\* A row is named by its call and its direction.  A session is named by the
\* serial.open that makes it.
Rows == Calls \X {"call", "result"}

VARIABLES
  journal,   \* did JournalWriter::open succeed? (degraded mode otherwise)
  stage,     \* stage[c]: how far call_tool is with call c
  names,     \* names[c]: the session the arguments of c name, or None
  opened,    \* opened[c]: c is a serial.open that succeeded
  heard,     \* history: c names a session whose open had answered its client
  log,       \* log[r]: how far the log of row r is
  holder,    \* the row whose log holds the journal's lock
  buffer,    \* external: the rows in the BufWriter
  inflight,  \* external: the rows the background thread is writing
  disk,      \* external: the thread is idle, busy, or its result was not polled yet
  file,      \* external: what the file holds, whole rows and beginnings of rows
  errors     \* how often the disk has failed

args == <<names, opened, heard>>
sink == <<buffer, inflight, disk, file, errors>>
vars == <<journal, stage, args, log, holder, sink>>

Init ==
  /\ journal  \in BOOLEAN
  /\ stage    = [c \in Calls |-> "idle"]
  /\ names    = [c \in Calls |-> None]
  /\ opened   = [c \in Calls |-> FALSE]
  /\ heard    = [c \in Calls |-> FALSE]
  /\ log      = [r \in Rows |-> "none"]
  /\ holder   = None
  /\ buffer   = <<>>
  /\ inflight = <<>>
  /\ disk     = "idle"
  /\ file     = <<>>
  /\ errors   = 0

-----------------------------------------------------------------------------
(* call_tool *)

Moves(c, to) == stage' = [stage EXCEPT ![c] = to]

\* A row above MAX_JOURNAL_ROW_BYTES is dropped with a warning; without a
\* journal nothing is logged.
StartLog(r) ==
  log' = [log EXCEPT ![r] = IF journal THEN "lock" ELSE "off"]
DropRow(r) ==
  journal /\ log' = [log EXCEPT ![r] = "warned"]

\* log has returned, whatever it did.
Logged(r) == log[r] \in {"ok", "warned", "off"}

\* The sessions a client can name: an open shows in serial.sessions from the
\* moment it runs, long before it is answered, and may fail later.
Known == {o \in Calls : names[o] = None /\ stage[o] \in {"running", "ran", "done"}}

Arrive(c) ==
  /\ stage[c] = "idle"
  /\ Moves(c, "called")
  /\ \E s \in Known \cup {None} :
       /\ names' = [names EXCEPT ![c] = s]
       /\ heard' = [heard EXCEPT ![c] = s # None /\ stage[s] = "done" /\ opened[s]]
  /\ StartLog(<<c, "call">>) \/ DropRow(<<c, "call">>)
  /\ UNCHANGED <<journal, opened, holder, sink>>

\* MUTANT: the call row is not awaited.
DispatchAtOnce(c) ==
  /\ stage[c] = "called"
  /\ Moves(c, "running")
  /\ UNCHANGED <<journal, args, log, holder, sink>>

Dispatch(c) ==
  /\ stage[c] = "called"
  /\ Logged(<<c, "call">>)
  /\ Moves(c, "running")
  /\ UNCHANGED <<journal, args, log, holder, sink>>

\* The tool's handler returns, with a result or an error.
Returns(c) ==
  /\ stage[c] = "running"
  /\ Moves(c, "ran")
  /\ \E ok \in BOOLEAN : opened' = [opened EXCEPT ![c] = ok /\ names[c] = None]
  /\ StartLog(<<c, "result">>) \/ DropRow(<<c, "result">>)
  /\ UNCHANGED <<journal, names, heard, holder, sink>>

Reply(c) ==
  /\ stage[c] = "ran"
  /\ Logged(<<c, "result">>)
  /\ Moves(c, "done")
  /\ UNCHANGED <<journal, args, log, holder, sink>>

\* The session a row is filed under, None for the sentinel NO_SESSION.
call_session_id(c) == names[c]
\* MUTANT: the row of an open's result has no session either.
SessionOfArguments(c) == call_session_id(c)
result_session_id(c) == IF opened[c] THEN c ELSE call_session_id(c)
session_id(r) == IF r[2] = "call" THEN call_session_id(r[1]) ELSE result_session_id(r[1])

-----------------------------------------------------------------------------
(* JournalWriter::log *)

Ends(r, res) ==
  /\ log' = [log EXCEPT ![r] = res]
  /\ holder' = None

Acquire(r) ==
  /\ log[r] = "lock"
  /\ holder = None
  /\ holder' = r
  /\ log' = [log EXCEPT ![r] = "write"]
  /\ UNCHANGED <<journal, stage, args, sink>>

\* timeout polls the lock before its clock: it gives up on a held lock only.
LockTimesOut(r) ==
  /\ log[r] = "lock"
  /\ holder # None
  /\ log' = [log EXCEPT ![r] = "warned"]
  /\ UNCHANGED <<journal, stage, args, holder, sink>>

\* MUTANT: log does not flush.
WriteWithoutFlush(r) ==
  /\ log[r] = "write"
  /\ Len(buffer) < Capacity
  /\ buffer' = Append(buffer, r)
  /\ Ends(r, "ok")
  /\ UNCHANGED <<journal, stage, args, inflight, disk, file, errors>>

\* write_all, when the row fits into the buffer.
Write(r) ==
  /\ log[r] = "write"
  /\ Len(buffer) < Capacity
  /\ buffer' = Append(buffer, r)
  /\ log' = [log EXCEPT ![r] = "flush"]
  /\ UNCHANGED <<journal, stage, args, holder, inflight, disk, file, errors>>

\* Does the log of r poll the file: in its flush, or to make room for the row?
Polls(r) == log[r] = "flush" \/ (log[r] = "write" /\ Len(buffer) = Capacity)

HandOver(r) ==
  /\ Polls(r)
  /\ disk \in {"idle", "ok"} /\ buffer # <<>>
  /\ inflight' = buffer
  /\ buffer' = <<>>
  /\ disk' = "busy"
  /\ UNCHANGED <<journal, stage, args, log, holder, file, errors>>

Flushed(r) ==
  /\ log[r] = "flush"
  /\ disk \in {"idle", "ok"} /\ buffer = <<>>
  /\ disk' = "idle"
  /\ Ends(r, "ok")
  /\ UNCHANGED <<journal, stage, args, buffer, inflight, file, errors>>

\* An error of this write, or of an earlier one that nobody waited for.
IoFails(r) ==
  /\ Polls(r)
  /\ disk = "failed"
  /\ disk' = "idle"
  /\ Ends(r, "warned")
  /\ UNCHANGED <<journal, stage, args, buffer, inflight, file, errors>>

\* MUTANT: the write and the flush have no deadline.
IoNeverTimesOut(r) == FALSE /\ UNCHANGED vars

\* MUTANT: the guard outlives the deadline.
IoTimesOutKeepingLock(r) ==
  /\ Polls(r)
  /\ disk = "busy"
  /\ log' = [log EXCEPT ![r] = "warned"]
  /\ UNCHANGED <<journal, stage, args, holder, sink>>

IoTimesOut(r) ==
  /\ Polls(r)
  /\ disk = "busy"
  /\ Ends(r, "warned")
  /\ UNCHANGED <<journal, stage, args, sink>>

-----------------------------------------------------------------------------
(* The background thread *)

Piece(r, whole) == [row |-> r, whole |-> whole]
Pieces(rows) == [i \in DOMAIN rows |-> Piece(rows[i], TRUE)]

DiskWrites ==
  /\ disk = "busy"
  /\ disk' = "ok"
  /\ file' = file \o Pieces(inflight)
  /\ inflight' = <<>>
  /\ UNCHANGED <<journal, stage, args, log, holder, buffer, errors>>

\* The disk takes some rows and perhaps the beginning of the next; the rest of
\* what it was given is gone.
DiskFails ==
  /\ disk = "busy" /\ errors < MaxErrors
  /\ disk' = "failed"
  /\ \E n \in 0..Len(inflight) - 1, torn \in BOOLEAN :
       file' = file \o Pieces(SubSeq(inflight, 1, n))
                    \o (IF torn THEN <<Piece(inflight[n + 1], FALSE)>> ELSE <<>>)
  /\ inflight' = <<>>
  /\ errors' = errors + 1
  /\ UNCHANGED <<journal, stage, args, log, holder, buffer>>

-----------------------------------------------------------------------------
LogStep(r) ==
  \/ Acquire(r) \/ LockTimesOut(r) \/ Write(r) \/ HandOver(r)
  \/ Flushed(r) \/ IoFails(r) \/ IoTimesOut(r)

\* All calls are answered and the disk is at rest.
AllDone ==
  /\ \A c \in Calls : stage[c] = "done"
  /\ UNCHANGED vars

Next ==
  \/ \E c \in Calls : Arrive(c) \/ Dispatch(c) \/ Returns(c) \/ Reply(c)
  \/ \E r \in Rows : LogStep(r)
  \/ DiskWrites \/ DiskFails
  \/ AllDone

Spec == Init /\ [][Next]_vars

\* Tasks are scheduled, clocks run, and handlers return; the disk may stall for
\* ever and nobody need ever be granted the lock.
FairSpec ==
  /\ Spec
  /\ \A c \in Calls : WF_vars(Dispatch(c)) /\ WF_vars(Returns(c)) /\ WF_vars(Reply(c))
  /\ \A r \in Rows :
       /\ WF_vars(Acquire(r) \/ LockTimesOut(r))
       /\ WF_vars(Write(r) \/ HandOver(r) \/ Flushed(r) \/ IoFails(r) \/ IoTimesOut(r))

-----------------------------------------------------------------------------
(* Properties *)

\* Every variable holds a value of its type; the lock is held by the log that is
\* writing, and the buffer keeps to its capacity.
TypeOK ==
  /\ journal \in BOOLEAN
  /\ stage  \in [Calls -> {"idle", "called", "running", "ran", "done"}]
  /\ names  \in [Calls -> Calls \cup {None}]
  /\ opened \in [Calls -> BOOLEAN] /\ heard \in [Calls -> BOOLEAN]
  /\ log    \in [Rows -> {"none", "off", "lock", "write", "flush", "ok", "warned"}]
  /\ holder \in Rows \cup {None}
  /\ \A r \in Rows : holder = r <=> log[r] \in {"write", "flush"}
  /\ buffer \in Seq(Rows) /\ Len(buffer) <= Capacity
  /\ inflight \in Seq(Rows) /\ (disk = "busy" <=> inflight # <<>>)
  /\ disk   \in {"idle", "busy", "ok", "failed"}
  /\ file   \in Seq([row : Rows, whole : BOOLEAN])
  /\ errors \in 0..MaxErrors

InFile(r) == \E i \in DOMAIN file : file[i] = Piece(r, TRUE)

\* A tool runs only once its call row is in the file, and is answered only once
\* its result row is, unless a warning told that the row may be missing.
Audited ==
  journal => \A c \in Calls :
    /\ stage[c] \in {"running", "ran", "done"} =>
         InFile(<<c, "call">>) \/ log[<<c, "call">>] = "warned"
    /\ stage[c] = "done" =>
         InFile(<<c, "result">>) \/ log[<<c, "result">>] = "warned"

\* Every row that is in the file or on its way there, in order.
Pipeline == [i \in DOMAIN file |-> file[i].row] \o inflight \o buffer

\* However rows are delayed by deadlines and errors, none comes twice, and a
\* result row never comes before its call row.
RowsOrdered ==
  \A i, j \in DOMAIN Pipeline : i < j =>
    /\ Pipeline[i] # Pipeline[j]
    /\ ~(Pipeline[i][2] = "result" /\ Pipeline[j] = <<Pipeline[i][1], "call">>)

Before(j, r) == \E i \in 1..j - 1 : Pipeline[i] = r

\* What was done in a session can be followed back to its open: the rows filed
\* under it come after the call row of the open, and those of a client that had
\* the open's answer come after its result row, which is filed under the session
\* too; a missing row was warned of (call_tool, result_session_id).
SessionsIntroduced ==
  \A j \in DOMAIN Pipeline :
    LET c == Pipeline[j][1]
        o == session_id(Pipeline[j])
    IN o \notin {None, c} =>
         /\ Before(j, <<o, "call">>) \/ log[<<o, "call">>] = "warned"
         /\ heard[c] => /\ session_id(<<o, "result">>) = o
                        /\ Before(j, <<o, "result">>) \/ log[<<o, "result">>] = "warned"

\* The journal never holds up a call for good, whatever the disk does.
NeverBlocks == \A c \in Calls : stage[c] = "called" ~> stage[c] = "done"

-----------------------------------------------------------------------------
(* A claim of the repository that the code does not keep *)

\* journal.rs: one line per entry, and lines never interleave: what follows a
\* torn row begins a line of its own.
OneRowPerLine == \A i \in 1..Len(file) - 1 : file[i].whole
=============================================================================
