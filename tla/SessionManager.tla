--------------------------- MODULE SessionManager ---------------------------
(***************************************************************************)
(* The session table of src/src/serial/manager.rs and the serial calls     *)
(* that run against it concurrently.                                       *)
(*                                                                         *)
(* Every request is a tokio task.  It touches the session table only in    *)
(* short critical sections under one std Mutex, and it awaits (the OS      *)
(* open, the per-port tokio mutex, reads and writes) with that mutex       *)
(* released.  One action is one critical section, or one step between two  *)
(* awaits: exactly the points where another task can run.                  *)
(*                                                                         *)
(* A request runs once: it starts idle and ends done with a reply.  The    *)
(* session id an open call draws is named by that call, because ids are    *)
(* 128 random bits and never drawn twice; the Arc the call wraps its port  *)
(* in is named by the session.  The model is the release build: what a     *)
(* debug_assert! demands is a property (TransitionAsserts), not a guard.   *)
(***************************************************************************)
EXTENDS Naturals, FiniteSets

CONSTANTS
  Opens,         \* serial.open requests, and the session ids they draw
  Closes,        \* serial.close requests
  Ios,           \* serial.write, read, read_until, drain and exec requests
  Ops,           \* the kinds an I/O request may have
  Paths,         \* device paths a client may name
  Allowed,       \* the paths the allowlist accepts
  MaxSessions,   \* config::MAX_SESSIONS
  ClosesOpening, \* may a client close a session serial.sessions still shows Opening?
  None           \* "no value"

ASSUME ConstantsAssumption ==
  /\ Ops \subseteq {"write", "read", "exec"}
  /\ Allowed \subseteq Paths
  /\ MaxSessions \in Nat
  /\ ClosesOpening \in BOOLEAN
  /\ None \notin Ios
  /\ None \notin Paths

VARIABLES
  state,      \* state[s]: Session.state, "Absent" when s is not a key of the map
  portPath,   \* portPath[s]: Session.port_path
  hasPort,    \* hasPort[s]: Session.port is Some
  holder,     \* holder[s]: the I/O request that holds the lock of s's port
  openPc, openRes,
  closePc, closeOf, closeRes,
  ioPc, ioOp, ioSid, ioRes,
  cancelled,  \* cancelled[c]: the client cancelled request c
  sent,       \* history: how much of c's payload reached the device
  got         \* history: c took input bytes from the device

tableVars == <<state, portPath, hasPort>>
openVars  == <<openPc, openRes>>
closeVars == <<closePc, closeOf, closeRes>>
callVars  == <<ioOp, ioSid>>
wireVars  == <<sent, got>>
ioVars    == <<ioPc, callVars, ioRes, cancelled, wireVars>>
vars      == <<tableVars, holder, openVars, closeVars, ioVars>>

-----------------------------------------------------------------------------
(* Replies *)

SideEffectErrors == {"Io", "Timeout", "Cancelled"}
LookupErrors     == {"SessionNotFound", "InvalidState"}
ReadStatuses     == {"matched", "complete", "timed_out", "eof", "cancelled"}
Outcomes         == {"ok", "InvalidParam"} \cup ReadStatuses
                      \cup SideEffectErrors \cup LookupErrors

\* What a reply tells the client: the outcome, and whether bytes were written
\* to and taken from the device.
Reply(out, written, consumed) ==
  [out |-> out, written |-> written, consumed |-> consumed]

Replies == [out : Outcomes, written : BOOLEAN, consumed : BOOLEAN]
NoReply == Reply("InvalidParam", FALSE, FALSE)

\* MUTANT: a cancelled call is taken to have had no effect.
SideEffectUnlessCancelled(err) == err \in SideEffectErrors \ {"Cancelled"}

possible_serial_side_effect(err) == err \in SideEffectErrors

\* The tool_error a failed request of kind op answers with: a write reports a
\* possible write, a read a possible consumption, an exec both.
tool_error(op, err) ==
  Reply(err, op # "read"  /\ possible_serial_side_effect(err),
             op # "write" /\ possible_serial_side_effect(err))

-----------------------------------------------------------------------------
Init ==
  /\ state     = [s \in Opens |-> "Absent"]
  /\ portPath  = [s \in Opens |-> None]
  /\ hasPort   = [s \in Opens |-> FALSE]
  /\ holder    = [s \in Opens |-> None]
  /\ openPc    = [s \in Opens |-> "idle"]
  /\ openRes   = [s \in Opens |-> "none"]
  /\ closePc   = [k \in Closes |-> "idle"]
  /\ closeOf   \in [Closes -> Opens]
  /\ closeRes  = [k \in Closes |-> "none"]
  /\ ioPc      = [c \in Ios |-> "idle"]
  /\ ioOp      \in [Ios -> Ops]
  /\ ioSid     \in [Ios -> Opens]
  /\ ioRes     = [c \in Ios |-> NoReply]
  /\ cancelled = [c \in Ios |-> FALSE]
  /\ sent      = [c \in Ios |-> "none"]
  /\ got       = [c \in Ios |-> FALSE]

Live == {s \in Opens : state[s] # "Absent"}

(***************************************************************************)
(* serial.open                                                             *)
(***************************************************************************)
OpenReturns(s, res) ==
  /\ openPc'  = [openPc  EXCEPT ![s] = "done"]
  /\ openRes' = [openRes EXCEPT ![s] = res]

\* MUTANT: a path counts as taken only once its session is Ready.
PathTakenWhenReady(p) == \E t \in Live : portPath[t] = p /\ state[t] = "Ready"

PathTaken(p) == \E t \in Live : portPath[t] = p

\* MUTANT: > for >=.
OverCapacity == Cardinality(Live) > MaxSessions

AtCapacity == Cardinality(Live) >= MaxSessions

\* MUTANT: the allowlist is not consulted.
RefusalWithoutAllowlist(p) ==
  IF PathTaken(p) THEN "PortBusy"
  ELSE IF AtCapacity THEN "MaxSessionsReached"
  ELSE "none"

\* The three refusals, in the order the code tests them.  A request none of
\* them stops can still fail with Io when the OS has no entropy for its id.
OpenRefusal(p) ==
  IF p \notin Allowed THEN "PortNotAllowed"
  ELSE IF PathTaken(p) THEN "PortBusy"
  ELSE IF AtCapacity THEN "MaxSessionsReached"
  ELSE "none"

OpenRefuse(s) ==
  /\ openPc[s] = "idle"
  /\ \E p \in Paths : LET refusal == OpenRefusal(p) IN
       OpenReturns(s, IF refusal = "none" THEN "Io" ELSE refusal)
  /\ UNCHANGED <<tableVars, holder, closeVars, ioVars>>

\* First critical section: the slot is reserved before the backend is awaited.
OpenReserve(s) ==
  /\ openPc[s] = "idle"
  /\ \E p \in Paths :
       /\ OpenRefusal(p) = "none"
       /\ portPath' = [portPath EXCEPT ![s] = p]
  /\ state'  = [state  EXCEPT ![s] = "Opening"]
  /\ openPc' = [openPc EXCEPT ![s] = "backend"]
  /\ UNCHANGED <<hasPort, holder, openRes, closeVars, ioVars>>

\* How a critical section leaves session s: its state and its port handle.
Becomes(s, st, port) ==
  /\ state'   = [state   EXCEPT ![s] = st]
  /\ hasPort' = [hasPort EXCEPT ![s] = port]

\* MUTANTS: begin_close keeps the port handle; begin_close keeps the state;
\* the rollback is forgotten; the rollback removes the session.
BeginCloseKeepsPort(s)  == Becomes(s, "Closing", hasPort[s])
BeginCloseKeepsState(s) == Becomes(s, state[s], FALSE)
NoRollback(s)           == UNCHANGED <<state, hasPort>>
RollbackRemoves(s)      == Becomes(s, "Absent", FALSE)

transition_to_ready(s) == Becomes(s, "Ready", TRUE)
begin_close(s)         == Becomes(s, "Closing", FALSE)
restore_ready(s)       == Becomes(s, "Ready", TRUE)
remove(s)              == Becomes(s, "Absent", FALSE)

\* Second critical section: the backend opened the device.  If the session
\* was closed meanwhile the fresh port is dropped.
OpenCommit(s) ==
  /\ openPc[s] = "backend"
  /\ \/ /\ state[s] # "Absent"
        /\ transition_to_ready(s)
        /\ OpenReturns(s, "ok")
     \/ /\ state[s] = "Absent"
        /\ OpenReturns(s, "SessionNotFound")
        /\ UNCHANGED <<state, hasPort>>
  /\ UNCHANGED <<portPath, holder, closeVars, ioVars>>

\* Second critical section: the backend failed, the placeholder is removed.
OpenAbort(s) ==
  /\ openPc[s] = "backend"
  /\ \E err \in {"PortBusy", "PortNotFound", "Io"} : OpenReturns(s, err)
  /\ remove(s)
  /\ UNCHANGED <<portPath, holder, closeVars, ioVars>>

OpenNext(s) == OpenRefuse(s) \/ OpenReserve(s) \/ OpenCommit(s) \/ OpenAbort(s)

(***************************************************************************)
(* serial.close                                                            *)
(***************************************************************************)
CloseReturns(k, res) ==
  /\ closePc'  = [closePc  EXCEPT ![k] = "done"]
  /\ closeRes' = [closeRes EXCEPT ![k] = res]

CloseRefuse(k) ==
  LET s == closeOf[k] IN
  /\ closePc[k] = "idle"
  /\ \/ state[s] = "Absent"  /\ CloseReturns(k, "SessionNotFound")
     \/ state[s] = "Closing" /\ CloseReturns(k, "InvalidState")
  /\ UNCHANGED <<tableVars, holder, openVars, closeOf, ioVars>>

\* First critical section.  A Ready session's port handle is kept to wait
\* for its lock; an Opening session has none and there is nothing to wait for.
CloseBegin(k) ==
  LET s == closeOf[k] IN
  /\ closePc[k] = "idle"
  /\ state[s] = "Ready" \/ (state[s] = "Opening" /\ ClosesOpening)
  /\ begin_close(s)
  /\ closePc' = [closePc EXCEPT ![k] = IF hasPort[s] THEN "wait" ELSE "finish"]
  /\ UNCHANGED <<portPath, holder, openVars, closeOf, closeRes, ioVars>>

\* MUTANT: close does not wait for the lock.
CloseWithoutWaiting(k) ==
  /\ closePc[k] = "wait"
  /\ closePc' = [closePc EXCEPT ![k] = "finish"]
  /\ UNCHANGED <<tableVars, holder, openVars, closeOf, closeRes, ioVars>>

\* lock_port granted the lock; the guard is dropped at once, so the lock is
\* free again before anything else runs.
CloseAcquire(k) ==
  /\ closePc[k] = "wait"
  /\ holder[closeOf[k]] = None
  /\ closePc' = [closePc EXCEPT ![k] = "finish"]
  /\ UNCHANGED <<tableVars, holder, openVars, closeOf, closeRes, ioVars>>

\* The 30 s wait ran out while a call still held the port: the session is
\* rolled back to Ready with the same handle.
CloseTimeout(k) ==
  LET s == closeOf[k] IN
  /\ closePc[k] = "wait"
  /\ holder[s] # None
  /\ IF state[s] = "Absent" THEN UNCHANGED <<state, hasPort>> ELSE restore_ready(s)
  /\ CloseReturns(k, "Timeout")
  /\ UNCHANGED <<portPath, holder, openVars, closeOf, ioVars>>

\* Last critical section: finish_close and the removal from the map.
CloseFinish(k) ==
  /\ closePc[k] = "finish"
  /\ remove(closeOf[k])
  /\ CloseReturns(k, "ok")
  /\ UNCHANGED <<portPath, holder, openVars, closeOf, ioVars>>

CloseNext(k) ==
  \/ CloseRefuse(k) \/ CloseBegin(k) \/ CloseAcquire(k)
  \/ CloseTimeout(k) \/ CloseFinish(k)

(***************************************************************************)
(* serial.write, serial.read / read_until / drain, serial.exec             *)
(***************************************************************************)
\* Request c replies; its lock guard, if it holds one, is dropped.
IoReturns(c, reply) ==
  /\ ioPc'   = [ioPc  EXCEPT ![c] = "done"]
  /\ ioRes'  = [ioRes EXCEPT ![c] = reply]
  /\ holder' = [holder EXCEPT ![ioSid[c]] = IF @ = c THEN None ELSE @]

IoFails(c, err) == IoReturns(c, tool_error(ioOp[c], err))

GoTo(c, pc) == ioPc' = [ioPc EXCEPT ![c] = pc] /\ UNCHANGED <<ioRes, holder>>

\* A request's own steps change neither the table nor other requests.
IoFrame == UNCHANGED <<tableVars, openVars, closeVars, callVars, cancelled>>

\* The outcome of a session lookup that wants a port handle.
Lookup(s) ==
  IF state[s] = "Absent" THEN "SessionNotFound"
  ELSE IF ~hasPort[s] THEN "InvalidState"
  ELSE "ok"

\* checkout_port, the compilation of the caller's pattern (which may fail)
\* and exec's first look at the cancellation token.
Checkout(c) ==
  LET found == Lookup(ioSid[c]) IN
  /\ ioPc[c] = "idle"
  /\ \/ found # "ok" /\ IoFails(c, found)
     \/ found = "ok" /\ ioOp[c] # "write" /\ IoFails(c, "InvalidParam")
     \/ /\ found = "ok"
        /\ IF ioOp[c] = "exec" /\ cancelled[c]
           THEN IoReturns(c, Reply("cancelled", FALSE, FALSE))
           ELSE GoTo(c, "lock")
  /\ UNCHANGED wireVars
  /\ IoFrame

\* MUTANT: only the wait for the lock has a deadline.
GivesUpOnlyOnLock(c, pc, err) ==
  /\ ioPc[c] = pc
  /\ err = "Timeout" => pc = "lock"
  /\ err = "Cancelled" => cancelled[c]
  /\ IoFails(c, err)
  /\ UNCHANGED wireVars
  /\ IoFrame

\* Request c, waiting at pc, gives up with err: its deadline passed, its token
\* was cancelled or the device failed.
GivesUp(c, pc, err) ==
  /\ ioPc[c] = pc
  /\ err = "Cancelled" => cancelled[c]
  /\ IoFails(c, err)
  /\ UNCHANGED wireVars
  /\ IoFrame

\* lock_port.  The tokio mutex is FIFO; here any waiter may be next.
LockGranted(c) ==
  LET s == ioSid[c] IN
  /\ ioPc[c] = "lock"
  /\ holder[s] = None
  /\ holder' = [holder EXCEPT ![s] = c]
  /\ ioPc'   = [ioPc   EXCEPT ![c] = "ensure"]
  /\ UNCHANGED <<ioRes, wireVars>>
  /\ IoFrame

LockGivesUp(c) == \E err \in {"Timeout", "Cancelled"} : GivesUp(c, "lock", err)

\* ensure_port_still_ready: the session is looked up again under the port
\* lock.  Only exec has the optional clear and the second cancellation check.
Ensure(c) ==
  LET s == ioSid[c] IN
  /\ ioPc[c] = "ensure"
  /\ \/ state[s] = "Absent" /\ IoFails(c, "SessionNotFound")
     \/ /\ state[s] # "Absent"
        /\ ~(hasPort[s] /\ state[s] = "Ready")
        /\ IoFails(c, "InvalidState")
     \/ /\ hasPort[s] /\ state[s] = "Ready"
        /\ \/ ioOp[c] \in {"read", "write"} /\ GoTo(c, ioOp[c])
           \/ ioOp[c] = "exec" /\ \E pc \in {"clear", "check"} : GoTo(c, pc)
  /\ UNCHANGED wireVars
  /\ IoFrame

\* A read loop takes bytes from the device.
Takes(c, pc) ==
  /\ ioPc[c] = pc
  /\ ~got[c]
  /\ got' = [got EXCEPT ![c] = TRUE]
  /\ UNCHANGED <<ioPc, ioRes, holder, sent>>
  /\ IoFrame

\* exec's clear_before_write: read_idle_locked, whose end status (a timeout,
\* as a rule) is only reported; an I/O error ends the exec.
ClearEnds(c) ==
  /\ ioPc[c] = "clear"
  /\ GoTo(c, "check")
  /\ UNCHANGED wireVars
  /\ IoFrame

Clear(c) == Takes(c, "clear") \/ ClearEnds(c) \/ GivesUp(c, "clear", "Io")

CheckCancelled(c) ==
  /\ ioPc[c] = "check"
  /\ IF cancelled[c] THEN IoReturns(c, Reply("cancelled", FALSE, got[c]))
                     ELSE GoTo(c, "write")
  /\ UNCHANGED wireVars
  /\ IoFrame

\* write_all_deadline: a timeout, a cancellation or an I/O error may come
\* after part of the payload has gone out.
WriteSome(c) ==
  /\ ioPc[c] = "write"
  /\ sent[c] = "none"
  /\ sent' = [sent EXCEPT ![c] = "some"]
  /\ UNCHANGED <<ioPc, ioRes, holder, got>>
  /\ IoFrame

WriteDone(c) ==
  /\ ioPc[c] = "write"
  /\ sent' = [sent EXCEPT ![c] = "all"]
  /\ GoTo(c, "flush")
  /\ UNCHANGED got
  /\ IoFrame

\* MUTANT: exec lets the port go between its write and its read.
FlushDropsGuard(c) ==
  /\ ioPc[c] = "flush"
  /\ \/ ioOp[c] = "write" /\ IoReturns(c, Reply("ok", TRUE, FALSE))
     \/ /\ ioOp[c] = "exec"
        /\ ioPc'   = [ioPc EXCEPT ![c] = "read"]
        /\ holder' = [holder EXCEPT ![ioSid[c]] = None]
        /\ UNCHANGED ioRes
  /\ UNCHANGED wireVars
  /\ IoFrame

\* flush_deadline, after which a write is complete and an exec starts reading.
FlushDone(c) ==
  /\ ioPc[c] = "flush"
  /\ \/ ioOp[c] = "write" /\ IoReturns(c, Reply("ok", TRUE, FALSE))
     \/ ioOp[c] = "exec"  /\ GoTo(c, "read")
  /\ UNCHANGED wireVars
  /\ IoFrame

Write(c) ==
  \/ WriteSome(c) \/ WriteDone(c) \/ FlushDone(c)
  \/ \E pc \in {"write", "flush"}, err \in SideEffectErrors : GivesUp(c, pc, err)

\* The read loops.  read and drain end complete, exec and read_until matched;
\* every other end but an I/O error is a normal reply that carries the bytes.
ReadEnds(c, status) ==
  /\ ioPc[c] = "read"
  /\ status = "cancelled" => cancelled[c]
  /\ status = "complete"  => ioOp[c] = "read"
  /\ IoReturns(c, Reply(status, ioOp[c] = "exec", got[c]))
  /\ UNCHANGED wireVars
  /\ IoFrame

Read(c) ==
  \/ Takes(c, "read")
  \/ \E status \in ReadStatuses : ReadEnds(c, status)
  \/ GivesUp(c, "read", "Io")

\* The client cancels a request that has not been answered.
Cancel(c) ==
  /\ ioPc[c] # "done"
  /\ ~cancelled[c]
  /\ cancelled' = [cancelled EXCEPT ![c] = TRUE]
  /\ UNCHANGED <<tableVars, holder, openVars, closeVars, ioPc, callVars, ioRes, wireVars>>

IoNext(c) ==
  \/ Checkout(c) \/ LockGranted(c) \/ LockGivesUp(c) \/ Ensure(c)
  \/ Clear(c) \/ CheckCancelled(c) \/ Write(c) \/ Read(c)

-----------------------------------------------------------------------------
\* Every request has been answered: the server is quiescent.
AllDone ==
  /\ \A s \in Opens  : openPc[s] = "done"
  /\ \A k \in Closes : closePc[k] = "done"
  /\ \A c \in Ios    : ioPc[c] = "done"

Next ==
  \/ \E s \in Opens  : OpenNext(s)
  \/ \E k \in Closes : CloseNext(k)
  \/ \E c \in Ios    : IoNext(c) \/ Cancel(c)
  \/ AllDone /\ UNCHANGED vars

Spec == Init /\ [][Next]_vars

\* The timer of the wait that request c is in.
Expires(c) ==
  \/ \E pc \in {"lock", "write", "flush"} : GivesUp(c, pc, "Timeout")
  \/ ClearEnds(c)
  \/ ReadEnds(c, "timed_out")

\* A started request is a task that tokio polls, every wait of it inside the
\* server has a timer, and the OS open returns.  Nothing else is assumed: no
\* client starts or cancels anything, no device sends or accepts a byte and no
\* waiter is ever granted a lock.
Fairness ==
  /\ \A s \in Opens  : WF_vars(OpenCommit(s) \/ OpenAbort(s))
  /\ \A k \in Closes : WF_vars(CloseAcquire(k) \/ CloseTimeout(k) \/ CloseFinish(k))
  /\ \A c \in Ios    : WF_vars(Ensure(c) \/ CheckCancelled(c) \/ Expires(c))

FairSpec == Spec /\ Fairness

-----------------------------------------------------------------------------
(* Properties *)

IoPcs    == {"idle", "lock", "ensure", "clear", "check", "write", "flush", "read", "done"}
OnWire   == {"clear", "check", "write", "flush", "read"}
OpenErrs == {"PortNotAllowed", "PortBusy", "MaxSessionsReached", "PortNotFound",
             "SessionNotFound", "Io"}

\* Every variable holds a value of its type.
TypeOK ==
  /\ state     \in [Opens -> {"Absent", "Opening", "Ready", "Closing"}]
  /\ portPath  \in [Opens -> Allowed \cup {None}]
  /\ hasPort   \in [Opens -> BOOLEAN]
  /\ holder    \in [Opens -> Ios \cup {None}]
  /\ openPc    \in [Opens -> {"idle", "backend", "done"}]
  /\ openRes   \in [Opens -> {"none", "ok"} \cup OpenErrs]
  /\ closePc   \in [Closes -> {"idle", "wait", "finish", "done"}]
  /\ closeOf   \in [Closes -> Opens]
  /\ closeRes  \in [Closes -> {"none", "ok", "Timeout"} \cup LookupErrors]
  /\ ioPc      \in [Ios -> IoPcs]
  /\ ioOp      \in [Ios -> Ops]
  /\ ioSid     \in [Ios -> Opens]
  /\ ioRes     \in [Ios -> Replies]
  /\ cancelled \in [Ios -> BOOLEAN]
  /\ sent      \in [Ios -> {"none", "some", "all"}]
  /\ got       \in [Ios -> BOOLEAN]

\* Request c has passed ensure_port_still_ready and may touch the device.
InIo(c) == ioPc[c] \in OnWire

ClosedOk(s) == \E k \in Closes : closeOf[k] = s /\ closeRes[k] = "ok"

\* "Some(port) iff state == Ready" (session.rs), at every point where another
\* task can look at the session.
PortIffReady == \A s \in Opens : hasPort[s] <=> state[s] = "Ready"

\* A path stays reserved while its session is Opening, Ready or Closing: no
\* two sessions of the map ever share one, however opens and closes interleave.
PathReserved ==
  \A s, t \in Live : portPath[s] = portPath[t] => s = t

\* The cap holds although a slot is reserved before the OS open is awaited.
CapRespected == Cardinality(Live) <= MaxSessions

\* No session is stuck: one that is Opening or Closing is owned by a request
\* still in flight, which will move it on.
NoOrphans ==
  \A s \in Opens :
    /\ state[s] = "Opening" => openPc[s] = "backend"
    /\ state[s] = "Closing" =>
         \E k \in Closes : closeOf[k] = s /\ closePc[k] \in {"wait", "finish"}

\* A session that open returned disappears only by a close that answered ok,
\* and after that answer it is gone: a close that timed out removes nothing.
GoneIffClosed ==
  \A s \in Opens :
    /\ openRes[s] = "ok" /\ state[s] = "Absent" => ClosedOk(s)
    /\ ClosedOk(s) => state[s] = "Absent"

\* Whatever state a critical section left behind is still there when the
\* request's next one runs, as the debug_assert!s of transition_to_ready,
\* finish_close and restore_ready demand.
TransitionAsserts ==
  /\ \A s \in Opens  : openPc[s] = "backend" => state[s] \in {"Opening", "Absent"}
  /\ \A k \in Closes : closePc[k] \in {"wait", "finish"} =>
                          state[closeOf[k]] \in {"Closing", "Absent"}

\* One exchange at a time per device: from the optional clear to the last
\* byte read, no other request, of this session or of a later one on the same
\* path, touches the device.  An exec's response is not taken by another call.
ExchangeExclusive ==
  \A c, d \in Ios :
    InIo(c) /\ InIo(d) /\ portPath[ioSid[c]] = portPath[ioSid[d]] => c = d

\* Once a close has answered ok no request that had checked the port out can
\* perform I/O on it.
NoIoAfterClose ==
  \A k \in Closes, c \in Ios :
    closeRes[k] = "ok" /\ ioSid[c] = closeOf[k] => ~InIo(c)

\* What a reply says happened on the wire did: bytes that reached the device
\* are reported written, bytes taken from it are reported consumed, and a
\* write or exec that answers without an error has sent its whole payload
\* unless it says command_written = false.
HonestReply ==
  \A c \in Ios : ioPc[c] = "done" =>
    /\ sent[c] # "none" => ioRes[c].written
    /\ got[c] => ioRes[c].consumed
    /\ ioRes[c].written /\ ~possible_serial_side_effect(ioRes[c].out)
         => sent[c] = "all"

\* Every request that has started is answered.
EveryRequestAnswered ==
  /\ \A s \in Opens  : openPc[s]  # "idle" ~> openPc[s]  = "done"
  /\ \A k \in Closes : closePc[k] # "idle" ~> closePc[k] = "done"
  /\ \A c \in Ios    : ioPc[c]    # "idle" ~> ioPc[c]    = "done"

-----------------------------------------------------------------------------
(* Claims of the repository that the code does not keep *)

\* tests/mcp_tests.rs, close_racing_with_in_flight_read_has_deterministic_
\* outcome: a read that checked its port out and lost the race against close
\* can fail only with SessionNotFound.
RacingReadRefusal ==
  [][\A c \in Ios : ioPc[c] = "ensure" /\ ioPc'[c] = "done"
                       => ioRes'[c].out = "SessionNotFound"]_vars

\* SECURITY.md, section 5: on the EOF path the port is closed and the session
\* removed.
EofCleanedUp ==
  \A c \in Ios : (ioPc[c] = "done" /\ ioRes[c].out = "eof")
                    ~> state[ioSid[c]] # "Ready"
=============================================================================
