------------------------------ MODULE Deadlines ------------------------------
(***************************************************************************)
(* The clocks of the serial calls of one session (src/src/serial/          *)
(* manager.rs): the wait for the port's lock, the writes, the read loops   *)
(* with their byte cap, idle window and total deadline, and the close that *)
(* waits behind them.                                                      *)
(*                                                                         *)
(* An Instant is modelled by its distance from now: age counts up from the *)
(* start of a request, whole, budget and left count down to its deadlines. *)
(* Time passes in Tick and nowhere else; a task whose wait is over is      *)
(* polled at most Lag ticks later.  One action is what a task does between *)
(* two awaits.  The port's lock is tokio's: it is handed to the waiters in *)
(* the order in which they asked.                                          *)
(*                                                                         *)
(* One session, each request once.  SessionManager has what is left out    *)
(* here: other sessions, reopening, the replies' side-effect flags.        *)
(***************************************************************************)
EXTENDS Integers, FiniteSets

CONSTANTS
  Calls,      \* requests that perform I/O
  Closer,     \* the serial.close request
  Ops,        \* the kinds a call may have
  Timeouts,   \* the timeout_ms a caller or serial.open may ask for
  MaxTimeout, \* config::MAX_TIMEOUT_MS
  DrainIdle,  \* DRAIN_IDLE_MS
  DrainTotal, \* DRAIN_TOTAL_MS
  MaxBytes,   \* max_bytes of a read, drain or clear
  MaxChunk,   \* the 4096 bytes of a read loop's chunk
  Lag,        \* how late the runtime may poll a task that can go on
  MaxInput    \* how many bytes the device sends (bound)

ASSUME ConstantsAssumption ==
  /\ Closer \notin Calls
  /\ Ops \subseteq {"write", "read", "read_until", "drain", "exec"}
  /\ Timeouts \subseteq Nat
  /\ MaxTimeout \in Nat /\ DrainIdle \in Nat /\ DrainTotal \in Nat /\ Lag \in Nat
  /\ 2 * DrainTotal + Lag <= MaxTimeout
  /\ MaxBytes \in Nat /\ MaxChunk \in Nat \ {0} /\ MaxInput \in Nat

Tasks == Calls \cup {Closer}

VARIABLES
  state,     \* Session.state
  pc,        \* pc[t]: the await task t is in
  op,        \* op[c]: the kind of call c
  ahead,     \* ahead[t]: the tasks before t in the queue of the port's lock
  age,       \* age[t]: time since t started
  whole,     \* whole[t]: time left to t's deadline
  budget,    \* budget[t]: time left to the deadline of its read loop
  left,      \* left[t]: time left on the timer of the await t is in
  late,      \* late[t]: how long t could have gone on and was not polled
  acc,       \* acc[c]: bytes accumulated by c's read loop
  reply,     \* reply[t]: its outcome
  cancelled, \* cancelled[c]: the client cancelled call c
  line,      \* bytes the device has sent and nobody has read
  toCome,    \* bytes the device may still send
  quiet      \* history: time since the device last sent, up to DrainIdle

clocks == <<age, whole, budget, left, late>>
input  == <<line, toCome, quiet>>
vars   == <<state, pc, op, ahead, clocks, acc, reply, cancelled, input>>

Least(a, b) == IF a <= b THEN a ELSE b

\* MUTANT: the caller's timeout is not clamped.
TimeoutAsAsked(requested) == requested

\* operation_timeout_ms, and the clamp of serial.open behind the default.
operation_timeout_ms(requested) == Least(requested, MaxTimeout)

Waiting(t) == pc[t] \notin {"idle", "done"}
Owner(t)   == Waiting(t) /\ ahead[t] = {}

IdleLoops   == {"clear", "drain"}
CappedLoops == IdleLoops \cup {"read"}
Loops       == CappedLoops \cup {"until"}

Init ==
  /\ state     = "Ready"
  /\ pc        = [t \in Tasks |-> "idle"]
  /\ op        \in [Calls -> Ops]
  /\ ahead     = [t \in Tasks |-> {}]
  /\ age       = [t \in Tasks |-> 0]
  /\ whole     = [t \in Tasks |-> 0]
  /\ budget    = [t \in Tasks |-> 0]
  /\ left      = [t \in Tasks |-> 0]
  /\ late      = [t \in Tasks |-> 0]
  /\ acc       = [c \in Calls |-> 0]
  /\ reply     = [t \in Tasks |-> "none"]
  /\ cancelled = [c \in Calls |-> FALSE]
  /\ line      \in {0, MaxBytes}
  /\ toCome    = MaxInput
  /\ quiet     = 0

-----------------------------------------------------------------------------
(* What a task does when it is polled *)

\* Task t awaits at place p, with a timer d from now.
Awaits(t, p, d) ==
  /\ pc'   = [pc   EXCEPT ![t] = p]
  /\ left' = [left EXCEPT ![t] = d]
  /\ late' = [late EXCEPT ![t] = 0]

\* Task t answers and drops its place in the queue, with the lock if it has it.
Answers(t, out) ==
  /\ pc'    = [pc    EXCEPT ![t] = "done"]
  /\ reply' = [reply EXCEPT ![t] = out]
  /\ ahead' = [u \in Tasks |-> IF u = t THEN {} ELSE ahead[u] \ {t}]
  /\ age'    = [age    EXCEPT ![t] = 0]
  /\ whole'  = [whole  EXCEPT ![t] = 0]
  /\ budget' = [budget EXCEPT ![t] = 0]
  /\ left'   = [left   EXCEPT ![t] = 0]
  /\ late'   = [late   EXCEPT ![t] = 0]

\* write_all_deadline and flush_deadline: an await with the call's deadline,
\* unless that has passed.
AwaitsDevice(c, p) ==
  IF whole[c] < 0 THEN Answers(c, "Timeout")
  ELSE /\ Awaits(c, p, whole[c])
       /\ budget' = [budget EXCEPT ![c] = 0]
       /\ UNCHANGED <<age, whole, ahead, reply>>

\* exec's second look at the token, and its write.
ExecGoesOn(c) == IF cancelled[c] THEN Answers(c, "cancelled") ELSE AwaitsDevice(c, "write")

\* The read loop at p ends.  A clear is followed by exec's write, whatever its
\* status; the others answer.
LoopEnds(c, p, status) == IF p = "clear" THEN ExecGoesOn(c) ELSE Answers(c, status)

\* MUTANTS: every wait of an idle loop has the whole idle window; the loop
\* does not look at its deadline.
IdleOnly(p, b) == IF p \in IdleLoops THEN DrainIdle ELSE b
Never(b)       == FALSE

\* The timer of the next read, in a loop whose deadline is b away.
read_window(p, b) == IF p \in IdleLoops THEN Least(DrainIdle, b) ELSE b

Overdue(b) == b < 0

\* The top of read_locked, read_idle_locked and read_until_locked, at p with n
\* bytes and with the loop's deadline b away.
LoopTop(c, p, n, b) ==
  /\ acc' = [acc EXCEPT ![c] = n]
  /\ IF p \in CappedLoops /\ n >= MaxBytes THEN LoopEnds(c, p, "complete")
     ELSE IF Overdue(b) THEN LoopEnds(c, p, "timed_out")
     ELSE /\ Awaits(c, p, read_window(p, b))
          /\ budget' = [budget EXCEPT ![c] = b]
          /\ UNCHANGED <<age, whole, ahead, reply>>

-----------------------------------------------------------------------------
(* The wait for the lock *)

\* A request that finds the session Ready takes its place in the queue; the
\* close marks the session Closing first.  A deadline counts from here.
Start(t, d) ==
  /\ pc[t] = "idle"
  /\ state = "Ready"
  /\ state' = IF t = Closer THEN "Closing" ELSE state
  /\ ahead' = [ahead EXCEPT ![t] = {u \in Tasks : Waiting(u)}]
  /\ whole' = [whole EXCEPT ![t] = d]
  /\ Awaits(t, "lock", d)
  /\ UNCHANGED <<op, age, budget, acc, reply, cancelled, input>>

StartCall(c) ==
  IF op[c] = "drain" THEN Start(c, DrainTotal)
  ELSE \E requested \in Timeouts : Start(c, operation_timeout_ms(requested))

StartClose == Start(Closer, MaxTimeout)

\* A request that finds the session Closing or gone.
Refused(t) ==
  /\ pc[t] = "idle"
  /\ state # "Ready"
  /\ Answers(t, "refused")
  /\ UNCHANGED <<state, op, acc, cancelled, input>>

\* The lock, ensure_port_still_ready, and on to the first await under the lock.
\* A drain counts its deadline anew; an exec may clear the input first.
Locked(c) ==
  /\ pc[c] = "lock" /\ Owner(c)
  /\ IF state # "Ready" THEN Answers(c, "refused") /\ UNCHANGED acc
     ELSE \/ op[c] = "drain"      /\ LoopTop(c, "drain", 0, DrainTotal)
          \/ op[c] = "read"       /\ LoopTop(c, "read", 0, whole[c])
          \/ op[c] = "read_until" /\ LoopTop(c, "until", 0, whole[c])
          \/ op[c] = "write"      /\ AwaitsDevice(c, "write") /\ UNCHANGED acc
          \/ op[c] = "exec"       /\ LoopTop(c, "clear", 0, Least(DrainTotal, whole[c]))
          \/ op[c] = "exec"       /\ ExecGoesOn(c) /\ UNCHANGED acc
  /\ UNCHANGED <<state, op, cancelled, input>>

\* The close has the lock: the session goes, and the lock with it.
CloseLocked ==
  /\ pc[Closer] = "lock" /\ Owner(Closer)
  /\ Answers(Closer, "ok")
  /\ state' = "Absent"
  /\ UNCHANGED <<op, acc, cancelled, input>>

\* The timer of lock_port fires while somebody else has the lock, or the token
\* is cancelled.  A close that gives up leaves the session Ready again.
LockGivesUp(t) ==
  /\ pc[t] = "lock"
  /\ \/ ~Owner(t) /\ left[t] <= 0 /\ Answers(t, "Timeout")
     \/ t \in Calls /\ cancelled[t] /\ Answers(t, "Cancelled")
  /\ state' = IF t = Closer THEN "Ready" ELSE state
  /\ UNCHANGED <<op, acc, cancelled, input>>

-----------------------------------------------------------------------------
(* Under the lock *)

\* The device took the payload, or the flush.
Accepted(c) ==
  /\ \/ pc[c] = "write" /\ AwaitsDevice(c, "flush") /\ UNCHANGED acc
     \/ pc[c] = "flush" /\ op[c] = "write" /\ Answers(c, "ok") /\ UNCHANGED acc
     \/ pc[c] = "flush" /\ op[c] = "exec"  /\ LoopTop(c, "until", 0, whole[c])
  /\ UNCHANGED <<state, op, cancelled, input>>

\* A write or flush ends otherwise: timer, token or device.
DeviceGivesUp(c) ==
  /\ pc[c] \in {"write", "flush"}
  /\ \/ left[c] <= 0 /\ Answers(c, "Timeout")
     \/ cancelled[c] /\ Answers(c, "Cancelled")
     \/ Answers(c, "Io")
  /\ UNCHANGED <<state, op, acc, cancelled, input>>

\* MUTANTS: a read asks for a whole chunk; a timer is polled before the read.
WholeChunk(c) == MaxChunk
TimerFirst(c) ==
  /\ pc[c] \in Loops
  /\ left[c] <= 0
  /\ LoopEnds(c, pc[c], "timed_out")
  /\ UNCHANGED <<state, op, acc, cancelled, input>>

\* How many bytes the next read may take.
take(c) == IF pc[c] \in CappedLoops THEN Least(MaxBytes - acc[c], MaxChunk) ELSE MaxChunk

\* The read returns bytes, also when its timer has run out by then.  A pattern
\* may match in what read_until and exec have read.
TakesBytes(c) ==
  /\ pc[c] \in Loops
  /\ \E n \in 1..Least(take(c), line) :
       /\ line' = line - n
       /\ \/ LoopTop(c, pc[c], acc[c] + n, budget[c])
          \/ pc[c] = "until" /\ Answers(c, "matched") /\ acc' = [acc EXCEPT ![c] = @ + n]
  /\ UNCHANGED <<state, op, cancelled, toCome, quiet>>

\* Nothing came before the timer fired.
ReadTimesOut(c) ==
  /\ pc[c] \in Loops
  /\ line = 0 /\ left[c] <= 0
  /\ LoopEnds(c, pc[c], "timed_out")
  /\ UNCHANGED <<state, op, acc, cancelled, input>>

ReadCancelled(c) ==
  /\ pc[c] \in Loops /\ cancelled[c]
  /\ LoopEnds(c, pc[c], "cancelled")
  /\ UNCHANGED <<state, op, acc, cancelled, input>>

\* The device hung up, with nothing left to read, or failed.
ReadEnds(c) ==
  /\ pc[c] \in Loops
  /\ \/ line = 0 /\ LoopEnds(c, pc[c], "eof")
     \/ Answers(c, "Io")
  /\ UNCHANGED <<state, op, acc, cancelled, input>>

-----------------------------------------------------------------------------
(* The client, the device and the clock *)

Cancel(c) ==
  /\ Waiting(c) /\ ~cancelled[c]
  /\ cancelled' = [cancelled EXCEPT ![c] = TRUE]
  /\ UNCHANGED <<state, pc, op, ahead, clocks, acc, reply, input>>

Arrives ==
  /\ toCome > 0
  /\ line'   = line + 1
  /\ toCome' = toCome - 1
  /\ quiet'  = 0
  /\ UNCHANGED <<state, pc, op, ahead, clocks, acc, reply, cancelled>>

\* Task t's await is over.
Runnable(t) ==
  /\ Waiting(t)
  /\ \/ left[t] <= 0
     \/ t \in Calls /\ cancelled[t]
     \/ pc[t] = "lock" /\ Owner(t)
     \/ pc[t] \in Loops /\ line > 0

Tick ==
  /\ \E t \in Tasks : Waiting(t)
  /\ \A t \in Tasks : Runnable(t) => late[t] < Lag
  /\ age'    = [t \in Tasks |-> IF Waiting(t) THEN age[t] + 1 ELSE age[t]]
  /\ whole'  = [t \in Tasks |-> IF Waiting(t) THEN whole[t] - 1 ELSE whole[t]]
  /\ budget' = [t \in Tasks |-> IF pc[t] \in Loops THEN budget[t] - 1 ELSE budget[t]]
  /\ left'   = [t \in Tasks |-> IF Waiting(t) THEN left[t] - 1 ELSE left[t]]
  /\ late'   = [t \in Tasks |-> IF Runnable(t) THEN late[t] + 1 ELSE late[t]]
  /\ quiet'  = Least(quiet + 1, DrainIdle)
  /\ UNCHANGED <<state, pc, op, ahead, acc, reply, cancelled, line, toCome>>

CallNext(c) ==
  \/ StartCall(c) \/ Locked(c) \/ Accepted(c) \/ DeviceGivesUp(c) \/ TakesBytes(c)
  \/ ReadTimesOut(c) \/ ReadCancelled(c) \/ ReadEnds(c) \/ Cancel(c)

AllDone == \A t \in Tasks : pc[t] = "done"

Next ==
  \/ \E c \in Calls : CallNext(c)
  \/ StartClose \/ CloseLocked
  \/ \E t \in Tasks : Refused(t) \/ LockGivesUp(t)
  \/ Arrives \/ Tick
  \/ AllDone /\ UNCHANGED vars

Spec == Init /\ [][Next]_vars

-----------------------------------------------------------------------------
(* Properties *)

Clocks == -Lag..MaxTimeout

\* The variables have their types, no timer is passed by more than the lag of
\* the runtime, and a read loop with a cap (read_locked, read_idle_locked) never
\* holds more than max_bytes.
TypeOK ==
  /\ state \in {"Ready", "Closing", "Absent"}
  /\ pc \in [Tasks -> {"idle", "lock", "write", "flush", "done"} \cup Loops]
  /\ op \in [Calls -> Ops]
  /\ ahead \in [Tasks -> SUBSET Tasks]
  /\ age \in [Tasks -> 0..(MaxTimeout + Lag)]
  /\ whole \in [Tasks -> Int]
  /\ budget \in [Tasks -> Clocks] /\ left \in [Tasks -> Clocks]
  /\ late \in [Tasks -> 0..Lag]
  /\ acc \in [Calls -> Nat]
  /\ \A c \in Calls : pc[c] \in CappedLoops \/ op[c] \in {"read", "drain"} => acc[c] <= MaxBytes
  /\ cancelled \in [Calls -> BOOLEAN]
  /\ line \in Nat /\ toCome \in Nat /\ quiet \in 0..DrainIdle
  /\ reply \in [Tasks -> {"none", "refused", "ok", "complete", "timed_out", "eof",
                         "matched", "cancelled", "Cancelled", "Timeout", "Io"}]

\* A request that asked for d is answered d later, give or take one late poll:
\* the phases of an exec share one deadline, bytes that keep coming buy a read
\* no time, and no timeout asked for outlasts MAX_TIMEOUT_MS
\* (manager.rs, every call; operation_timeout_ms).  A drain has DRAIN_TOTAL_MS
\* for the lock and DRAIN_TOTAL_MS for the input (manager.rs, drain).
AnswersInTime ==
  \A t \in Tasks : Waiting(t) =>
    IF t \in Calls /\ op[t] = "drain" THEN age[t] <= 2 * (DrainTotal + Lag)
    ELSE /\ age[t] + whole[t] <= MaxTimeout
         /\ whole[t] >= -Lag

\* A drain reports timed_out only when DRAIN_TOTAL_MS are over, or when nothing
\* is left to read and the device has been quiet for DRAIN_IDLE_MS: a byte that
\* arrives at the same moment as the idle timer is not left behind
\* (manager.rs, read_idle_locked).
DrainMeansQuiet ==
  [][\A c \in Calls :
       (pc[c] = "drain" /\ pc'[c] = "done" /\ reply'[c] = "timed_out")
         => budget[c] <= 0 \/ (line = 0 /\ quiet = DrainIdle)]_vars

\* serial.close waits MAX_TIMEOUT_MS, as long as any call may take: it gives up,
\* and leaves the session open, only while every call before it is overdue
\* itself and about to answer (manager.rs, close_with_timeout).
CloseOutwaits ==
  [][reply[Closer] = "none" /\ reply'[Closer] = "Timeout"
       => \A c \in ahead[Closer] : left[c] <= 0]_vars
=============================================================================
