--------------------------- MODULE DeadlinesProofs ---------------------------
(***************************************************************************)
(* Proofs about Deadlines, for every number of calls, every timeout and    *)
(* every lag.                                                              *)
(*                                                                         *)
(* Every step of a task either answers (Ends) or takes the task, which has *)
(* the lock, to its next await (GoesOn); StepsAreFew maps the actions to   *)
(* these two.  The inductive invariant says where the timers stand: what   *)
(* is left of an await is at most what is left of the request's own time,  *)
(* a timer that has run out has a poll coming within Lag, and a task is at *)
(* least as old as those that queue behind it.                             *)
(***************************************************************************)
EXTENDS Deadlines, TLAPS

Places == {"idle", "lock", "write", "flush", "done"} \cup Loops
Drains(t) == t \in Calls /\ op[t] = "drain"

\* What the other parts rest on: the types, the kinds and places of the calls.
Typed ==
  /\ pc \in [Tasks -> Places]
  /\ op \in [Calls -> Ops]
  /\ ahead \in [Tasks -> SUBSET Tasks]
  /\ age \in [Tasks -> Int]
  /\ whole \in [Tasks -> Int]
  /\ budget \in [Tasks -> Int]
  /\ left \in [Tasks -> Int]
  /\ late \in [Tasks -> Int]
  /\ line \in Nat /\ toCome \in Nat /\ quiet \in 0..DrainIdle

Kinds ==
  /\ pc[Closer] \in {"idle", "lock", "done"}
  /\ \A c \in Calls :
       /\ op[c] = "drain" => pc[c] \in {"idle", "lock", "drain", "done"}
       /\ op[c] = "read"  => pc[c] \in {"idle", "lock", "read", "done"}
       /\ pc[c] = "drain" => op[c] = "drain"
       /\ pc[c] = "read"  => op[c] = "read"

\* The clocks of task t.
ClockInv(t) ==
  IF Waiting(t)
  THEN /\ age[t] >= 0
       /\ late[t] >= 0 /\ late[t] <= Lag
       /\ left[t] + late[t] >= 0
       /\ pc[t] \notin Loops => left[t] = whole[t] /\ budget[t] = 0
       /\ pc[t] \in Loops => left[t] <= budget[t]
       /\ (Drains(t) /\ pc[t] = "lock") => age[t] + whole[t] <= DrainTotal
       /\ (Drains(t) /\ pc[t] # "lock") => age[t] + budget[t] <= 2 * DrainTotal + Lag
       /\ ~Drains(t) => /\ age[t] + whole[t] <= MaxTimeout
                        /\ pc[t] \in Loops => budget[t] <= whole[t]
  ELSE age[t] = 0 /\ whole[t] = 0 /\ budget[t] = 0 /\ left[t] = 0 /\ late[t] = 0

\* The queue of the port's lock: it holds the waiting tasks, one before the
\* other, and the oldest first; who is past the lock has nobody before it.
QueueInv ==
  /\ \A t \in Tasks : \A u \in ahead[t] : Waiting(u) /\ Waiting(t) /\ u # t /\ age[u] >= age[t]
  /\ \A t \in Tasks : pc[t] # "lock" => ahead[t] = {}
  /\ \A t, u \in Tasks : Waiting(t) /\ Waiting(u) /\ t # u => t \in ahead[u] \/ u \in ahead[t]
  /\ pc[Closer] = "lock" => age[Closer] + whole[Closer] = MaxTimeout

\* A drain with nothing to read waits for its total deadline, or for what is
\* left of DrainIdle since the device last sent.
QuietInv ==
  \A c \in Calls : pc[c] = "drain" /\ line = 0 =>
    \/ left[c] = budget[c]
    \/ quiet = DrainIdle
    \/ quiet + left[c] >= DrainIdle

\* The rest of the types, and a capped loop holds at most its cap.
Replies ==
  {"none", "refused", "ok", "complete", "timed_out", "eof", "matched", "cancelled",
   "Cancelled", "Timeout", "Io"}

DataInv ==
  /\ state \in {"Ready", "Closing", "Absent"}
  /\ acc \in [Calls -> Nat]
  /\ cancelled \in [Calls -> BOOLEAN]
  /\ reply \in [Tasks -> Replies]
  /\ \A c \in Calls :
       pc[c] \in CappedLoops \/ op[c] \in {"read", "drain"} => acc[c] <= MaxBytes

IInv == Typed /\ Kinds /\ (\A t \in Tasks : ClockInv(t)) /\ QueueInv /\ QuietInv

\* Task t answers.
Ends(t) ==
  /\ pc[t] # "done"
  /\ pc'     = [pc     EXCEPT ![t] = "done"]
  /\ ahead'  = [u \in Tasks |-> IF u = t THEN {} ELSE ahead[u] \ {t}]
  /\ age'    = [age    EXCEPT ![t] = 0]
  /\ whole'  = [whole  EXCEPT ![t] = 0]
  /\ budget' = [budget EXCEPT ![t] = 0]
  /\ left'   = [left   EXCEPT ![t] = 0]
  /\ late'   = [late   EXCEPT ![t] = 0]

\* Call c, which has the lock, goes on to await at p, with d on the timer and
\* b for its loop.
GoesOnTo(c, p, d, b) ==
  /\ p \in Places \ {"idle", "lock", "done"}
  /\ d \in Nat /\ b \in Int
  /\ pc'     = [pc     EXCEPT ![c] = p]
  /\ left'   = [left   EXCEPT ![c] = d]
  /\ late'   = [late   EXCEPT ![c] = 0]
  /\ budget' = [budget EXCEPT ![c] = b]
  /\ UNCHANGED <<age, whole, ahead>>
  /\ p \notin Loops => d = whole[c] /\ b = 0 /\ op[c] \notin {"drain", "read"}
  /\ p \in Loops => d <= b
  /\ op[c] = "drain" => p = "drain" /\ b = (IF pc[c] = "lock" THEN DrainTotal ELSE budget[c])
  /\ op[c] # "drain" => b <= whole[c] \/ p \notin Loops
  /\ p = "drain" => op[c] = "drain" /\ d = Least(DrainIdle, b)
  /\ p = "read" <=> op[c] = "read"

GoesOn(c) ==
  /\ Owner(c)
  /\ \E p \in Places, d \in Nat, b \in Int : GoesOnTo(c, p, d, b)

\* What a task does between two awaits.
TaskStep(t) ==
  /\ Ends(t) \/ (t \in Calls /\ GoesOn(t))
  /\ line' \in Nat /\ (line' = line \/ pc[t] \in Loops)
  /\ UNCHANGED <<op, quiet, toCome>>

-----------------------------------------------------------------------------
(* The actions are such steps *)

\* An answer (Answers) of a task that has not answered ends it.
LEMMA AnswerEnds ==
  ASSUME NEW t \in Tasks, NEW out, pc[t] # "done", Answers(t, out)
  PROVE  Ends(t)
BY DEF Answers, Ends

\* The next await of a write or an exec (write_all_deadline, flush_deadline)
\* has the call's deadline.
LEMMA DeviceStep ==
  ASSUME Typed, NEW c \in Calls, Owner(c), op[c] \notin {"drain", "read"},
         NEW p \in {"write", "flush"}, AwaitsDevice(c, p)
  PROVE  Ends(c) \/ GoesOn(c)
<1>1. c \in Tasks /\ pc[c] # "done" /\ whole[c] \in Int
  BY DEF Typed, Tasks, Owner, Waiting
<1>2. CASE whole[c] < 0
  BY <1>1, <1>2, AnswerEnds DEF AwaitsDevice
<1>3. CASE ~(whole[c] < 0)
  <2>1. whole[c] \in Nat
    BY <1>1, <1>3
  <2>2. p \in Places /\ p \notin Loops /\ p # "drain" /\ p # "read"
    BY DEF Places, Loops, CappedLoops, IdleLoops
  <2>3. p \in Places \ {"idle", "lock", "done"}
    BY <2>2
  <2>4. GoesOnTo(c, p, whole[c], 0)
    BY <1>3, <2>1, <2>2, <2>3 DEF AwaitsDevice, Awaits, GoesOnTo
  <2>. QED BY <2>1, <2>2, <2>4 DEF GoesOn
<1>. QED BY <1>2, <1>3

\* The top of a read loop answers, goes on to exec's write, or awaits the next
\* bytes, with a timer and a deadline as GoesOnTo has them.
LEMMA LoopStep ==
  ASSUME Typed, NEW c \in Calls, Owner(c),
         NEW p \in Loops, NEW n, NEW b \in Int, LoopTop(c, p, n, b),
         p = "drain" <=> op[c] = "drain", p = "read" <=> op[c] = "read",
         op[c] = "drain" => b = (IF pc[c] = "lock" THEN DrainTotal ELSE budget[c]),
         op[c] # "drain" => b <= whole[c]
  PROVE  Ends(c) \/ GoesOn(c)
<1>1. c \in Tasks /\ pc[c] # "done"
  BY DEF Tasks, Owner, Waiting
<1>2. ASSUME NEW status, LoopEnds(c, p, status) PROVE Ends(c) \/ GoesOn(c)
  <2>1. CASE p = "clear"
    BY <1>1, <1>2, <2>1, AnswerEnds, DeviceStep DEF LoopEnds, ExecGoesOn
  <2>2. CASE p # "clear"
    BY <1>1, <1>2, <2>2, AnswerEnds DEF LoopEnds
  <2>. QED BY <2>1, <2>2
<1>3. CASE ~Overdue(b) /\ UNCHANGED <<age, whole, ahead>> /\ Awaits(c, p, read_window(p, b))
                       /\ budget' = [budget EXCEPT ![c] = b]
  <2>1. read_window(p, b) \in Nat /\ read_window(p, b) <= b
    BY <1>3, ConstantsAssumption DEF Overdue, read_window, Least
  <2>2. p \in Places /\ p \notin {"idle", "lock", "done"}
    BY DEF Places, Loops, CappedLoops, IdleLoops
  <2>3. p = "drain" => read_window(p, b) = Least(DrainIdle, b)
    BY DEF read_window, IdleLoops
  <2>4. GoesOnTo(c, p, read_window(p, b), b)
    BY <1>3, <2>1, <2>2, <2>3 DEF GoesOnTo, Awaits
  <2>. QED BY <2>1, <2>2, <2>4 DEF GoesOn
<1>. QED BY <1>2, <1>3 DEF LoopTop

\* Every action of a call but its start and its cancellation, and every answer
\* of the close, is a TaskStep.
LEMMA StepsAreFew ==
  ASSUME IInv, acc \in [Calls -> Nat]
  PROVE  /\ \A c \in Calls :
              Locked(c) \/ Accepted(c) \/ DeviceGivesUp(c) \/ TakesBytes(c) \/ ReadTimesOut(c)
                \/ ReadCancelled(c) \/ ReadEnds(c) => TaskStep(c)
         /\ CloseLocked => TaskStep(Closer)
         /\ \A t \in Tasks : Refused(t) \/ LockGivesUp(t) => TaskStep(t)
<1>t. Typed /\ Kinds /\ line \in Nat /\ Closer \in Tasks
  BY DEF IInv, Typed, Tasks
<1>i. UNCHANGED <<op, input>> => UNCHANGED <<op, quiet, toCome>> /\ line' = line /\ line' \in Nat
  BY <1>t DEF input
<1>1. ASSUME NEW c \in Calls, pc[c] \notin {"idle", "lock", "done"}
      PROVE  c \in Tasks /\ Owner(c) /\ pc[c] # "done"
  BY <1>1 DEF Tasks, Owner, Waiting, IInv, QueueInv
<1>k. ASSUME NEW c \in Calls, pc[c] \in Loops
      PROVE  /\ pc[c] = "drain" <=> op[c] = "drain"
             /\ pc[c] = "read" <=> op[c] = "read"
             /\ pc[c] \notin {"idle", "lock", "done"}
  BY <1>t, <1>k DEF Kinds, Loops, CappedLoops, IdleLoops
<1>e. ASSUME NEW c \in Calls, pc[c] \in Loops, NEW status, LoopEnds(c, pc[c], status)
      PROVE  Ends(c) \/ GoesOn(c)
  <2>1. CASE pc[c] = "clear"
    BY <1>t, <1>1, <1>e, <1>k, <2>1, AnswerEnds, DeviceStep DEF LoopEnds, ExecGoesOn
  <2>2. CASE pc[c] # "clear"
    BY <1>1, <1>e, <1>k, <2>2, AnswerEnds DEF LoopEnds
  <2>. QED BY <2>1, <2>2
<1>2. ASSUME NEW c \in Calls, Locked(c) PROVE TaskStep(c)
  <2>1. c \in Tasks /\ Owner(c) /\ pc[c] = "lock" /\ pc[c] # "done" /\ whole[c] \in Int
    BY <1>2, <1>t DEF Tasks, Locked, Typed
  <2>2. DrainTotal \in Int /\ Least(DrainTotal, whole[c]) \in Int /\ Least(DrainTotal, whole[c]) <= whole[c]
    BY <2>1, ConstantsAssumption DEF Least
  <2>3. {"drain", "read", "until", "clear"} \subseteq Loops
    BY DEF Loops, CappedLoops, IdleLoops
  <2>. SUFFICES Ends(c) \/ GoesOn(c)
    BY <1>2, <1>i DEF Locked, TaskStep
  <2>4. CASE Answers(c, "refused")
    BY <2>1, <2>4, AnswerEnds
  <2>5. CASE op[c] = "drain" /\ LoopTop(c, "drain", 0, DrainTotal)
    BY <1>t, <2>1, <2>2, <2>3, <2>5, LoopStep
  <2>6. CASE op[c] = "read" /\ LoopTop(c, "read", 0, whole[c])
    BY <1>t, <2>1, <2>3, <2>6, LoopStep
  <2>7. CASE op[c] = "read_until" /\ LoopTop(c, "until", 0, whole[c])
    BY <1>t, <2>1, <2>3, <2>7, LoopStep
  <2>8. CASE op[c] = "write" /\ AwaitsDevice(c, "write")
    BY <1>t, <2>1, <2>8, DeviceStep
  <2>9. CASE op[c] = "exec" /\ LoopTop(c, "clear", 0, Least(DrainTotal, whole[c]))
    BY <1>t, <2>1, <2>2, <2>3, <2>9, LoopStep
  <2>10. CASE op[c] = "exec" /\ ExecGoesOn(c)
    BY <1>t, <2>1, <2>10, AnswerEnds, DeviceStep DEF ExecGoesOn
  <2>. QED BY <1>2, <2>4, <2>5, <2>6, <2>7, <2>8, <2>9, <2>10 DEF Locked
<1>3. ASSUME NEW c \in Calls, Accepted(c) PROVE TaskStep(c)
  <2>1. pc[c] \in {"write", "flush"}
    BY <1>3 DEF Accepted
  <2>2. c \in Tasks /\ Owner(c) /\ pc[c] # "done" /\ op[c] \notin {"drain", "read"} /\ whole[c] \in Int
    BY <1>1, <1>t, <2>1 DEF Kinds, Typed
  <2>. SUFFICES Ends(c) \/ GoesOn(c)
    BY <1>3, <1>i DEF Accepted, TaskStep
  <2>3. CASE AwaitsDevice(c, "flush")
    BY <1>t, <2>2, <2>3, DeviceStep
  <2>4. CASE Answers(c, "ok")
    BY <2>2, <2>4, AnswerEnds
  <2>5. CASE LoopTop(c, "until", 0, whole[c])
    <3>1. "until" \in Loops
      BY DEF Loops
    <3>. QED BY <1>t, <2>2, <2>5, <3>1, LoopStep
  <2>. QED BY <1>3, <2>3, <2>4, <2>5 DEF Accepted
<1>4. ASSUME NEW c \in Calls, DeviceGivesUp(c) PROVE TaskStep(c)
  <2>1. Ends(c)
    BY <1>1, <1>4, AnswerEnds DEF DeviceGivesUp
  <2>. QED BY <1>4, <1>i, <2>1 DEF DeviceGivesUp, TaskStep
<1>5. ASSUME NEW c \in Calls, TakesBytes(c) PROVE TaskStep(c)
  <2>1. pc[c] \in Loops /\ UNCHANGED <<op, quiet, toCome>>
    BY <1>5 DEF TakesBytes
  <2>2. PICK n \in 1..Least(take(c), line) :
          /\ line' = line - n
          /\ LoopTop(c, pc[c], acc[c] + n, budget[c]) \/ Answers(c, "matched")
    BY <1>5 DEF TakesBytes
  <2>3. take(c) \in Int
    BY <1>t, <2>1, ConstantsAssumption DEF take, Least, Typed
  <2>4. line' \in Nat
    BY <1>t, <2>2, <2>3 DEF Least
  <2>5. Owner(c) /\ c \in Tasks /\ pc[c] # "done" /\ budget[c] \in Int
    BY <1>t, <1>1, <1>k, <2>1 DEF Typed
  <2>6. op[c] # "drain" => budget[c] <= whole[c]
    BY <1>k, <2>1, <2>5 DEF IInv, ClockInv, Owner, Drains
  <2>7. Ends(c) \/ GoesOn(c)
    <3>1. CASE Answers(c, "matched")
      BY <2>5, <3>1, AnswerEnds
    <3>2. CASE LoopTop(c, pc[c], acc[c] + n, budget[c])
      BY <1>t, <1>k, <2>1, <2>5, <2>6, <3>2, LoopStep
    <3>. QED BY <2>2, <3>1, <3>2
  <2>. QED BY <2>1, <2>4, <2>7 DEF TaskStep
<1>6. ASSUME NEW c \in Calls, ReadTimesOut(c) \/ ReadCancelled(c) PROVE TaskStep(c)
  <2>1. Ends(c) \/ GoesOn(c)
    BY <1>e, <1>6 DEF ReadTimesOut, ReadCancelled
  <2>. QED BY <1>6, <1>i, <2>1 DEF ReadTimesOut, ReadCancelled, TaskStep
<1>7. ASSUME NEW c \in Calls, ReadEnds(c) PROVE TaskStep(c)
  <2>1. Ends(c) \/ GoesOn(c)
    BY <1>1, <1>e, <1>k, <1>7, AnswerEnds DEF ReadEnds
  <2>. QED BY <1>7, <1>i, <2>1 DEF ReadEnds, TaskStep
<1>8. CloseLocked => TaskStep(Closer)
  BY <1>t, <1>i, AnswerEnds DEF CloseLocked, TaskStep
<1>9. ASSUME NEW t \in Tasks, Refused(t) \/ LockGivesUp(t) PROVE TaskStep(t)
  <2>1. Ends(t)
    BY <1>9, AnswerEnds DEF Refused, LockGivesUp
  <2>. QED BY <1>9, <1>i, <2>1 DEF Refused, LockGivesUp, TaskStep
<1>. QED BY <1>2, <1>3, <1>4, <1>5, <1>6, <1>7, <1>8, <1>9

-----------------------------------------------------------------------------
(* The inductive invariant *)

\* It holds at the start, when nobody waits.
LEMMA InitInv == Init => IInv
<1>. SUFFICES ASSUME Init PROVE IInv
  OBVIOUS
<1>1. \A t \in Tasks : ~Waiting(t) /\ pc[t] = "idle"
  BY DEF Init, Waiting
<1>2. Typed
  BY ConstantsAssumption DEF Init, Typed, Places
<1>3. Kinds
  BY <1>1 DEF Kinds, Tasks
<1>4. \A t \in Tasks : ClockInv(t)
  BY <1>1 DEF Init, ClockInv
<1>5. QueueInv
  BY <1>1 DEF Init, QueueInv, Tasks
<1>6. QuietInv
  BY <1>1 DEF QuietInv, Tasks
<1>. QED BY <1>2, <1>3, <1>4, <1>5, <1>6 DEF IInv

\* A request takes its place in the queue: the youngest, behind everybody.
LEMMA StartStep ==
  ASSUME IInv, NEW t \in Tasks, NEW d \in 0..MaxTimeout, Start(t, d),
         t = Closer => d = MaxTimeout, Drains(t) => d = DrainTotal
  PROVE  IInv'
<1>t. Typed /\ Kinds /\ QueueInv /\ QuietInv /\ Closer \in Tasks /\ Closer \notin Calls
  BY ConstantsAssumption DEF IInv, Tasks
<1>1. /\ pc' = [pc EXCEPT ![t] = "lock"] /\ left' = [left EXCEPT ![t] = d]
      /\ late' = [late EXCEPT ![t] = 0] /\ whole' = [whole EXCEPT ![t] = d]
      /\ ahead' = [ahead EXCEPT ![t] = {u \in Tasks : Waiting(u)}]
      /\ UNCHANGED <<op, age, budget, acc, cancelled, line, toCome, quiet>>
      /\ pc[t] = "idle" /\ state' \in {"Closing", state} /\ d \in Int
  BY DEF Start, Awaits, input
<1>2. Typed'
  BY <1>t, <1>1 DEF Typed, Places
<1>3. Kinds'
  BY <1>t, <1>1 DEF Kinds, Typed, Tasks
<1>4. \A u \in Tasks : u # t => pc'[u] = pc[u] /\ (Waiting(u)' <=> Waiting(u))
  BY <1>t, <1>1 DEF Waiting, Typed
<1>5. ASSUME NEW u \in Tasks PROVE ClockInv(u)'
  <2>1. ClockInv(u)
    BY DEF IInv
  <2>2. CASE u = t
    <3>1. ~Waiting(t)
      BY <1>1 DEF Waiting
    <3>2. /\ pc'[t] = "lock" /\ left'[t] = d /\ late'[t] = 0 /\ whole'[t] = d
          /\ age'[t] = 0 /\ budget'[t] = 0 /\ Waiting(t)'
      BY <1>t, <1>1, <2>1, <2>2, <3>1 DEF Typed, ClockInv, Waiting
    <3>3. "lock" \notin Loops
      BY DEF Loops, CappedLoops, IdleLoops
    <3>4. Drains(t)' <=> Drains(t)
      BY <1>1 DEF Drains
    <3>. QED BY <2>2, <3>2, <3>3, <3>4, ConstantsAssumption DEF ClockInv
  <2>3. CASE u # t
    <3>1. /\ pc'[u] = pc[u] /\ left'[u] = left[u] /\ late'[u] = late[u] /\ whole'[u] = whole[u]
          /\ age'[u] = age[u] /\ budget'[u] = budget[u] /\ op' = op
      BY <1>t, <1>1, <2>3 DEF Typed
    <3>. QED BY <2>1, <3>1 DEF ClockInv, Waiting, Drains
  <2>. QED BY <2>2, <2>3
<1>6. QueueInv'
  <2>1. ~Waiting(t) /\ Waiting(t)' /\ age[t] = 0
    BY <1>t, <1>1 DEF Waiting, Typed, IInv, ClockInv
  <2>2. \A u \in Tasks : ahead'[u] = IF u = t THEN {v \in Tasks : Waiting(v)} ELSE ahead[u]
    BY <1>t, <1>1 DEF Typed
  <2>3. \A u \in Tasks : Waiting(u) => age[u] >= 0
    BY DEF IInv, ClockInv
  <2>4. \A u \in Tasks : \A v \in ahead'[u] : Waiting(v)' /\ Waiting(u)' /\ v # u /\ age'[v] >= age'[u]
    BY <1>t, <1>1, <1>4, <2>1, <2>2, <2>3 DEF QueueInv, Typed
  <2>5. \A u \in Tasks : pc'[u] # "lock" => ahead'[u] = {}
    BY <1>t, <1>1, <1>4, <2>2 DEF QueueInv, Typed
  <2>6. \A u, v \in Tasks : Waiting(u)' /\ Waiting(v)' /\ u # v => u \in ahead'[v] \/ v \in ahead'[u]
    <3>1. ASSUME NEW u \in Tasks, NEW v \in Tasks, Waiting(u)', Waiting(v)', u # v
          PROVE  u \in ahead'[v] \/ v \in ahead'[u]
      <4>1. CASE u = t
        <5>1. Waiting(v) /\ ahead'[u] = {w \in Tasks : Waiting(w)}
          BY <1>4, <2>2, <3>1, <4>1
        <5>. QED BY <5>1
      <4>2. CASE v = t
        <5>1. Waiting(u) /\ ahead'[v] = {w \in Tasks : Waiting(w)}
          BY <1>4, <2>2, <3>1, <4>2
        <5>. QED BY <5>1
      <4>3. CASE u # t /\ v # t
        <5>1. Waiting(u) /\ Waiting(v) /\ ahead'[u] = ahead[u] /\ ahead'[v] = ahead[v]
          BY <1>4, <2>2, <3>1, <4>3
        <5>. QED BY <1>t, <3>1, <5>1 DEF QueueInv
      <4>. QED BY <4>1, <4>2, <4>3
    <3>. QED BY <3>1
  <2>7. pc'[Closer] = "lock" => age'[Closer] + whole'[Closer] = MaxTimeout
    BY <1>t, <1>1, <2>1, ConstantsAssumption DEF QueueInv, Typed
  <2>. QED BY <2>4, <2>5, <2>6, <2>7 DEF QueueInv
<1>7. QuietInv'
  BY <1>t, <1>1 DEF QuietInv, Typed, Tasks
<1>. QED BY <1>2, <1>3, <1>5, <1>6, <1>7 DEF IInv

\* A task answers: it leaves the queue, and the others wait on.
LEMMA EndsStep ==
  ASSUME IInv, NEW t \in Tasks, TaskStep(t), Ends(t)
  PROVE  IInv'
<1>t. Typed /\ Kinds /\ QueueInv /\ QuietInv
  BY DEF IInv
<1>1. /\ pc' = [pc EXCEPT ![t] = "done"]
      /\ ahead' = [u \in Tasks |-> IF u = t THEN {} ELSE ahead[u] \ {t}]
      /\ age' = [age EXCEPT ![t] = 0] /\ whole' = [whole EXCEPT ![t] = 0]
      /\ budget' = [budget EXCEPT ![t] = 0] /\ left' = [left EXCEPT ![t] = 0]
      /\ late' = [late EXCEPT ![t] = 0] /\ pc[t] # "done"
      /\ UNCHANGED <<op, quiet, toCome>> /\ line' \in Nat /\ (line' = line \/ pc[t] \in Loops)
  BY DEF Ends, TaskStep
<1>2. Typed'
  BY <1>t, <1>1 DEF Typed, Places
<1>3. Kinds'
  BY <1>t, <1>1 DEF Kinds, Typed, Tasks
<1>4. ~Waiting(t)' /\ pc'[t] = "done"
  BY <1>t, <1>1 DEF Waiting, Typed
<1>5. \A u \in Tasks : u # t =>
        /\ pc'[u] = pc[u] /\ age'[u] = age[u] /\ whole'[u] = whole[u] /\ budget'[u] = budget[u]
        /\ left'[u] = left[u] /\ late'[u] = late[u] /\ (Waiting(u)' <=> Waiting(u))
        /\ ahead'[u] = ahead[u] \ {t}
  BY <1>t, <1>1 DEF Waiting, Typed
<1>6. ASSUME NEW u \in Tasks PROVE ClockInv(u)'
  <2>1. ClockInv(u)
    BY DEF IInv
  <2>2. CASE u = t
    BY <1>t, <1>1, <1>4, <2>2 DEF ClockInv, Typed
  <2>3. CASE u # t
    BY <1>1, <1>5, <2>1, <2>3 DEF ClockInv, Drains, Waiting
  <2>. QED BY <2>2, <2>3
<1>7. QueueInv'
  <2>1. ahead'[t] = {}
    BY <1>1
  <2>2. \A u \in Tasks : \A v \in ahead'[u] : v \in Tasks /\ u # t /\ v # t /\ v \in ahead[u]
    BY <1>t, <1>1 DEF Typed
  <2>3. \A u \in Tasks : \A v \in ahead'[u] : Waiting(v)' /\ Waiting(u)' /\ v # u /\ age'[v] >= age'[u]
    BY <1>t, <1>5, <2>2 DEF QueueInv
  <2>4. \A u \in Tasks : pc'[u] # "lock" => ahead'[u] = {}
    BY <1>t, <1>5, <2>1 DEF QueueInv
  <2>5. \A u, v \in Tasks : Waiting(u)' /\ Waiting(v)' /\ u # v => u \in ahead'[v] \/ v \in ahead'[u]
    BY <1>t, <1>4, <1>5 DEF QueueInv
  <2>6. pc'[Closer] = "lock" => age'[Closer] + whole'[Closer] = MaxTimeout
    BY <1>t, <1>4, <1>5 DEF QueueInv, Tasks
  <2>. QED BY <2>3, <2>4, <2>5, <2>6 DEF QueueInv
<1>8. ASSUME NEW c \in Calls, pc'[c] = "drain", line' = 0
      PROVE  \/ left'[c] = budget'[c]
             \/ quiet' = DrainIdle
             \/ quiet' + left'[c] >= DrainIdle
  <2>1. c # t /\ c \in Tasks
    BY <1>4, <1>8 DEF Tasks
  <2>2. pc[c] = "drain" /\ left'[c] = left[c] /\ budget'[c] = budget[c]
    BY <1>5, <1>8, <2>1
  <2>3. pc[t] \notin Loops
    BY <1>t, <2>1, <2>2 DEF QueueInv, Waiting, Loops, CappedLoops, IdleLoops
  <2>. QED BY <1>1, <1>8, <1>t, <2>2, <2>3 DEF QuietInv
<1>9. QuietInv'
  BY <1>8 DEF QuietInv
<1>. QED BY <1>2, <1>3, <1>6, <1>7, <1>9 DEF IInv

\* The task that has the lock goes on to its next await, with a timer of no
\* more than what is left of its own time.
LEMMA GoesOnStep ==
  ASSUME IInv, NEW t \in Calls, TaskStep(t), GoesOn(t)
  PROVE  IInv'
<1>t. Typed /\ Kinds /\ QueueInv /\ QuietInv /\ t \in Tasks /\ t # Closer
  BY ConstantsAssumption DEF IInv, Tasks
<1>p. PICK p \in Places, d \in Nat, b \in Int : GoesOnTo(t, p, d, b)
  BY DEF GoesOn
<1>1. /\ pc' = [pc EXCEPT ![t] = p] /\ left' = [left EXCEPT ![t] = d]
      /\ late' = [late EXCEPT ![t] = 0] /\ budget' = [budget EXCEPT ![t] = b]
      /\ UNCHANGED <<age, whole, ahead, op, quiet, toCome>>
      /\ line' \in Nat /\ (line' = line \/ pc[t] \in Loops)
      /\ p \notin {"idle", "lock", "done"} /\ Waiting(t) /\ ahead[t] = {}
  BY <1>p DEF GoesOnTo, TaskStep, GoesOn, Owner
<1>2. Typed'
  BY <1>t, <1>1 DEF Typed
<1>3. Kinds'
  <2>1. /\ op[t] = "drain" => p = "drain"
        /\ op[t] = "read" => p = "read"
        /\ p = "drain" => op[t] = "drain"
        /\ p = "read" => op[t] = "read"
    BY <1>p DEF GoesOnTo
  <2>. QED BY <1>t, <1>1, <2>1 DEF Kinds, Typed, Tasks
<1>4. Waiting(t)' /\ pc'[t] = p /\ left'[t] = d /\ late'[t] = 0 /\ budget'[t] = b
  BY <1>t, <1>1 DEF Waiting, Typed
<1>5. \A u \in Tasks : u # t =>
        /\ pc'[u] = pc[u] /\ budget'[u] = budget[u]
        /\ left'[u] = left[u] /\ late'[u] = late[u] /\ (Waiting(u)' <=> Waiting(u))
  BY <1>t, <1>1 DEF Waiting, Typed
<1>6. ASSUME NEW u \in Tasks PROVE ClockInv(u)'
  <2>1. ClockInv(u)
    BY DEF IInv
  <2>2. CASE u = t
    <3>1. Drains(t)' <=> Drains(t)
      BY <1>1 DEF Drains
    <3>2. CASE Drains(t)
      <4>1. p = "drain" /\ p \in Loops /\ p # "lock"
        BY <1>p, <3>2 DEF GoesOnTo, Drains, Loops, CappedLoops, IdleLoops
      <4>2. b = (IF pc[t] = "lock" THEN DrainTotal ELSE budget[t]) /\ d <= b
        BY <1>p, <3>2, <4>1 DEF GoesOnTo, Drains
      <4>3. "lock" \notin Loops
        BY DEF Loops, CappedLoops, IdleLoops
      <4>4. age[t] + b <= 2 * DrainTotal + Lag /\ age[t] >= 0
        BY <1>t, <1>1, <2>1, <2>2, <3>2, <4>2, <4>3, ConstantsAssumption DEF ClockInv, Typed
      <4>. QED BY <1>t, <1>1, <1>4, <2>2, <3>1, <3>2, <4>1, <4>2, <4>4, ConstantsAssumption
             DEF ClockInv, Typed
    <3>3. CASE ~Drains(t)
      <4>1. age[t] + whole[t] <= MaxTimeout /\ age[t] >= 0
        BY <1>1, <2>1, <2>2, <3>3 DEF ClockInv
      <4>2. /\ p \notin Loops => d = whole[t] /\ b = 0
            /\ p \in Loops => d <= b /\ b <= whole[t]
        BY <1>p, <3>3 DEF GoesOnTo, Drains
      <4>. QED BY <1>t, <1>1, <1>4, <2>2, <3>1, <3>3, <4>1, <4>2, ConstantsAssumption
             DEF ClockInv, Typed
    <3>. QED BY <3>2, <3>3
  <2>3. CASE u # t
    BY <1>1, <1>5, <2>1, <2>3 DEF ClockInv, Drains, Waiting
  <2>. QED BY <2>2, <2>3
<1>7. QueueInv'
  <2>1. \A u \in Tasks : Waiting(u)' <=> Waiting(u)
    BY <1>1, <1>4, <1>5
  <2>2. \A u \in Tasks : pc'[u] # "lock" => ahead[u] = {}
    BY <1>t, <1>1, <1>5 DEF QueueInv
  <2>3. pc'[Closer] = "lock" => pc[Closer] = "lock"
    BY <1>t, <1>5 DEF Tasks
  <2>4. \A u \in Tasks : \A v \in ahead[u] : v \in Tasks
    BY <1>t DEF Typed
  <2>. QED BY <1>t, <1>1, <2>1, <2>2, <2>3, <2>4 DEF QueueInv
<1>8. ASSUME NEW c \in Calls, pc'[c] = "drain", line' = 0
      PROVE  \/ left'[c] = budget'[c]
             \/ quiet' = DrainIdle
             \/ quiet' + left'[c] >= DrainIdle
  <2>1. CASE c = t
    <3>1. d = Least(DrainIdle, b)
      BY <1>p, <1>4, <1>8, <2>1 DEF GoesOnTo
    <3>. QED BY <1>t, <1>1, <1>4, <2>1, <3>1, ConstantsAssumption DEF Least, Typed
  <2>2. CASE c # t
    <3>1. c \in Tasks /\ pc[c] = "drain" /\ left'[c] = left[c] /\ budget'[c] = budget[c]
      BY <1>5, <1>8, <2>2 DEF Tasks
    <3>2. ahead[c] = {} /\ Waiting(c)
      BY <1>t, <3>1 DEF QueueInv, Waiting
    <3>. QED BY <1>t, <1>1, <2>2, <3>1, <3>2 DEF QueueInv
  <2>. QED BY <2>1, <2>2
<1>9. QuietInv'
  BY <1>8 DEF QuietInv
<1>. QED BY <1>2, <1>3, <1>6, <1>7, <1>9 DEF IInv

\* Time passes, and nobody who can go on is later than Lag.
LEMMA TickStep ==
  ASSUME IInv, Tick
  PROVE  IInv'
<1>t. Typed /\ Kinds /\ QueueInv /\ QuietInv
  BY DEF IInv
<1>1. /\ \A t \in Tasks : Runnable(t) => late[t] < Lag
      /\ age'    = [t \in Tasks |-> IF Waiting(t) THEN age[t] + 1 ELSE age[t]]
      /\ whole'  = [t \in Tasks |-> IF Waiting(t) THEN whole[t] - 1 ELSE whole[t]]
      /\ budget' = [t \in Tasks |-> IF pc[t] \in Loops THEN budget[t] - 1 ELSE budget[t]]
      /\ left'   = [t \in Tasks |-> IF Waiting(t) THEN left[t] - 1 ELSE left[t]]
      /\ late'   = [t \in Tasks |-> IF Runnable(t) THEN late[t] + 1 ELSE late[t]]
      /\ quiet'  = Least(quiet + 1, DrainIdle)
      /\ UNCHANGED <<pc, op, ahead, line, toCome>>
  BY DEF Tick
<1>2. Typed'
  BY <1>t, <1>1, ConstantsAssumption DEF Typed, Least
<1>3. Kinds'
  BY <1>t, <1>1 DEF Kinds
<1>4. \A t \in Tasks : Waiting(t)' <=> Waiting(t)
  BY <1>1 DEF Waiting
<1>5. ASSUME NEW t \in Tasks PROVE ClockInv(t)'
  <2>1. ClockInv(t)
    BY DEF IInv
  <2>2. CASE Waiting(t)
    <3>1. pc'[t] = pc[t] /\ age'[t] = age[t] + 1 /\ whole'[t] = whole[t] - 1 /\ left'[t] = left[t] - 1
          /\ budget'[t] = (IF pc[t] \in Loops THEN budget[t] - 1 ELSE budget[t]) /\ Waiting(t)'
      BY <1>1, <1>4, <2>2
    <3>2. late'[t] >= 0 /\ late'[t] <= Lag /\ left'[t] + late'[t] >= 0
      <4>1. CASE Runnable(t)
        BY <1>t, <1>1, <2>1, <2>2, <4>1, ConstantsAssumption DEF ClockInv, Typed
      <4>2. CASE ~Runnable(t)
        <5>1. left[t] > 0
          BY <1>t, <2>2, <4>2 DEF Runnable, Typed
        <5>. QED BY <1>t, <1>1, <2>1, <2>2, <4>2, <5>1, ConstantsAssumption DEF ClockInv, Typed
      <4>. QED BY <4>1, <4>2
    <3>3. Drains(t)' <=> Drains(t)
      BY <1>1 DEF Drains
    <3>4. pc[t] = "lock" => pc[t] \notin Loops
      BY DEF Loops, CappedLoops, IdleLoops
    <3>5. Drains(t) /\ pc[t] # "lock" => pc[t] \in Loops
      BY <1>t, <2>2 DEF Kinds, Drains, Waiting, Loops, CappedLoops, IdleLoops
    <3>. QED BY <1>t, <2>1, <2>2, <3>1, <3>2, <3>3, <3>4, <3>5, ConstantsAssumption
           DEF ClockInv, Typed
  <2>3. CASE ~Waiting(t)
    <3>1. ~Runnable(t) /\ pc[t] \notin Loops
      BY <2>3 DEF Runnable, Waiting, Loops, CappedLoops, IdleLoops
    <3>. QED BY <1>1, <1>4, <2>1, <2>3, <3>1 DEF ClockInv
  <2>. QED BY <2>2, <2>3
<1>6. QueueInv'
  <2>1. \A t \in Tasks : \A u \in ahead[t] : u \in Tasks
    BY <1>t DEF Typed
  <2>2. \A t \in Tasks : \A u \in ahead'[t] : Waiting(u)' /\ Waiting(t)' /\ u # t /\ age'[u] >= age'[t]
    BY <1>t, <1>1, <1>4, <2>1 DEF QueueInv, Typed
  <2>3. pc'[Closer] = "lock" => age'[Closer] + whole'[Closer] = MaxTimeout
    BY <1>t, <1>1 DEF QueueInv, Tasks, Waiting, Typed
  <2>. QED BY <1>t, <1>1, <1>4, <2>2, <2>3 DEF QueueInv
<1>7. ASSUME NEW c \in Calls, pc'[c] = "drain", line' = 0
      PROVE  \/ left'[c] = budget'[c]
             \/ quiet' = DrainIdle
             \/ quiet' + left'[c] >= DrainIdle
  <2>1. c \in Tasks /\ Waiting(c) /\ pc[c] = "drain" /\ pc[c] \in Loops
    BY <1>1, <1>7 DEF Tasks, Waiting, Loops, CappedLoops, IdleLoops
  <2>2. left'[c] = left[c] - 1 /\ budget'[c] = budget[c] - 1
    BY <1>1, <2>1
  <2>. QED BY <1>t, <1>1, <1>7, <2>1, <2>2, ConstantsAssumption DEF QuietInv, Least, Typed
<1>8. QuietInv'
  BY <1>7 DEF QuietInv
<1>. QED BY <1>2, <1>3, <1>5, <1>6, <1>8 DEF IInv

\* Every step keeps the invariant.
LEMMA NextInv == IInv /\ DataInv /\ [Next]_vars => IInv'
<1>. SUFFICES ASSUME IInv, DataInv, [Next]_vars PROVE IInv'
  OBVIOUS
<1>c. Closer \in Tasks /\ Closer \notin Calls /\ Calls \subseteq Tasks
  BY ConstantsAssumption DEF Tasks
<1>1. ASSUME NEW t \in Tasks, TaskStep(t) PROVE IInv'
  BY <1>1, EndsStep, GoesOnStep DEF TaskStep
<1>2. ASSUME NEW c \in Calls, StartCall(c) PROVE IInv'
  <2>1. PICK d \in 0..MaxTimeout : Start(c, d) /\ (Drains(c) => d = DrainTotal)
    <3>1. CASE op[c] = "drain"
      <4>1. DrainTotal \in 0..MaxTimeout
        BY ConstantsAssumption
      <4>. QED BY <1>2, <3>1, <4>1 DEF StartCall
    <3>2. CASE op[c] # "drain"
      <4>1. PICK requested \in Timeouts : Start(c, operation_timeout_ms(requested))
        BY <1>2, <3>2 DEF StartCall
      <4>2. operation_timeout_ms(requested) \in 0..MaxTimeout
        BY ConstantsAssumption DEF operation_timeout_ms, Least
      <4>. QED BY <3>2, <4>1, <4>2 DEF Drains
    <3>. QED BY <3>1, <3>2
  <2>. QED BY <1>c, <2>1, StartStep
<1>3. CASE StartClose
  <2>1. MaxTimeout \in 0..MaxTimeout /\ ~Drains(Closer)
    BY <1>c, ConstantsAssumption DEF Drains
  <2>. QED BY <1>3, <1>c, <2>1, StartStep DEF StartClose
<1>4. ASSUME NEW c \in Calls, Cancel(c) PROVE IInv'
  BY <1>4 DEF Cancel, clocks, input, IInv, Typed, Kinds, ClockInv, QueueInv, QuietInv,
              Waiting, Drains
<1>5. CASE Arrives
  <2>1. /\ line' \in Nat /\ line' # 0 /\ toCome' \in Nat /\ quiet' \in 0..DrainIdle
    BY <1>5, ConstantsAssumption DEF Arrives, IInv, Typed
  <2>. QED BY <1>5, <2>1 DEF Arrives, clocks, IInv, Typed, Kinds, ClockInv, QueueInv,
                             QuietInv, Waiting, Drains
<1>6. CASE UNCHANGED vars
  BY <1>6 DEF vars, clocks, input, IInv, Typed, Kinds, ClockInv, QueueInv, QuietInv,
              Waiting, Drains
<1>. QED BY <1>c, <1>1, <1>2, <1>3, <1>4, <1>5, <1>6, TickStep, StepsAreFew DEF Next, CallNext, DataInv
-----------------------------------------------------------------------------
(* The caps and the rest of the types *)

\* A task that answers keeps what it holds.
LEMMA AnswerData ==
  ASSUME DataInv, Typed, NEW t \in Tasks, NEW out \in Replies, Answers(t, out),
         UNCHANGED <<op, acc>>, state' \in {"Ready", "Closing", "Absent"},
         cancelled' \in [Calls -> BOOLEAN]
  PROVE  DataInv'
<1>1. pc' = [pc EXCEPT ![t] = "done"] /\ reply' = [reply EXCEPT ![t] = out]
  BY DEF Answers
<1>2. \A c \in Calls : pc'[c] \in CappedLoops => pc[c] \in CappedLoops
  BY <1>1 DEF Typed, Tasks, CappedLoops, IdleLoops
<1>. QED BY <1>1, <1>2 DEF DataInv

\* A write or an exec that waits for the device is in no loop.
LEMMA DeviceData ==
  ASSUME DataInv, Typed, NEW c \in Calls, NEW p \in {"write", "flush"}, AwaitsDevice(c, p),
         UNCHANGED <<state, op, cancelled, acc>>
  PROVE  DataInv'
<1>1. CASE Answers(c, "Timeout")
  BY <1>1, AnswerData DEF Tasks, Replies, DataInv
<1>2. CASE pc' = [pc EXCEPT ![c] = p] /\ reply' = reply
  <2>1. \A u \in Calls : pc'[u] \in CappedLoops => pc[u] \in CappedLoops
    BY <1>2 DEF Typed, Tasks, CappedLoops, IdleLoops
  <2>. QED BY <1>2, <2>1 DEF DataInv
<1>. QED BY <1>1, <1>2 DEF AwaitsDevice, Awaits

\* A loop that stands at its top with no more than its cap keeps to it.
LEMMA LoopData ==
  ASSUME DataInv, Typed, NEW c \in Calls, NEW p \in Loops, NEW n \in Nat, NEW b,
         LoopTop(c, p, n, b), p \in CappedLoops => n <= MaxBytes,
         op[c] \in {"read", "drain"} => p \in CappedLoops,
         UNCHANGED <<state, op, cancelled>>
  PROVE  DataInv'
<1>1. acc' = [acc EXCEPT ![c] = n]
  BY DEF LoopTop
<1>2. PICK q : pc' = [pc EXCEPT ![c] = q] /\ (q \in CappedLoops => q = p)
  <2>1. "done" \notin CappedLoops /\ "write" \notin CappedLoops
    BY DEF CappedLoops, IdleLoops
  <2>. QED BY <2>1 DEF LoopTop, LoopEnds, ExecGoesOn, AwaitsDevice, Awaits, Answers
<1>3. reply' \in [Tasks -> Replies]
  <2>1. \E out \in Replies : reply' \in {reply, [reply EXCEPT ![c] = out]}
    BY DEF LoopTop, LoopEnds, ExecGoesOn, AwaitsDevice, Answers, Replies, DataInv
  <2>. QED BY <2>1 DEF DataInv
<1>4. ASSUME NEW u \in Calls, pc'[u] \in CappedLoops \/ op'[u] \in {"read", "drain"}
      PROVE  acc'[u] <= MaxBytes
  <2>1. CASE u = c
    BY <1>1, <1>2, <1>4, <2>1 DEF Typed, DataInv, Tasks
  <2>2. CASE u # c
    BY <1>1, <1>2, <1>4, <2>2 DEF Typed, DataInv, Tasks
  <2>. QED BY <2>1, <2>2
<1>. QED BY <1>1, <1>3, <1>4 DEF DataInv

\* Every step keeps the caps.
LEMMA NextData == IInv /\ DataInv /\ [Next]_vars => DataInv'
<1>. SUFFICES ASSUME IInv, DataInv, [Next]_vars PROVE DataInv'
  OBVIOUS
<1>t. Typed /\ Kinds /\ Closer \in Tasks /\ Closer \notin Calls /\ Calls \subseteq Tasks
  BY ConstantsAssumption DEF IInv, Tasks
<1>s. state \in {"Ready", "Closing", "Absent"} /\ cancelled \in [Calls -> BOOLEAN]
  BY DEF DataInv
<1>k. ASSUME NEW c \in Calls, pc[c] \in Loops
      PROVE  op[c] \in {"read", "drain"} => pc[c] \in CappedLoops
  BY <1>t, <1>k DEF Kinds, Loops, CappedLoops, IdleLoops
<1>0. MaxBytes \in Nat /\ MaxChunk \in Nat
  BY ConstantsAssumption
<1>e. ASSUME NEW c \in Calls, pc[c] \in Loops,
             NEW status \in {"timed_out", "cancelled", "eof"},
             LoopEnds(c, pc[c], status), UNCHANGED <<state, op, cancelled, acc>>
      PROVE  DataInv'
  <2>1. CASE AwaitsDevice(c, "write")
    BY <1>t, <1>e, <2>1, DeviceData
  <2>2. ASSUME NEW out \in Replies, Answers(c, out) PROVE DataInv'
    BY <1>t, <1>s, <1>e, <2>2, AnswerData
  <2>. QED BY <1>e, <2>1, <2>2 DEF LoopEnds, ExecGoesOn, Replies
<1>1. ASSUME NEW t \in Tasks, NEW d, Start(t, d) PROVE DataInv'
  <2>1. /\ pc' = [pc EXCEPT ![t] = "lock"] /\ UNCHANGED <<op, acc, reply, cancelled>>
        /\ state' \in {"Closing", state}
    BY <1>1 DEF Start, Awaits
  <2>2. \A u \in Calls : pc'[u] \in CappedLoops => pc[u] \in CappedLoops
    BY <1>t, <2>1 DEF Typed, CappedLoops, IdleLoops
  <2>. QED BY <2>1, <2>2 DEF DataInv
<1>2. ASSUME NEW c \in Calls, Locked(c) PROVE DataInv'
  <2>0. /\ UNCHANGED <<state, op, cancelled>> /\ 0 \in Nat /\ 0 <= MaxBytes
        /\ {"drain", "read", "clear"} \subseteq CappedLoops /\ CappedLoops \subseteq Loops
        /\ "until" \in Loops
    BY <1>0, <1>2 DEF Locked, Loops, CappedLoops, IdleLoops
  <2>1. CASE Answers(c, "refused") /\ UNCHANGED acc
    BY <1>t, <1>s, <2>0, <2>1, AnswerData DEF Replies
  <2>2. CASE op[c] = "drain" /\ LoopTop(c, "drain", 0, DrainTotal)
    BY <1>t, <2>0, <2>2, LoopData
  <2>3. CASE op[c] = "read" /\ LoopTop(c, "read", 0, whole[c])
    BY <1>t, <2>0, <2>3, LoopData
  <2>4. CASE op[c] = "read_until" /\ LoopTop(c, "until", 0, whole[c])
    BY <1>t, <2>0, <2>4, LoopData
  <2>5. CASE op[c] = "write" /\ AwaitsDevice(c, "write") /\ UNCHANGED acc
    BY <1>t, <2>0, <2>5, DeviceData
  <2>6. CASE op[c] = "exec" /\ LoopTop(c, "clear", 0, Least(DrainTotal, whole[c]))
    BY <1>t, <2>0, <2>6, LoopData
  <2>7. CASE op[c] = "exec" /\ ExecGoesOn(c) /\ UNCHANGED acc
    BY <1>t, <1>s, <2>0, <2>7, AnswerData, DeviceData DEF ExecGoesOn, Replies
  <2>. QED BY <1>2, <2>1, <2>2, <2>3, <2>4, <2>5, <2>6, <2>7 DEF Locked
<1>3. ASSUME NEW c \in Calls, Accepted(c) PROVE DataInv'
  <2>0. UNCHANGED <<state, op, cancelled>> /\ "until" \in Loops /\ "until" \notin CappedLoops
    BY <1>3 DEF Accepted, Loops, CappedLoops, IdleLoops
  <2>1. CASE AwaitsDevice(c, "flush") /\ UNCHANGED acc
    BY <1>t, <2>0, <2>1, DeviceData
  <2>2. CASE Answers(c, "ok") /\ UNCHANGED acc
    BY <1>t, <1>s, <2>0, <2>2, AnswerData DEF Replies
  <2>3. CASE op[c] = "exec" /\ LoopTop(c, "until", 0, whole[c])
    BY <1>t, <2>0, <2>3, LoopData
  <2>. QED BY <1>3, <2>1, <2>2, <2>3 DEF Accepted
<1>4. ASSUME NEW c \in Calls, DeviceGivesUp(c) PROVE DataInv'
  <2>1. PICK out \in {"Timeout", "Cancelled", "Io"} : Answers(c, out)
    BY <1>4 DEF DeviceGivesUp
  <2>2. out \in Replies /\ UNCHANGED <<state, op, cancelled, acc>>
    BY <1>4 DEF DeviceGivesUp, Replies
  <2>. QED BY <1>t, <1>s, <2>1, <2>2, AnswerData
<1>5. ASSUME NEW c \in Calls, TakesBytes(c) PROVE DataInv'
  <2>1. pc[c] \in Loops /\ UNCHANGED <<state, op, cancelled>>
    BY <1>5 DEF TakesBytes
  <2>2. PICK n \in 1..Least(take(c), line) :
          \/ LoopTop(c, pc[c], acc[c] + n, budget[c])
          \/ /\ pc[c] = "until" /\ Answers(c, "matched")
             /\ acc' = [acc EXCEPT ![c] = @ + n]
    BY <1>5 DEF TakesBytes
  <2>3. acc[c] \in Nat /\ line \in Nat
    BY <1>t DEF DataInv, Typed
  <2>4. acc[c] + n \in Nat /\ (pc[c] \in CappedLoops => acc[c] + n <= MaxBytes)
    BY <1>0, <2>2, <2>3 DEF Least, take
  <2>5. CASE LoopTop(c, pc[c], acc[c] + n, budget[c])
    BY <1>t, <1>k, <2>1, <2>4, <2>5, LoopData
  <2>6. CASE pc[c] = "until" /\ Answers(c, "matched") /\ acc' = [acc EXCEPT ![c] = @ + n]
    <3>1. pc' = [pc EXCEPT ![c] = "done"] /\ reply' = [reply EXCEPT ![c] = "matched"]
      BY <2>6 DEF Answers
    <3>2. "matched" \in Replies /\ op[c] \notin {"read", "drain"} /\ "done" \notin CappedLoops
      BY <1>t, <2>6 DEF Replies, Kinds, CappedLoops, IdleLoops
    <3>3. ASSUME NEW u \in Calls, pc'[u] \in CappedLoops \/ op'[u] \in {"read", "drain"}
          PROVE  acc'[u] <= MaxBytes
      BY <1>t, <2>1, <2>6, <3>1, <3>2, <3>3 DEF DataInv, Typed
    <3>. QED BY <1>t, <2>1, <2>3, <2>4, <2>6, <3>1, <3>2, <3>3 DEF DataInv
  <2>. QED BY <2>2, <2>5, <2>6
<1>6. ASSUME NEW c \in Calls, ReadTimesOut(c) \/ ReadCancelled(c) \/ ReadEnds(c) PROVE DataInv'
  <2>1. pc[c] \in Loops /\ UNCHANGED <<state, op, cancelled, acc>>
    BY <1>6 DEF ReadTimesOut, ReadCancelled, ReadEnds
  <2>2. CASE Answers(c, "Io")
    BY <1>t, <1>s, <2>1, <2>2, AnswerData DEF Replies
  <2>3. CASE \E status \in {"timed_out", "cancelled", "eof"} : LoopEnds(c, pc[c], status)
    BY <1>e, <2>1, <2>3
  <2>. QED BY <1>6, <2>2, <2>3 DEF ReadTimesOut, ReadCancelled, ReadEnds
<1>7. ASSUME NEW t \in Tasks, Refused(t) \/ LockGivesUp(t) \/ (t = Closer /\ CloseLocked)
      PROVE  DataInv'
  <2>1. PICK out \in {"refused", "Timeout", "Cancelled", "ok"} : Answers(t, out)
    BY <1>7 DEF Refused, LockGivesUp, CloseLocked
  <2>2. /\ out \in Replies /\ UNCHANGED <<op, cancelled, acc>>
        /\ state' \in {"Ready", "Closing", "Absent"}
    BY <1>7, <1>s DEF Refused, LockGivesUp, CloseLocked, Replies
  <2>. QED BY <1>t, <1>s, <2>1, <2>2, AnswerData
<1>8. ASSUME NEW c \in Calls, Cancel(c) PROVE DataInv'
  BY <1>8 DEF Cancel, DataInv
<1>9. CASE Arrives \/ Tick \/ UNCHANGED vars
  BY <1>9 DEF Arrives, Tick, vars, DataInv
<1>. QED BY <1>t, <1>1, <1>2, <1>3, <1>4, <1>5, <1>6, <1>7, <1>8, <1>9
       DEF Next, CallNext, StartCall, StartClose

-----------------------------------------------------------------------------
(* The theorems *)

\* IInv and DataInv hold in every state.
THEOREM Invariance == Spec => [](IInv /\ DataInv)
<1>1. Init => IInv /\ DataInv
  <2>1. Init => DataInv
    BY ConstantsAssumption DEF Init, DataInv, Tasks, Replies, CappedLoops, IdleLoops
  <2>. QED BY <2>1, InitInv
<1>2. IInv /\ DataInv /\ [Next]_vars => (IInv /\ DataInv)'
  BY NextInv, NextData
<1>. QED BY <1>1, <1>2, PTL DEF Spec

\* What is left of an await is at most what is left of MAX_TIMEOUT_MS since the
\* task started, and no timer is passed by more than Lag.
LEMMA WithinMaximum ==
  ASSUME IInv, NEW t \in Tasks, Waiting(t)
  PROVE  /\ left[t] >= -Lag /\ left[t] <= MaxTimeout - age[t]
         /\ pc[t] \in Loops => budget[t] >= -Lag /\ budget[t] <= MaxTimeout
<1>1. ClockInv(t) /\ Typed
  BY DEF IInv
<1>2. "lock" \notin Loops
  BY DEF Loops, CappedLoops, IdleLoops
<1>3. Drains(t) /\ pc[t] # "lock" => pc[t] \in Loops
  BY DEF IInv, Kinds, Drains, Waiting, Loops, CappedLoops, IdleLoops
<1>. QED BY <1>1, <1>2, <1>3, ConstantsAssumption DEF ClockInv, Typed

\* Every variable of Deadlines has its type, timers run over by at most Lag, and
\* no capped loop holds more than max_bytes.
THEOREM TypeCorrect == Spec => []TypeOK
<1>1. IInv /\ DataInv => TypeOK
  <2>. SUFFICES ASSUME IInv, DataInv PROVE TypeOK
    OBVIOUS
  <2>1. ASSUME NEW t \in Tasks
        PROVE  /\ age[t] \in 0..(MaxTimeout + Lag) /\ late[t] \in 0..Lag
               /\ left[t] \in Clocks /\ budget[t] \in Clocks
    <3>1. ClockInv(t) /\ Typed
      BY DEF IInv
    <3>2. CASE Waiting(t)
      BY <3>1, <3>2, WithinMaximum, ConstantsAssumption DEF ClockInv, Typed, Clocks
    <3>3. CASE ~Waiting(t)
      BY <3>1, <3>3, ConstantsAssumption DEF ClockInv, Clocks
    <3>. QED BY <3>2, <3>3
  <2>2. Typed
    BY DEF IInv
  <2>3. age \in [Tasks -> 0..(MaxTimeout + Lag)] /\ late \in [Tasks -> 0..Lag]
    BY <2>1, <2>2 DEF Typed
  <2>4. left \in [Tasks -> Clocks] /\ budget \in [Tasks -> Clocks]
    BY <2>1, <2>2 DEF Typed
  <2>. QED BY <2>2, <2>3, <2>4 DEF TypeOK, Typed, DataInv, Places, Replies
<1>. QED BY <1>1, Invariance, PTL

\* No request is answered later than its own time allows and one late poll.
THEOREM Timely == Spec => []AnswersInTime
<1>1. IInv => AnswersInTime
  <2>. SUFFICES ASSUME IInv, NEW t \in Tasks, Waiting(t)
                PROVE  IF t \in Calls /\ op[t] = "drain" THEN age[t] <= 2 * (DrainTotal + Lag)
                       ELSE age[t] + whole[t] <= MaxTimeout /\ whole[t] >= -Lag
    BY DEF AnswersInTime
  <2>1. ClockInv(t) /\ Typed /\ left[t] >= -Lag
    BY WithinMaximum DEF IInv
  <2>2. Drains(t) /\ pc[t] # "lock" => pc[t] \in Loops
    BY DEF IInv, Kinds, Drains, Waiting, Loops, CappedLoops, IdleLoops
  <2>3. "lock" \notin Loops
    BY DEF Loops, CappedLoops, IdleLoops
  <2>. QED BY <2>1, <2>2, <2>3, ConstantsAssumption DEF ClockInv, Typed, Drains
<1>. QED BY <1>1, Invariance, PTL

\* A drain that times out has had its time, or a quiet device.
THEOREM QuietDrains == Spec => DrainMeansQuiet
<1>1. IInv /\ DataInv /\ [Next]_vars =>
        [\A c \in Calls :
           (pc[c] = "drain" /\ pc'[c] = "done" /\ reply'[c] = "timed_out")
             => budget[c] <= 0 \/ (line = 0 /\ quiet = DrainIdle)]_vars
  <2>. SUFFICES ASSUME IInv, DataInv, Next, NEW c \in Calls, pc[c] = "drain", pc'[c] = "done",
                       reply'[c] = "timed_out"
                PROVE  budget[c] <= 0 \/ (line = 0 /\ quiet = DrainIdle)
    OBVIOUS
  <2>t. Typed /\ c \in Tasks /\ reply \in [Tasks -> Replies]
    BY DEF IInv, Tasks, DataInv
  <2>0. "drain" \in Loops /\ "drain" \in CappedLoops /\ "drain" # "clear"
    BY DEF Loops, CappedLoops, IdleLoops
  <2>1. ASSUME NEW t \in Tasks, t # c, pc' = [pc EXCEPT ![t] = pc'[t]] PROVE FALSE
    BY <2>t, <2>1 DEF Typed
  <2>2. ASSUME NEW t \in Tasks, TaskStep(t) PROVE t = c
    BY <2>1, <2>t, <2>2 DEF TaskStep, Ends, GoesOn, GoesOnTo, Typed
  <2>3. ASSUME NEW t \in Tasks, NEW d, Start(t, d) PROVE FALSE
    BY <2>t, <2>3 DEF Start, Awaits, Typed
  <2>4. ~Arrives /\ ~Tick /\ (\A u \in Calls : ~Cancel(u))
    BY DEF Arrives, Tick, Cancel
  <2>5. CASE ReadTimesOut(c)
    <3>1. line = 0 /\ left[c] <= 0
      BY <2>5 DEF ReadTimesOut
    <3>. QED BY <3>1, <2>t, ConstantsAssumption DEF IInv, QuietInv, Typed
  <2>6. CASE TakesBytes(c)
    <3>1. PICK n : LoopTop(c, "drain", acc[c] + n, budget[c])
      BY <2>6 DEF TakesBytes
    <3>2. CASE acc[c] + n >= MaxBytes
      BY <2>0, <2>t, <3>1, <3>2 DEF LoopTop, LoopEnds, Answers
    <3>3. CASE ~(acc[c] + n >= MaxBytes) /\ ~Overdue(budget[c])
      BY <2>t, <3>1, <3>3 DEF LoopTop, Awaits, Typed
    <3>4. CASE Overdue(budget[c])
      BY <2>t, <3>4 DEF Overdue, Typed
    <3>. QED BY <3>2, <3>3, <3>4
  <2>7. ~ReadCancelled(c) /\ ~ReadEnds(c)
    BY <2>0, <2>t DEF ReadCancelled, ReadEnds, LoopEnds, Answers
  <2>8. ~Locked(c) /\ ~Accepted(c) /\ ~DeviceGivesUp(c) /\ ~Refused(c) /\ ~LockGivesUp(c)
    BY DEF Locked, Accepted, DeviceGivesUp, Refused, LockGivesUp
  <2>9. Closer # c /\ Closer \in Tasks /\ Calls \subseteq Tasks
    BY ConstantsAssumption DEF Tasks
  <2>10. ~(UNCHANGED vars)
    BY DEF vars
  <2>. QED BY <2>2, <2>3, <2>4, <2>5, <2>6, <2>7, <2>8, <2>9, <2>10, StepsAreFew
         DEF Next, CallNext, StartCall, StartClose, DataInv
<1>. QED BY <1>1, Invariance, PTL DEF Spec, DrainMeansQuiet

\* A close gives up only on calls that are overdue themselves.
THEOREM PatientClose == Spec => CloseOutwaits
<1>1. IInv /\ DataInv /\ [Next]_vars =>
        [reply[Closer] = "none" /\ reply'[Closer] = "Timeout"
           => \A c \in ahead[Closer] : left[c] <= 0]_vars
  <2>. SUFFICES ASSUME IInv, DataInv, Next, reply[Closer] = "none", reply'[Closer] = "Timeout",
                       NEW c \in ahead[Closer]
                PROVE  left[c] <= 0
    OBVIOUS
  <2>t. Typed /\ QueueInv /\ Closer \in Tasks /\ Closer \notin Calls /\ Calls \subseteq Tasks
        /\ c \in Tasks /\ reply \in [Tasks -> Replies]
    BY ConstantsAssumption DEF IInv, Tasks, Typed, DataInv
  <2>1. pc[Closer] = "lock" /\ Waiting(c) /\ Waiting(Closer) /\ age[c] >= age[Closer]
    BY <2>t DEF QueueInv
  <2>2. left[c] <= MaxTimeout - age[c] /\ left[Closer] = MaxTimeout - age[Closer]
    <3>1. "lock" \notin Loops
      BY DEF Loops, CappedLoops, IdleLoops
    <3>2. ClockInv(Closer)
      BY <2>t DEF IInv
    <3>. QED BY <2>t, <2>1, <3>1, <3>2, WithinMaximum, ConstantsAssumption DEF QueueInv, ClockInv, Typed
  <2>3. ASSUME NEW c2 \in Calls PROVE ~CallNext(c2)
    <3>. SUFFICES ASSUME CallNext(c2) PROVE reply'[Closer] = reply[Closer]
      OBVIOUS
    <3>1. ASSUME NEW out, Answers(c2, out) PROVE reply'[Closer] = reply[Closer]
      BY <2>t, <3>1 DEF Answers
    <3>2. ASSUME NEW p, AwaitsDevice(c2, p) PROVE reply'[Closer] = reply[Closer]
      BY <3>1, <3>2 DEF AwaitsDevice
    <3>3. ASSUME NEW p, NEW status, LoopEnds(c2, p, status) PROVE reply'[Closer] = reply[Closer]
      BY <3>1, <3>2, <3>3 DEF LoopEnds, ExecGoesOn
    <3>4. ASSUME NEW p, NEW n, NEW b, LoopTop(c2, p, n, b) PROVE reply'[Closer] = reply[Closer]
      BY <3>3, <3>4 DEF LoopTop
    <3>5. ASSUME ExecGoesOn(c2) PROVE reply'[Closer] = reply[Closer]
      BY <3>1, <3>2, <3>5 DEF ExecGoesOn
    <3>6. StartCall(c2) \/ Cancel(c2) => reply' = reply
      BY DEF StartCall, Start, Cancel
    <3>7. Locked(c2) => reply'[Closer] = reply[Closer]
      BY <3>1, <3>2, <3>4, <3>5 DEF Locked
    <3>8. Accepted(c2) \/ DeviceGivesUp(c2) \/ TakesBytes(c2) => reply'[Closer] = reply[Closer]
      BY <3>1, <3>2, <3>4 DEF Accepted, DeviceGivesUp, TakesBytes
    <3>9. ReadTimesOut(c2) \/ ReadCancelled(c2) \/ ReadEnds(c2) => reply'[Closer] = reply[Closer]
      BY <3>1, <3>3 DEF ReadTimesOut, ReadCancelled, ReadEnds
    <3>. QED BY <3>6, <3>7, <3>8, <3>9 DEF CallNext
  <2>4. LockGivesUp(Closer)
    <3>1. ~StartClose /\ ~CloseLocked /\ ~Arrives /\ ~Tick /\ ~UNCHANGED vars
      BY <2>t DEF StartClose, Start, CloseLocked, Answers, Arrives, Tick, vars
    <3>2. ASSUME NEW t \in Tasks, Refused(t) \/ LockGivesUp(t) PROVE t = Closer /\ ~Refused(t)
      BY <2>t, <3>2 DEF Refused, LockGivesUp, Answers
    <3>. QED BY <2>3, <3>1, <3>2 DEF Next
  <2>5. left[Closer] <= 0
    BY <2>t, <2>4 DEF LockGivesUp
  <2>. QED BY <2>1, <2>2, <2>5, <2>t, ConstantsAssumption DEF Typed
<1>. QED BY <1>1, Invariance, PTL DEF Spec, CloseOutwaits
=============================================================================
