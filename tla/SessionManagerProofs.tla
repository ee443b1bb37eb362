------------------------- MODULE SessionManagerProofs ------------------------
(***************************************************************************)
(* Theorems about SessionManager, for every set of requests and paths and  *)
(* every cap, and that it implements SessionLifecycle if no client closes  *)
(* a session it still sees Opening.                                        *)
(***************************************************************************)
EXTENDS SessionRefinement, FiniteSetTheorems, TLAPS

-----------------------------------------------------------------------------
(* Type correctness *)

\* Every action keeps every variable in its type.
THEOREM TypeCorrect == Spec => []TypeOK
<1> USE ConstantsAssumption
<1>1. Init => TypeOK
  BY DEF Init, TypeOK, IoPcs, Replies, Reply, NoReply, Outcomes
<1>2. TypeOK /\ [Next]_vars => TypeOK'
  <2> SUFFICES ASSUME TypeOK, [Next]_vars PROVE TypeOK'
    OBVIOUS
  <2> USE DEF TypeOK, IoPcs, OpenErrs, LookupErrors, SideEffectErrors, tableVars,
              openVars, closeVars, callVars, wireVars, ioVars
  <2>0. ASSUME NEW s \in Opens, NEW st \in {"Absent", "Opening", "Ready", "Closing"},
               NEW port \in BOOLEAN, Becomes(s, st, port)
        PROVE  /\ state'   \in [Opens -> {"Absent", "Opening", "Ready", "Closing"}]
               /\ hasPort' \in [Opens -> BOOLEAN]
    BY <2>0 DEF Becomes
  <2>1. ASSUME NEW s \in Opens, OpenNext(s) PROVE TypeOK'
    <3>1. CASE OpenRefuse(s)
      BY <3>1 DEF OpenRefuse, OpenReturns, OpenRefusal
    <3>2. CASE OpenReserve(s)
      BY <3>2 DEF OpenReserve, OpenRefusal
    <3>3. CASE OpenCommit(s)
      <4>1. CASE state[s] = "Absent"
        BY <3>3, <4>1 DEF OpenCommit, OpenReturns
      <4>2. CASE state[s] # "Absent"
        <5>1. Becomes(s, "Ready", TRUE)
          BY <3>3, <4>2 DEF OpenCommit, transition_to_ready
        <5>2. /\ state'   \in [Opens -> {"Absent", "Opening", "Ready", "Closing"}]
              /\ hasPort' \in [Opens -> BOOLEAN]
          BY <5>1, <2>0
        <5>3. OpenReturns(s, "ok")
          BY <3>3, <4>2 DEF OpenCommit
        <5> QED BY <3>3, <5>2, <5>3 DEF OpenCommit, OpenReturns
      <4> QED BY <4>1, <4>2
    <3>4. CASE OpenAbort(s)
      BY <3>4 DEF OpenAbort, OpenReturns, remove, Becomes
    <3> QED BY <2>1, <3>1, <3>2, <3>3, <3>4 DEF OpenNext
  <2>2. ASSUME NEW k \in Closes, CloseNext(k) PROVE TypeOK'
    <3>1. CASE CloseRefuse(k)
      BY <3>1 DEF CloseRefuse, CloseReturns
    <3>2. CASE CloseBegin(k)
      BY <3>2 DEF CloseBegin, begin_close, Becomes
    <3>3. CASE CloseAcquire(k)
      BY <3>3 DEF CloseAcquire
    <3>4. CASE CloseTimeout(k)
      <4>1. CASE state[closeOf[k]] = "Absent"
        BY <3>4, <4>1 DEF CloseTimeout, CloseReturns
      <4>2. CASE state[closeOf[k]] # "Absent"
        <5>1. Becomes(closeOf[k], "Ready", TRUE)
          BY <3>4, <4>2 DEF CloseTimeout, restore_ready
        <5>2. closeOf[k] \in Opens
          OBVIOUS
        <5> QED BY <3>4, <4>2, <5>1, <5>2, <2>0 DEF CloseTimeout, CloseReturns
      <4> QED BY <4>1, <4>2
    <3>5. CASE CloseFinish(k)
      BY <3>5 DEF CloseFinish, CloseReturns, remove, Becomes
    <3> QED BY <2>2, <3>1, <3>2, <3>3, <3>4, <3>5 DEF CloseNext
  <2>3. ASSUME NEW c \in Ios, IoNext(c) PROVE TypeOK'
    <3> DEFINE Typed == /\ ioPc'   \in [Ios -> IoPcs]
                        /\ ioRes'  \in [Ios -> Replies]
                        /\ holder' \in [Opens -> Ios \cup {None}]
    <3>1. ASSUME IoFrame, Typed, sent' \in [Ios -> {"none", "some", "all"}],
                 got' \in [Ios -> BOOLEAN]
          PROVE TypeOK'
      BY <3>1 DEF IoFrame
    <3>2. ASSUME IoFrame, Typed, UNCHANGED wireVars PROVE TypeOK'
      BY <3>1, <3>2
    <3>3. ASSUME NEW out \in Outcomes, NEW w \in BOOLEAN, NEW r \in BOOLEAN,
                 IoReturns(c, Reply(out, w, r))
          PROVE Typed
      <4>1. Reply(out, w, r) \in Replies
        BY DEF Reply, Replies
      <4> QED BY <3>3, <4>1 DEF IoReturns
    <3>4. ASSUME NEW err \in SideEffectErrors \cup LookupErrors \cup {"InvalidParam"},
                 IoFails(c, err)
          PROVE Typed
      <4> DEFINE w == ioOp[c] # "read"  /\ possible_serial_side_effect(err)
                 r == ioOp[c] # "write" /\ possible_serial_side_effect(err)
      <4>1. err \in Outcomes /\ w \in BOOLEAN /\ r \in BOOLEAN
        BY DEF Outcomes
      <4>2. IoReturns(c, Reply(err, w, r))
        BY <3>4 DEF IoFails, tool_error
      <4> HIDE DEF w, r
      <4> QED BY <3>3, <4>1, <4>2
    <3>5. ASSUME NEW pc \in IoPcs, GoTo(c, pc) PROVE Typed
      BY <3>5 DEF GoTo
    <3> HIDE DEF Typed
    <3>6. ASSUME NEW pc \in IoPcs, NEW err \in SideEffectErrors, GivesUp(c, pc, err)
          PROVE TypeOK'
      BY <3>6, <3>4, <3>2 DEF GivesUp
    <3>7. ASSUME NEW pc \in IoPcs, Takes(c, pc) PROVE TypeOK'
      BY <3>7, <3>1 DEF Takes, Typed
    <3>8. CASE Checkout(c)
      <4>1. Typed
        <5>1. ASSUME Lookup(ioSid[c]) # "ok", IoFails(c, Lookup(ioSid[c])) PROVE Typed
          BY <3>4, <5>1 DEF Lookup
        <5>2. ASSUME IoReturns(c, Reply("cancelled", FALSE, FALSE)) PROVE Typed
          BY <3>3, <5>2 DEF Outcomes, ReadStatuses
        <5> QED BY <3>8, <3>4, <3>5, <5>1, <5>2 DEF Checkout
      <4> QED BY <3>8, <3>2, <4>1 DEF Checkout
    <3>9. CASE LockGranted(c)
      BY <3>9, <3>2 DEF LockGranted, Typed
    <3>10. CASE LockGivesUp(c)
      <4>1. PICK err \in SideEffectErrors : GivesUp(c, "lock", err)
        BY <3>10 DEF LockGivesUp
      <4>2. "lock" \in IoPcs
        OBVIOUS
      <4> HIDE DEF TypeOK, IoPcs, SideEffectErrors
      <4> QED BY <4>1, <4>2, <3>6
    <3>11. CASE Ensure(c)
      <4>1. Typed
        BY <3>11, <3>4, <3>5 DEF Ensure
      <4> QED BY <3>11, <3>2, <4>1 DEF Ensure
    <3>12. CASE Clear(c)
      <4>1. CASE ClearEnds(c)
        BY <4>1, <3>5, <3>2 DEF ClearEnds
      <4> QED BY <3>12, <4>1, <3>6, <3>7 DEF Clear
    <3>13. CASE CheckCancelled(c)
      <4>1. got[c] \in BOOLEAN
        OBVIOUS
      <4>2. ASSUME IoReturns(c, Reply("cancelled", FALSE, got[c])) PROVE Typed
        BY <3>3, <4>1, <4>2 DEF Outcomes, ReadStatuses
      <4>3. Typed
        BY <3>13, <4>2, <3>5 DEF CheckCancelled
      <4> QED BY <3>13, <4>3, <3>2 DEF CheckCancelled
    <3>14. CASE Write(c)
      <4>1. CASE WriteSome(c)
        BY <4>1, <3>1 DEF WriteSome, Typed
      <4>2. CASE WriteDone(c)
        BY <4>2, <3>1, <3>5 DEF WriteDone
      <4>3. CASE FlushDone(c)
        <5>1. ASSUME IoReturns(c, Reply("ok", TRUE, FALSE)) PROVE Typed
          BY <3>3, <5>1 DEF Outcomes
        <5> QED BY <4>3, <5>1, <3>5, <3>2 DEF FlushDone
      <4>4. ASSUME NEW pc \in {"write", "flush"}, NEW err \in SideEffectErrors,
                   GivesUp(c, pc, err)
            PROVE TypeOK'
        <5>1. pc \in IoPcs
          OBVIOUS
        <5> HIDE DEF TypeOK, IoPcs, SideEffectErrors
        <5> QED BY <4>4, <5>1, <3>6
      <4> HIDE DEF TypeOK
      <4> QED BY <3>14, <4>1, <4>2, <4>3, <4>4 DEF Write
    <3>15. CASE Read(c)
      <4>1. ASSUME NEW status \in ReadStatuses, ReadEnds(c, status) PROVE TypeOK'
        <5>1. status \in Outcomes /\ got[c] \in BOOLEAN
          BY DEF Outcomes
        <5>2. IoReturns(c, Reply(status, ioOp[c] = "exec", got[c]))
          BY <4>1 DEF ReadEnds
        <5>3. Typed
          BY <5>1, <5>2, <3>3
        <5> QED BY <4>1, <5>3, <3>2 DEF ReadEnds
      <4> QED BY <3>15, <4>1, <3>6, <3>7 DEF Read
    <3> QED BY <2>3, <3>8, <3>9, <3>10, <3>11, <3>12, <3>13, <3>14, <3>15 DEF IoNext
  <2>4. ASSUME NEW c \in Ios, Cancel(c) PROVE TypeOK'
    BY <2>4 DEF Cancel
  <2>5. CASE UNCHANGED vars
    BY <2>5 DEF vars
  <2> QED BY <2>1, <2>2, <2>3, <2>4, <2>5 DEF Next
<1> QED BY <1>1, <1>2, PTL DEF Spec

-----------------------------------------------------------------------------
(* The session table, whatever the clients close *)

\* Nothing has happened to a session whose id was not drawn yet.
FreshUntouched ==
  \A s \in Opens : openPc[s] = "idle" =>
    /\ state[s] = "Absent"
    /\ \A k \in Closes : closeOf[k] = s => closePc[k] \notin {"wait", "finish"}
                                           /\ closeRes[k] # "ok"

\* A close has no answer before it is done.
CloseUnanswered == \A k \in Closes : closePc[k] # "done" => closeRes[k] # "ok"

\* The strengthening of the table's properties that every step preserves.
TableInv ==
  /\ PortIffReady
  /\ PathReserved
  /\ IsFiniteSet(Live) /\ CapRespected
  /\ NoOrphans
  /\ GoneIffClosed
  /\ FreshUntouched
  /\ CloseUnanswered

\* The steps of an I/O request leave the table, opens and closes alone.
LEMMA IoStepFrame ==
  ASSUME NEW c \in Ios, IoNext(c) \/ Cancel(c)
  PROVE  UNCHANGED <<state, portPath, hasPort, openPc, openRes, closePc, closeOf, closeRes,
                     ioOp, ioSid>>
<1>1. IoFrame => UNCHANGED <<state, portPath, hasPort, openPc, openRes, closePc, closeOf,
                             closeRes, ioOp, ioSid>>
  BY DEF IoFrame, tableVars, openVars, closeVars, callVars
<1>2. CASE Cancel(c)
  BY <1>2 DEF Cancel, tableVars, openVars, closeVars, callVars
<1>3. IoNext(c) => IoFrame
  BY DEF IoNext, Checkout, GivesUp, LockGranted, LockGivesUp, Ensure, Takes, ClearEnds, Clear,
         CheckCancelled, WriteSome, WriteDone, FlushDone, Write, ReadEnds, Read
<1> QED BY <1>1, <1>2, <1>3

\* A step that adds at most one reservation, and only below the cap, keeps the
\* table within the cap.
LEMMA CapStep ==
  ASSUME IsFiniteSet(Live), CapRespected, ConstantsAssumption,
         \/ Live' \subseteq Live
         \/ \E s : Live' = Live \cup {s} /\ ~AtCapacity
  PROVE  IsFiniteSet(Live)' /\ CapRespected'
<1>1. Cardinality(Live) \in Nat
  BY FS_CardinalityType
<1>2. CASE Live' \subseteq Live
  <2>1. IsFiniteSet(Live') /\ Cardinality(Live') <= Cardinality(Live)
    BY <1>2, FS_Subset
  <2>2. Cardinality(Live') \in Nat
    BY <2>1, FS_CardinalityType
  <2> QED BY <1>1, <2>1, <2>2 DEF CapRespected, ConstantsAssumption
<1>3. ASSUME NEW s, Live' = Live \cup {s}, ~AtCapacity
      PROVE  IsFiniteSet(Live)' /\ CapRespected'
  <2>1. IsFiniteSet(Live') /\ (Cardinality(Live') = Cardinality(Live)
                               \/ Cardinality(Live') = Cardinality(Live) + 1)
    BY <1>3, FS_AddElement
  <2> QED BY <1>1, <1>3, <2>1 DEF CapRespected, AtCapacity, ConstantsAssumption
<1> QED BY <1>2, <1>3

\* TableInv is kept by every step of an open.
LEMMA OpenKeepsTable ==
  ASSUME ConstantsAssumption, TypeOK, TableInv, NEW s \in Opens, OpenNext(s)
  PROVE  TableInv'
<1> USE DEF TypeOK, TableInv, Live, closeVars
<1>0. UNCHANGED <<closePc, closeOf, closeRes>> => CloseUnanswered'
  BY DEF CloseUnanswered
<1>1. CASE OpenRefuse(s)
  <2>1. UNCHANGED <<state, portPath, hasPort, closePc, closeOf, closeRes>>
    BY <1>1 DEF OpenRefuse, tableVars
  <2>2. openPc' = [openPc EXCEPT ![s] = "done"] /\ openPc[s] = "idle" /\ openRes'[s] # "ok"
        /\ \A t \in Opens \ {s} : openRes'[t] = openRes[t]
    BY <1>1 DEF OpenRefuse, OpenReturns, OpenRefusal
  <2>3. PortIffReady' /\ PathReserved' /\ IsFiniteSet(Live)' /\ CapRespected'
    BY <2>1 DEF PortIffReady, PathReserved, CapRespected
  <2>4. NoOrphans'
    BY <2>1, <2>2 DEF NoOrphans, FreshUntouched
  <2>5. GoneIffClosed'
    BY <2>1, <2>2 DEF GoneIffClosed, ClosedOk
  <2>6. FreshUntouched'
    BY <2>1, <2>2 DEF FreshUntouched
  <2> QED BY <1>0, <2>1, <2>3, <2>4, <2>5, <2>6
<1>2. CASE OpenReserve(s)
  <2>1. PICK p \in Paths : OpenRefusal(p) = "none" /\ portPath' = [portPath EXCEPT ![s] = p]
    BY <1>2 DEF OpenReserve
  <2>2. ~PathTaken(p) /\ ~AtCapacity
    BY <2>1 DEF OpenRefusal
  <2>3. /\ openPc[s] = "idle"
        /\ state'  = [state  EXCEPT ![s] = "Opening"]
        /\ openPc' = [openPc EXCEPT ![s] = "backend"]
        /\ UNCHANGED <<hasPort, openRes, closePc, closeOf, closeRes>>
    BY <1>2 DEF OpenReserve
  <2>4. state[s] = "Absent"
    BY <2>3 DEF FreshUntouched
  <2>5. Live' = Live \cup {s}
    BY <2>3
  <2>6. PortIffReady'
    BY <2>3, <2>4 DEF PortIffReady
  <2>7. PathReserved'
    BY <2>1, <2>2, <2>3, <2>5 DEF PathReserved, PathTaken
  <2>8. IsFiniteSet(Live)' /\ CapRespected'
    BY <2>2, <2>5, CapStep
  <2>9. NoOrphans'
    BY <2>3 DEF NoOrphans
  <2>10. GoneIffClosed'
    BY <2>3, <2>4 DEF GoneIffClosed, ClosedOk, FreshUntouched
  <2>11. FreshUntouched'
    BY <2>3 DEF FreshUntouched
  <2> QED BY <1>0, <2>3, <2>6, <2>7, <2>8, <2>9, <2>10, <2>11
<1>3. CASE OpenCommit(s) /\ state[s] # "Absent"
  <2>1. /\ openPc[s] = "backend"
        /\ state'   = [state   EXCEPT ![s] = "Ready"]
        /\ hasPort' = [hasPort EXCEPT ![s] = TRUE]
        /\ openPc'  = [openPc  EXCEPT ![s] = "done"]
        /\ openRes' = [openRes EXCEPT ![s] = "ok"]
        /\ UNCHANGED <<portPath, closePc, closeOf, closeRes>>
    BY <1>3 DEF OpenCommit, OpenReturns, transition_to_ready, Becomes
  <2>2. Live' = Live
    BY <1>3, <2>1
  <2>3. PortIffReady'
    BY <2>1 DEF PortIffReady
  <2>4. PathReserved' /\ IsFiniteSet(Live)' /\ CapRespected'
    BY <2>1, <2>2 DEF PathReserved, CapRespected
  <2>5. NoOrphans' /\ FreshUntouched'
    BY <2>1 DEF NoOrphans, FreshUntouched
  <2>6. GoneIffClosed'
    BY <1>3, <2>1 DEF GoneIffClosed, ClosedOk
  <2> QED BY <1>0, <2>1, <2>3, <2>4, <2>5, <2>6
<1>4. CASE OpenCommit(s) /\ state[s] = "Absent"
  <2>1. /\ openPc[s] = "backend"
        /\ openPc'  = [openPc  EXCEPT ![s] = "done"]
        /\ openRes' = [openRes EXCEPT ![s] = "SessionNotFound"]
        /\ UNCHANGED <<state, portPath, hasPort, closePc, closeOf, closeRes>>
    BY <1>4 DEF OpenCommit, OpenReturns
  <2>2. PortIffReady' /\ PathReserved' /\ IsFiniteSet(Live)' /\ CapRespected'
    BY <2>1 DEF PortIffReady, PathReserved, CapRespected
  <2>3. NoOrphans' /\ FreshUntouched'
    BY <1>4, <2>1 DEF NoOrphans, FreshUntouched
  <2>4. GoneIffClosed'
    BY <1>4, <2>1 DEF GoneIffClosed, ClosedOk
  <2> QED BY <1>0, <2>1, <2>2, <2>3, <2>4
<1>5. CASE OpenAbort(s)
  <2>1. /\ openPc[s] = "backend"
        /\ state'   = [state   EXCEPT ![s] = "Absent"]
        /\ hasPort' = [hasPort EXCEPT ![s] = FALSE]
        /\ openPc'  = [openPc  EXCEPT ![s] = "done"]
        /\ openRes'[s] # "ok"
        /\ \A t \in Opens \ {s} : openRes'[t] = openRes[t]
        /\ UNCHANGED <<portPath, closePc, closeOf, closeRes>>
    BY <1>5 DEF OpenAbort, OpenReturns, remove, Becomes
  <2>2. Live' \subseteq Live
    BY <2>1
  <2>3. PortIffReady' /\ PathReserved'
    BY <2>1, <2>2 DEF PortIffReady, PathReserved
  <2>4. IsFiniteSet(Live)' /\ CapRespected'
    BY <2>2, CapStep
  <2>5. NoOrphans' /\ FreshUntouched'
    BY <2>1 DEF NoOrphans, FreshUntouched
  <2>6. GoneIffClosed'
    BY <2>1 DEF GoneIffClosed, ClosedOk
  <2> QED BY <1>0, <2>1, <2>3, <2>4, <2>5, <2>6
<1> QED BY <1>1, <1>2, <1>3, <1>4, <1>5 DEF OpenNext

\* TableInv is kept by every step of a close.
LEMMA CloseKeepsTable ==
  ASSUME ConstantsAssumption, TypeOK, TableInv, NEW k \in Closes, CloseNext(k)
  PROVE  TableInv'
<1> USE DEF TypeOK, TableInv, Live, openVars
<1> DEFINE s == closeOf[k]
<1>0. s \in Opens
  OBVIOUS
<1>a. ASSUME \/ state[s] # "Absent" /\ state' = [state EXCEPT ![s] = "Ready"]
             \/ state[s] # "Absent" /\ state' = [state EXCEPT ![s] = "Closing"]
             \/ state' = [state EXCEPT ![s] = "Absent"]
             \/ state' = state,
             UNCHANGED portPath
      PROVE  PathReserved' /\ IsFiniteSet(Live)' /\ CapRespected'
  <2>1. Live' \subseteq Live
    BY <1>a, <1>0
  <2> QED BY <1>a, <2>1, CapStep DEF PathReserved
<1>1. CASE CloseRefuse(k)
  <2>1. /\ UNCHANGED <<state, portPath, hasPort, openPc, openRes, closeOf>>
        /\ closePc[k] = "idle" /\ closePc' = [closePc EXCEPT ![k] = "done"]
        /\ closeRes'[k] # "ok"
        /\ \A l \in Closes \ {k} : closeRes'[l] = closeRes[l]
    BY <1>1 DEF CloseRefuse, CloseReturns, tableVars
  <2>2. PathReserved' /\ IsFiniteSet(Live)' /\ CapRespected' /\ PortIffReady'
    BY <1>a, <2>1 DEF PortIffReady
  <2>3. NoOrphans' /\ FreshUntouched' /\ CloseUnanswered'
    BY <2>1 DEF NoOrphans, FreshUntouched, CloseUnanswered
  <2>4. GoneIffClosed'
    BY <2>1 DEF GoneIffClosed, ClosedOk, CloseUnanswered
  <2> QED BY <2>2, <2>3, <2>4
<1>2. CASE CloseBegin(k)
  <2>1. /\ closePc[k] = "idle"
        /\ state[s] # "Absent"
        /\ state'   = [state   EXCEPT ![s] = "Closing"]
        /\ hasPort' = [hasPort EXCEPT ![s] = FALSE]
        /\ \E pc \in {"wait", "finish"} : closePc' = [closePc EXCEPT ![k] = pc]
        /\ UNCHANGED <<portPath, openPc, openRes, closeOf, closeRes>>
    BY <1>2 DEF CloseBegin, begin_close, Becomes
  <2>2. PathReserved' /\ IsFiniteSet(Live)' /\ CapRespected'
    BY <1>a, <2>1
  <2>3. PortIffReady' /\ CloseUnanswered'
    BY <2>1 DEF PortIffReady, CloseUnanswered
  <2>4. NoOrphans'
    BY <2>1 DEF NoOrphans
  <2>5. GoneIffClosed'
    BY <2>1 DEF GoneIffClosed, ClosedOk
  <2>6. FreshUntouched'
    BY <2>1 DEF FreshUntouched
  <2> QED BY <2>2, <2>3, <2>4, <2>5, <2>6
<1>3. CASE CloseAcquire(k)
  <2>1. /\ closePc[k] = "wait"
        /\ closePc' = [closePc EXCEPT ![k] = "finish"]
        /\ UNCHANGED <<state, hasPort, portPath, openPc, openRes, closeOf, closeRes>>
    BY <1>3 DEF CloseAcquire, tableVars
  <2>2. PathReserved' /\ IsFiniteSet(Live)' /\ CapRespected'
    BY <1>a, <2>1
  <2>3. PortIffReady' /\ CloseUnanswered' /\ GoneIffClosed'
    BY <2>1 DEF PortIffReady, CloseUnanswered, GoneIffClosed, ClosedOk
  <2>4. NoOrphans' /\ FreshUntouched'
    BY <2>1 DEF NoOrphans, FreshUntouched
  <2> QED BY <2>2, <2>3, <2>4
<1>4. CASE CloseTimeout(k)
  <2>1. /\ closePc[k] = "wait"
        /\ closePc'  = [closePc  EXCEPT ![k] = "done"]
        /\ closeRes' = [closeRes EXCEPT ![k] = "Timeout"]
        /\ UNCHANGED <<portPath, openPc, openRes, closeOf>>
        /\ \/ state[s] = "Absent" /\ UNCHANGED <<state, hasPort>>
           \/ /\ state[s] # "Absent"
              /\ state'   = [state   EXCEPT ![s] = "Ready"]
              /\ hasPort' = [hasPort EXCEPT ![s] = TRUE]
    BY <1>4 DEF CloseTimeout, CloseReturns, restore_ready, Becomes
  <2>2. PathReserved' /\ IsFiniteSet(Live)' /\ CapRespected'
    BY <1>a, <2>1
  <2>3. PortIffReady' /\ CloseUnanswered'
    BY <2>1 DEF PortIffReady, CloseUnanswered
  <2>4. NoOrphans'
    BY <2>1 DEF NoOrphans
  <2>5. GoneIffClosed'
    BY <2>1 DEF GoneIffClosed, ClosedOk, CloseUnanswered
  <2>6. FreshUntouched'
    BY <2>1 DEF FreshUntouched
  <2> QED BY <2>2, <2>3, <2>4, <2>5, <2>6
<1>5. CASE CloseFinish(k)
  <2>1. /\ closePc[k] = "finish"
        /\ closePc'  = [closePc  EXCEPT ![k] = "done"]
        /\ closeRes' = [closeRes EXCEPT ![k] = "ok"]
        /\ state'    = [state    EXCEPT ![s] = "Absent"]
        /\ hasPort'  = [hasPort  EXCEPT ![s] = FALSE]
        /\ UNCHANGED <<portPath, openPc, openRes, closeOf>>
    BY <1>5 DEF CloseFinish, CloseReturns, remove, Becomes
  <2>2. PathReserved' /\ IsFiniteSet(Live)' /\ CapRespected'
    BY <1>a, <2>1
  <2>3. PortIffReady' /\ CloseUnanswered'
    BY <2>1 DEF PortIffReady, CloseUnanswered
  <2>4. NoOrphans'
    BY <2>1 DEF NoOrphans
  <2>5. GoneIffClosed'
    BY <2>1 DEF GoneIffClosed, ClosedOk
  <2>6. FreshUntouched'
    BY <2>1 DEF FreshUntouched
  <2> QED BY <2>2, <2>3, <2>4, <2>5, <2>6
<1> QED BY <1>1, <1>2, <1>3, <1>4, <1>5 DEF CloseNext

\* TableInv holds initially.
LEMMA TableInit == Init => TableInv
<1> SUFFICES ASSUME Init PROVE TableInv
  OBVIOUS
<1>1. Live = {}
  BY DEF Init, Live
<1>2. IsFiniteSet(Live) /\ CapRespected
  BY <1>1, FS_EmptySet, ConstantsAssumption DEF CapRespected
<1>3. PortIffReady /\ PathReserved /\ NoOrphans
  BY <1>1 DEF Init, PortIffReady, PathReserved, NoOrphans
<1>4. GoneIffClosed /\ FreshUntouched /\ CloseUnanswered
  BY DEF Init, GoneIffClosed, ClosedOk, FreshUntouched, CloseUnanswered
<1> QED BY <1>2, <1>3, <1>4 DEF TableInv

\* Every step keeps TableInv.
LEMMA TableStep == TypeOK /\ TableInv /\ [Next]_vars => TableInv'
<1> SUFFICES ASSUME TypeOK, TableInv, [Next]_vars PROVE TableInv'
  OBVIOUS
<1>1. ASSUME UNCHANGED <<state, portPath, hasPort, openPc, openRes, closePc, closeOf, closeRes>>
      PROVE  TableInv'
  <2>1. Live' = Live
    BY <1>1 DEF Live
  <2> QED BY <1>1, <2>1 DEF TableInv, PortIffReady, PathReserved, CapRespected, NoOrphans,
                            GoneIffClosed, ClosedOk, FreshUntouched, CloseUnanswered
<1>2. ASSUME NEW s \in Opens, OpenNext(s) PROVE TableInv'
  BY <1>2, OpenKeepsTable, ConstantsAssumption
<1>3. ASSUME NEW k \in Closes, CloseNext(k) PROVE TableInv'
  BY <1>3, CloseKeepsTable, ConstantsAssumption
<1>4. ASSUME NEW c \in Ios, IoNext(c) \/ Cancel(c) PROVE TableInv'
  BY <1>4, <1>1, IoStepFrame
<1>5. CASE UNCHANGED vars
  BY <1>5, <1>1 DEF vars, tableVars, openVars, closeVars
<1> QED BY <1>2, <1>3, <1>4, <1>5 DEF Next

\* The table's properties hold in every behaviour, whatever clients do.
THEOREM TableSafe ==
  Spec => [](PortIffReady /\ PathReserved /\ CapRespected /\ NoOrphans /\ GoneIffClosed)
<1>1. TableInv => PortIffReady /\ PathReserved /\ CapRespected /\ NoOrphans /\ GoneIffClosed
  BY DEF TableInv
<1> QED BY <1>1, TableInit, TableStep, TypeCorrect, PTL DEF Spec

-----------------------------------------------------------------------------
(* The device, when no client closes a session that is still Opening *)

Resolving(k) == closePc[k] \in {"wait", "finish"}

\* A request past lock_port holds its port's lock.
LockHeld == \A c \in Ios : ioPc[c] = "ensure" \/ InIo(c) => holder[ioSid[c]] = c

\* What an open or a close left in the table when it started to wait is still
\* there, so at most one close resolves a session.
Undisturbed ==
  /\ \A s \in Opens  : openPc[s] = "backend" => state[s] = "Opening"
  /\ \A k \in Closes : Resolving(k) => state[closeOf[k]] = "Closing"
  /\ \A k, l \in Closes : Resolving(k) /\ Resolving(l) /\ closeOf[k] = closeOf[l] => k = l

\* A session is not removed under a request that performs I/O on it: its close
\* is past the wait for the lock only when no such request is left.
IoAlive ==
  /\ \A c \in Ios : InIo(c) => state[ioSid[c]] \in {"Ready", "Closing"}
  /\ \A k \in Closes, c \in Ios : closePc[k] = "finish" /\ ioSid[c] = closeOf[k] => ~InIo(c)

WireInv == LockHeld /\ Undisturbed /\ IoAlive

\* The step of an I/O request answers it, queues it, gives it the lock, lets it
\* into the exchange, or continues the exchange.
IoAnswers(c) ==
  /\ ioPc' = [ioPc EXCEPT ![c] = "done"]
  /\ holder' = [holder EXCEPT ![ioSid[c]] = IF @ = c THEN None ELSE @]
IoQueues(c) ==
  /\ ioPc' = [ioPc EXCEPT ![c] = "lock"]
  /\ UNCHANGED holder
IoLocks(c) ==
  /\ holder[ioSid[c]] = None
  /\ ioPc' = [ioPc EXCEPT ![c] = "ensure"]
  /\ holder' = [holder EXCEPT ![ioSid[c]] = c]
IoEnters(c) ==
  /\ ioPc[c] = "ensure"
  /\ state[ioSid[c]] = "Ready"
  /\ \E pc \in OnWire : ioPc' = [ioPc EXCEPT ![c] = pc]
  /\ UNCHANGED holder
IoContinues(c) ==
  /\ InIo(c)
  /\ \E pc \in OnWire : ioPc' = [ioPc EXCEPT ![c] = pc]
  /\ UNCHANGED holder

\* Every step of an I/O request has one of the shapes above.
LEMMA IoStepShape ==
  ASSUME TypeOK, ConstantsAssumption, NEW c \in Ios, IoNext(c)
  PROVE  IoAnswers(c) \/ IoQueues(c) \/ IoLocks(c) \/ IoEnters(c) \/ IoContinues(c)
<1>1. ASSUME NEW reply, IoReturns(c, reply) PROVE IoAnswers(c)
  BY <1>1 DEF IoReturns, IoAnswers
<1>2. ASSUME NEW err, IoFails(c, err) PROVE IoAnswers(c)
  BY <1>1, <1>2 DEF IoFails
<1>3. ASSUME NEW pc, NEW err, GivesUp(c, pc, err) PROVE IoAnswers(c)
  BY <1>2, <1>3 DEF GivesUp
<1>4. ASSUME NEW pc \in {"clear", "read"}, Takes(c, pc) PROVE IoContinues(c)
  <2>1. ioPc[c] = pc /\ UNCHANGED <<ioPc, holder>> /\ ioPc \in [Ios -> IoPcs]
    BY <1>4 DEF Takes, TypeOK
  <2>2. ioPc' = [ioPc EXCEPT ![c] = pc] /\ pc \in OnWire
    BY <2>1 DEF OnWire
  <2> QED BY <2>1, <2>2 DEF IoContinues, InIo, OnWire
<1>5. ASSUME InIo(c), NEW pc \in OnWire, GoTo(c, pc) PROVE IoContinues(c)
  BY <1>5 DEF IoContinues, GoTo
<1>6. CASE Checkout(c)
  <2>1. CASE GoTo(c, "lock")
    BY <2>1 DEF GoTo, IoQueues
  <2> QED BY <1>6, <2>1, <1>1, <1>2 DEF Checkout
<1>7. CASE LockGranted(c)
  BY <1>7 DEF LockGranted, IoLocks
<1>8. CASE Ensure(c)
  <2>1. ASSUME state[ioSid[c]] = "Ready", NEW pc \in OnWire, GoTo(c, pc) PROVE IoEnters(c)
    BY <1>8, <2>1 DEF Ensure, GoTo, IoEnters
  <2>2. "read" \in OnWire /\ "write" \in OnWire /\ "clear" \in OnWire /\ "check" \in OnWire
    BY DEF OnWire
  <2> QED BY <1>8, <1>2, <2>1, <2>2 DEF Ensure
<1>9. CASE LockGivesUp(c)
  BY <1>9, <1>3 DEF LockGivesUp
<1>10. CASE Clear(c)
  <2>1. CASE ClearEnds(c)
    BY <2>1, <1>5 DEF ClearEnds, InIo, OnWire
  <2> QED BY <1>10, <2>1, <1>3, <1>4 DEF Clear
<1>11. CASE CheckCancelled(c)
  BY <1>11, <1>1, <1>5 DEF CheckCancelled, InIo, OnWire
<1>12. CASE Write(c)
  <2>1. CASE WriteSome(c)
    <3>1. ioPc[c] = "write" /\ UNCHANGED <<ioPc, holder>> /\ ioPc \in [Ios -> IoPcs]
      BY <2>1 DEF WriteSome, TypeOK
    <3>2. ioPc' = [ioPc EXCEPT ![c] = "write"] /\ "write" \in OnWire
      BY <3>1 DEF OnWire
    <3> QED BY <3>1, <3>2 DEF IoContinues, InIo
  <2>2. CASE WriteDone(c)
    BY <2>2, <1>5 DEF WriteDone, InIo, OnWire
  <2>3. CASE FlushDone(c)
    BY <2>3, <1>1, <1>5 DEF FlushDone, InIo, OnWire
  <2> QED BY <1>12, <2>1, <2>2, <2>3, <1>3 DEF Write
<1>13. CASE Read(c)
  <2>1. ASSUME NEW status, ReadEnds(c, status) PROVE IoAnswers(c)
    BY <2>1, <1>1 DEF ReadEnds
  <2> QED BY <1>13, <2>1, <1>3, <1>4 DEF Read
<1> QED BY <1>6, <1>7, <1>8, <1>9, <1>10, <1>11, <1>12, <1>13 DEF IoNext

\* WireInv is kept by every step of an open: an open resolves only its own
\* session, which no close and no I/O request has got hold of yet.
LEMMA OpenKeepsWire ==
  ASSUME TypeOK, TableInv, WireInv, NEW s \in Opens, OpenNext(s)
  PROVE  WireInv'
<1> USE DEF TypeOK, WireInv
<1>1. /\ UNCHANGED <<ioPc, ioSid, holder, closePc, closeOf>>
      /\ \A t \in Opens \ {s} : state'[t] = state[t] /\ openPc'[t] = openPc[t]
  BY DEF OpenNext, OpenRefuse, OpenReserve, OpenCommit, OpenAbort, OpenReturns, Becomes,
         transition_to_ready, remove, tableVars, closeVars, ioVars, callVars
<1>2. LockHeld'
  BY <1>1 DEF LockHeld, InIo
<1>3. /\ \A k \in Closes : Resolving(k) => closeOf[k] # s \/ state'[s] = state[s]
      /\ \A c \in Ios : InIo(c) => ioSid[c] # s \/ state'[s] = state[s] \/ state'[s] = "Ready"
  <2>1. CASE OpenRefuse(s)
    BY <2>1 DEF OpenRefuse, tableVars
  <2>2. CASE OpenReserve(s)
    BY <2>2 DEF OpenReserve, TableInv, FreshUntouched, Resolving, IoAlive
  <2>3. CASE OpenCommit(s)
    BY <2>3 DEF OpenCommit, Undisturbed, Becomes, transition_to_ready
  <2>4. CASE OpenAbort(s)
    BY <2>4 DEF OpenAbort, Undisturbed, IoAlive
  <2> QED BY <2>1, <2>2, <2>3, <2>4 DEF OpenNext
<1>4. openPc'[s] = "backend" => state'[s] = "Opening"
  BY DEF OpenNext, OpenRefuse, OpenReserve, OpenCommit, OpenAbort, OpenReturns
<1>5. Undisturbed'
  BY <1>1, <1>3, <1>4 DEF Undisturbed, Resolving
<1>6. IoAlive'
  BY <1>1, <1>3 DEF IoAlive, InIo
<1> QED BY <1>2, <1>5, <1>6

\* WireInv is kept by every step of a close: the wait for the lock ends only
\* when no request is in its exchange, and no request enters one meanwhile.
LEMMA CloseKeepsWire ==
  ASSUME ~ClosesOpening, ConstantsAssumption, TypeOK, TableInv, WireInv,
         NEW k \in Closes, CloseNext(k)
  PROVE  WireInv'
<1> USE DEF TypeOK, WireInv, Resolving
<1> DEFINE s == closeOf[k]
<1>0. s \in Opens
  OBVIOUS
<1>1. UNCHANGED <<ioPc, ioSid, holder, openPc, closeOf>>
  BY DEF CloseNext, CloseRefuse, CloseBegin, CloseAcquire, CloseTimeout, CloseFinish,
         openVars, ioVars, callVars
<1>2. LockHeld'
  BY <1>1 DEF LockHeld, InIo
<1>3. CASE CloseRefuse(k)
  <2>1. UNCHANGED state /\ closePc' = [closePc EXCEPT ![k] = "done"]
    BY <1>3 DEF CloseRefuse, CloseReturns, tableVars
  <2> QED BY <1>1, <1>2, <2>1 DEF Undisturbed, IoAlive, InIo
<1>4. CASE CloseBegin(k)
  <2>1. /\ closePc[k] = "idle"
        /\ state[s] = "Ready"
        /\ state' = [state EXCEPT ![s] = "Closing"]
        /\ closePc' = [closePc EXCEPT ![k] = "wait"]
    BY <1>4 DEF CloseBegin, begin_close, Becomes, TableInv, PortIffReady
  <2>2. Undisturbed'
    BY <1>1, <2>1 DEF Undisturbed
  <2>3. IoAlive'
    BY <1>1, <2>1 DEF IoAlive, InIo
  <2> QED BY <1>2, <2>2, <2>3
<1>5. CASE CloseAcquire(k)
  <2>1. /\ closePc[k] = "wait" /\ holder[s] = None
        /\ closePc' = [closePc EXCEPT ![k] = "finish"]
        /\ UNCHANGED state
    BY <1>5 DEF CloseAcquire, tableVars
  <2>2. \A c \in Ios : ioSid[c] = s => ~InIo(c)
    BY <2>1 DEF LockHeld, ConstantsAssumption
  <2>3. Undisturbed'
    BY <1>1, <2>1 DEF Undisturbed
  <2>4. IoAlive'
    BY <1>1, <2>1, <2>2 DEF IoAlive, InIo
  <2> QED BY <1>2, <2>3, <2>4
<1>6. CASE CloseTimeout(k)
  <2>1. /\ closePc[k] = "wait"
        /\ closePc' = [closePc EXCEPT ![k] = "done"]
        /\ state' = [state EXCEPT ![s] = "Ready"]
    BY <1>6 DEF CloseTimeout, CloseReturns, restore_ready, Becomes, Undisturbed
  <2>2. Undisturbed'
    BY <1>1, <2>1 DEF Undisturbed
  <2>3. IoAlive'
    BY <1>1, <2>1 DEF IoAlive, InIo
  <2> QED BY <1>2, <2>2, <2>3
<1>7. CASE CloseFinish(k)
  <2>1. /\ closePc[k] = "finish"
        /\ closePc' = [closePc EXCEPT ![k] = "done"]
        /\ state' = [state EXCEPT ![s] = "Absent"]
    BY <1>7 DEF CloseFinish, CloseReturns, remove, Becomes
  <2>2. Undisturbed'
    BY <1>1, <2>1 DEF Undisturbed
  <2>3. IoAlive'
    BY <1>1, <2>1 DEF IoAlive, InIo
  <2> QED BY <1>2, <2>2, <2>3
<1> QED BY <1>3, <1>4, <1>5, <1>6, <1>7 DEF CloseNext

\* WireInv is kept by every step of an I/O request.
LEMMA IoKeepsWire ==
  ASSUME ConstantsAssumption, TypeOK, WireInv, NEW c \in Ios, IoNext(c)
  PROVE  WireInv'
<1> USE DEF TypeOK, WireInv, ConstantsAssumption
<1>1. UNCHANGED <<state, openPc, closePc, closeOf, ioSid>>
  BY IoStepFrame
<1>2. Undisturbed'
  BY <1>1 DEF Undisturbed, Resolving
<1>3. CASE IoAnswers(c) \/ IoQueues(c)
  <2>1. LockHeld'
    BY <1>1, <1>3 DEF LockHeld, InIo, IoAnswers, IoQueues, OnWire
  <2>2. IoAlive'
    BY <1>1, <1>3 DEF IoAlive, InIo, IoAnswers, IoQueues, OnWire
  <2> QED BY <1>2, <2>1, <2>2
<1>4. CASE IoLocks(c)
  <2>1. LockHeld'
    BY <1>1, <1>4 DEF LockHeld, InIo, IoLocks
  <2>2. IoAlive'
    BY <1>1, <1>4 DEF IoAlive, InIo, IoLocks, OnWire
  <2> QED BY <1>2, <2>1, <2>2
<1>5. CASE IoEnters(c)
  <2>1. LockHeld'
    BY <1>1, <1>5 DEF LockHeld, InIo, IoEnters
  <2>2. IoAlive'
    BY <1>1, <1>5 DEF IoAlive, InIo, IoEnters, Undisturbed, Resolving
  <2> QED BY <1>2, <2>1, <2>2
<1>6. CASE IoContinues(c)
  <2>1. LockHeld'
    BY <1>1, <1>6 DEF LockHeld, InIo, IoContinues
  <2>2. IoAlive'
    BY <1>1, <1>6 DEF IoAlive, InIo, IoContinues
  <2> QED BY <1>2, <2>1, <2>2
<1> QED BY <1>3, <1>4, <1>5, <1>6, IoStepShape

\* Every step keeps WireInv.
LEMMA WireStep ==
  ASSUME ~ClosesOpening
  PROVE  TypeOK /\ TableInv /\ WireInv /\ [Next]_vars => WireInv'
<1> SUFFICES ASSUME TypeOK, TableInv, WireInv, [Next]_vars PROVE WireInv'
  OBVIOUS
<1>1. ASSUME UNCHANGED <<state, holder, openPc, closePc, closeOf, ioPc, ioSid>> PROVE WireInv'
  BY <1>1 DEF WireInv, LockHeld, Undisturbed, IoAlive, Resolving, InIo
<1>2. ASSUME NEW s \in Opens, OpenNext(s) PROVE WireInv'
  BY <1>2, OpenKeepsWire
<1>3. ASSUME NEW k \in Closes, CloseNext(k) PROVE WireInv'
  BY <1>3, CloseKeepsWire, ConstantsAssumption
<1>4. ASSUME NEW c \in Ios, IoNext(c) PROVE WireInv'
  BY <1>4, IoKeepsWire, ConstantsAssumption
<1>5. ASSUME NEW c \in Ios, Cancel(c) PROVE WireInv'
  BY <1>5, <1>1 DEF Cancel, tableVars, openVars, closeVars, callVars
<1>6. CASE UNCHANGED vars
  BY <1>6, <1>1 DEF vars, tableVars, openVars, closeVars, ioVars, callVars
<1> QED BY <1>2, <1>3, <1>4, <1>5, <1>6 DEF Next

\* If no client closes a session it still sees Opening, the debug assertions of
\* session.rs hold, exchanges on one device path never overlap and no request
\* performs I/O after a close of its session answered ok.
THEOREM WireSafe ==
  ASSUME ~ClosesOpening
  PROVE  Spec => [](TransitionAsserts /\ ExchangeExclusive /\ NoIoAfterClose)
<1>1. Init => WireInv
  BY DEF Init, WireInv, LockHeld, Undisturbed, IoAlive, Resolving, InIo, OnWire
<1>2. TypeOK /\ TableInv /\ WireInv /\ [Next]_vars => WireInv'
  BY WireStep
<1>3. TypeOK /\ TableInv /\ WireInv => TransitionAsserts /\ ExchangeExclusive /\ NoIoAfterClose
  <2> SUFFICES ASSUME TypeOK, TableInv, WireInv
               PROVE  TransitionAsserts /\ ExchangeExclusive /\ NoIoAfterClose
    OBVIOUS
  <2>1. TransitionAsserts
    BY DEF TransitionAsserts, WireInv, Undisturbed, Resolving
  <2>2. ExchangeExclusive
    <3> SUFFICES ASSUME NEW c \in Ios, NEW d \in Ios, InIo(c), InIo(d),
                        portPath[ioSid[c]] = portPath[ioSid[d]]
                 PROVE  c = d
      BY DEF ExchangeExclusive
    <3>1. ioSid[c] \in Live /\ ioSid[d] \in Live
      BY DEF WireInv, IoAlive, TypeOK, Live
    <3>2. ioSid[c] = ioSid[d]
      BY <3>1 DEF TableInv, PathReserved
    <3> QED BY <3>2 DEF WireInv, LockHeld
  <2>3. NoIoAfterClose
    BY DEF NoIoAfterClose, WireInv, IoAlive, TableInv, GoneIffClosed, ClosedOk, TypeOK
  <2> QED BY <2>1, <2>2, <2>3
<1> QED BY <1>1, <1>2, <1>3, TableInit, TableStep, TypeCorrect, PTL DEF Spec

-----------------------------------------------------------------------------
(* Replies *)

\* What request c can have done to the device by the time it reaches each pc.
Traffic(c) ==
  /\ ioPc[c] \in {"idle", "lock", "ensure"} => sent[c] = "none" /\ ~got[c]
  /\ ioPc[c] \in {"clear", "check"} => ioOp[c] = "exec" /\ sent[c] = "none"
  /\ ioPc[c] \in {"write", "flush"} => ioOp[c] # "read" /\ (ioOp[c] = "write" => ~got[c])
  /\ ioPc[c] = "flush" => sent[c] = "all"
  /\ ioPc[c] = "read"  => /\ ioOp[c] # "write"
                          /\ sent[c] = IF ioOp[c] = "exec" THEN "all" ELSE "none"

HonestFor(c) ==
  ioPc[c] = "done" =>
    /\ sent[c] # "none" => ioRes[c].written
    /\ got[c] => ioRes[c].consumed
    /\ ioRes[c].written /\ ~possible_serial_side_effect(ioRes[c].out) => sent[c] = "all"

TrafficInv == \A c \in Ios : Traffic(c) /\ HonestFor(c)

\* Every step of request c keeps its own part of TrafficInv.
LEMMA IoKeepsTraffic ==
  ASSUME ConstantsAssumption, TypeOK, NEW c \in Ios, Traffic(c), HonestFor(c), IoNext(c)
  PROVE  Traffic(c)' /\ HonestFor(c)'
<1> USE DEF TypeOK, Traffic, HonestFor, wireVars
<1>1. ioOp'[c] = ioOp[c] /\ ioOp[c] \in {"write", "read", "exec"}
  BY IoStepFrame DEF ConstantsAssumption
<1>2. ASSUME NEW out, NEW w \in BOOLEAN, NEW r \in BOOLEAN, IoReturns(c, Reply(out, w, r)),
             UNCHANGED wireVars,
             sent[c] # "none" => w, got[c] => r,
             w /\ ~possible_serial_side_effect(out) => sent[c] = "all"
      PROVE  Traffic(c)' /\ HonestFor(c)'
  BY <1>2 DEF IoReturns, Reply, possible_serial_side_effect
<1>3. ASSUME NEW err, IoFails(c, err), UNCHANGED wireVars,
             \/ sent[c] = "none" /\ ~got[c]
             \/ /\ err \in SideEffectErrors
                /\ ioOp[c] = "read" => sent[c] = "none"
                /\ ioOp[c] = "write" => ~got[c]
      PROVE  Traffic(c)' /\ HonestFor(c)'
  <2> DEFINE w == ioOp[c] # "read"  /\ possible_serial_side_effect(err)
             r == ioOp[c] # "write" /\ possible_serial_side_effect(err)
  <2>1. /\ w \in BOOLEAN /\ r \in BOOLEAN
        /\ sent[c] # "none" => w
        /\ got[c] => r
        /\ ~(w /\ ~possible_serial_side_effect(err))
    BY <1>1, <1>3 DEF possible_serial_side_effect
  <2>2. IoReturns(c, Reply(err, w, r))
    BY <1>3 DEF IoFails, tool_error
  <2> HIDE DEF w, r
  <2> QED BY <1>2, <1>3, <2>1, <2>2
<1>4. ASSUME NEW pc \in {"lock", "clear", "write", "flush", "read"},
             NEW err \in SideEffectErrors, GivesUp(c, pc, err)
      PROVE  Traffic(c)' /\ HonestFor(c)'
  <2>1. /\ ioPc[c] = pc /\ IoFails(c, err) /\ UNCHANGED wireVars
        /\ ioOp[c] = "read" => sent[c] = "none"
        /\ ioOp[c] = "write" => ~got[c]
    BY <1>1, <1>4 DEF GivesUp
  <2> QED BY <2>1, <1>3
<1>5. ASSUME NEW pc \in {"clear", "read"}, Takes(c, pc) PROVE Traffic(c)' /\ HonestFor(c)'
  BY <1>1, <1>5 DEF Takes
<1>6. CASE Checkout(c)
  <2>1. ioPc[c] = "idle" /\ UNCHANGED wireVars
    BY <1>6 DEF Checkout
  <2>2. CASE GoTo(c, "lock")
    BY <1>1, <2>1, <2>2 DEF GoTo
  <2>3. CASE IoReturns(c, Reply("cancelled", FALSE, FALSE))
    BY <1>2, <2>1, <2>3
  <2> QED BY <1>6, <2>1, <2>2, <2>3, <1>3 DEF Checkout
<1>7. CASE LockGranted(c)
  BY <1>1, <1>7 DEF LockGranted
<1>8. CASE LockGivesUp(c)
  <2>1. PICK err \in SideEffectErrors : GivesUp(c, "lock", err)
    BY <1>8 DEF LockGivesUp, SideEffectErrors
  <2> HIDE DEF Traffic, HonestFor
  <2> QED BY <2>1, <1>4
<1>9. CASE Ensure(c)
  <2>1. ioPc[c] = "ensure" /\ UNCHANGED wireVars
    BY <1>9 DEF Ensure
  <2>2. ASSUME NEW pc \in {"clear", "check", "write", "read"}, GoTo(c, pc),
               pc \in {"clear", "check"} => ioOp[c] = "exec",
               pc \in {"read", "write"} => ioOp[c] = pc
        PROVE  Traffic(c)' /\ HonestFor(c)'
    BY <1>1, <2>1, <2>2 DEF GoTo
  <2>3. ASSUME NEW err, IoFails(c, err) PROVE Traffic(c)' /\ HonestFor(c)'
    BY <2>1, <2>3, <1>3
  <2> HIDE DEF Traffic, HonestFor
  <2> QED BY <1>1, <1>9, <2>2, <2>3 DEF Ensure
<1>10. CASE Clear(c)
  <2>1. CASE ClearEnds(c)
    BY <1>1, <2>1 DEF ClearEnds, GoTo
  <2>2. "Io" \in SideEffectErrors
    BY DEF SideEffectErrors
  <2> HIDE DEF Traffic, HonestFor
  <2> QED BY <1>10, <2>1, <2>2, <1>4, <1>5 DEF Clear
<1>11. CASE CheckCancelled(c)
  <2>1. ioPc[c] = "check" /\ UNCHANGED wireVars /\ got[c] \in BOOLEAN
    BY <1>11 DEF CheckCancelled
  <2>2. CASE IoReturns(c, Reply("cancelled", FALSE, got[c]))
    BY <1>2, <2>1, <2>2
  <2>3. CASE GoTo(c, "write")
    BY <1>1, <2>1, <2>3 DEF GoTo
  <2> QED BY <1>11, <2>2, <2>3 DEF CheckCancelled
<1>12. CASE Write(c)
  <2>1. CASE WriteSome(c)
    BY <1>1, <2>1 DEF WriteSome
  <2>2. CASE WriteDone(c)
    BY <1>1, <2>2 DEF WriteDone, GoTo
  <2>3. CASE FlushDone(c)
    <3>1. ioPc[c] = "flush" /\ UNCHANGED wireVars
      BY <2>3 DEF FlushDone
    <3>2. CASE ioOp[c] = "write" /\ IoReturns(c, Reply("ok", TRUE, FALSE))
      BY <1>2, <3>1, <3>2
    <3>3. CASE ioOp[c] = "exec" /\ GoTo(c, "read")
      BY <1>1, <3>1, <3>3 DEF GoTo
    <3> QED BY <2>3, <3>2, <3>3 DEF FlushDone
  <2> HIDE DEF Traffic, HonestFor
  <2> QED BY <1>12, <2>1, <2>2, <2>3, <1>4 DEF Write
<1>13. CASE Read(c)
  <2>1. ASSUME NEW status, ReadEnds(c, status) PROVE Traffic(c)' /\ HonestFor(c)'
    <3>1. /\ ioPc[c] = "read" /\ UNCHANGED wireVars /\ got[c] \in BOOLEAN
          /\ (ioOp[c] = "exec") \in BOOLEAN
          /\ IoReturns(c, Reply(status, ioOp[c] = "exec", got[c]))
      BY <2>1 DEF ReadEnds
    <3> QED BY <1>2, <3>1
  <2>2. "Io" \in SideEffectErrors
    BY DEF SideEffectErrors
  <2> HIDE DEF Traffic, HonestFor
  <2> QED BY <1>13, <2>1, <2>2, <1>4, <1>5 DEF Read
<1> QED BY <1>6, <1>7, <1>8, <1>9, <1>10, <1>11, <1>12, <1>13 DEF IoNext

\* A request's step leaves every other request's record alone.
LEMMA IoTouchesOwn ==
  ASSUME TypeOK, NEW c \in Ios, IoNext(c), NEW d \in Ios, d # c
  PROVE  /\ ioPc'[d] = ioPc[d] /\ ioOp'[d] = ioOp[d] /\ ioRes'[d] = ioRes[d]
         /\ sent'[d] = sent[d] /\ got'[d] = got[d]
<1> USE DEF TypeOK, wireVars
<1>1. ioOp'[d] = ioOp[d]
  BY IoStepFrame
<1>2. ioPc'[d] = ioPc[d] /\ ioRes'[d] = ioRes[d]
  <2> DEFINE Kept == ioPc'[d] = ioPc[d] /\ ioRes'[d] = ioRes[d]
  <2>1. \A reply : IoReturns(c, reply) => Kept
    BY DEF IoReturns
  <2>2. \A err : IoFails(c, err) => Kept
    BY <2>1 DEF IoFails
  <2>3. \A pc : GoTo(c, pc) => Kept
    BY DEF GoTo
  <2>4. \A pc, err : GivesUp(c, pc, err) => Kept
    BY <2>2 DEF GivesUp
  <2>5. \A pc : Takes(c, pc) => Kept
    BY DEF Takes
  <2>6. LockGranted(c) \/ WriteSome(c) => Kept
    BY DEF LockGranted, WriteSome
  <2> HIDE DEF Kept, TypeOK
  <2>7. Checkout(c) \/ Ensure(c) \/ CheckCancelled(c) => Kept
    BY <2>1, <2>2, <2>3 DEF Checkout, Ensure, CheckCancelled
  <2>8. LockGivesUp(c) \/ Clear(c) => Kept
    BY <2>3, <2>4, <2>5 DEF LockGivesUp, Clear, ClearEnds
  <2>9. Write(c) => Kept
    BY <2>1, <2>3, <2>4, <2>6 DEF Write, WriteDone, FlushDone
  <2>10. Read(c) => Kept
    BY <2>1, <2>4, <2>5 DEF Read, ReadEnds
  <2> QED BY <2>6, <2>7, <2>8, <2>9, <2>10 DEF IoNext, Kept
<1>3. sent'[d] = sent[d] /\ got'[d] = got[d]
  <2>1. CASE UNCHANGED wireVars
    BY <2>1
  <2>2. ASSUME NEW pc, Takes(c, pc) PROVE sent'[d] = sent[d] /\ got'[d] = got[d]
    BY <2>2 DEF Takes
  <2>3. CASE WriteSome(c) \/ WriteDone(c)
    BY <2>3 DEF WriteSome, WriteDone
  <2>4. \/ UNCHANGED wireVars \/ WriteSome(c) \/ WriteDone(c)
        \/ Takes(c, "clear") \/ Takes(c, "read")
    <3> HIDE DEF wireVars, TypeOK
    <3>1. Checkout(c) \/ LockGranted(c) \/ LockGivesUp(c) \/ Ensure(c) \/ CheckCancelled(c)
            => UNCHANGED wireVars
      BY DEF Checkout, LockGranted, LockGivesUp, GivesUp, Ensure, CheckCancelled, wireVars
    <3>2. \A pc, err : GivesUp(c, pc, err) => UNCHANGED wireVars
      BY DEF GivesUp
    <3>3. Clear(c) => UNCHANGED wireVars \/ Takes(c, "clear")
      BY <3>2 DEF Clear, ClearEnds
    <3>4. Write(c) => UNCHANGED wireVars \/ WriteSome(c) \/ WriteDone(c)
      BY <3>2 DEF Write, FlushDone
    <3>5. Read(c) => UNCHANGED wireVars \/ Takes(c, "read")
      BY <3>2 DEF Read, ReadEnds
    <3> QED BY <3>1, <3>3, <3>4, <3>5 DEF IoNext
  <2> QED BY <2>1, <2>2, <2>3, <2>4
<1> QED BY <1>1, <1>2, <1>3

\* Whatever a failed, cancelled or timed-out call reports to the client about
\* bytes written and bytes consumed is true of what reached the device.
THEOREM RepliesHonest == Spec => []HonestReply
<1>1. Init => TrafficInv
  BY DEF Init, TrafficInv, Traffic, HonestFor
<1>2. TypeOK /\ TrafficInv /\ [Next]_vars => TrafficInv'
  <2> SUFFICES ASSUME TypeOK, TrafficInv, [Next]_vars PROVE TrafficInv'
    OBVIOUS
  <2>1. ASSUME UNCHANGED <<ioPc, ioOp, ioRes, sent, got>> PROVE TrafficInv'
    BY <2>1 DEF TrafficInv, Traffic, HonestFor
  <2>2. ASSUME NEW s \in Opens, OpenNext(s) PROVE TrafficInv'
    BY <2>1, <2>2 DEF OpenNext, OpenRefuse, OpenReserve, OpenCommit, OpenAbort,
                      ioVars, callVars, wireVars
  <2>3. ASSUME NEW k \in Closes, CloseNext(k) PROVE TrafficInv'
    BY <2>1, <2>3 DEF CloseNext, CloseRefuse, CloseBegin, CloseAcquire, CloseTimeout,
                      CloseFinish, ioVars, callVars, wireVars
  <2>4. ASSUME NEW c \in Ios, IoNext(c) PROVE TrafficInv'
    <3>1. Traffic(c)' /\ HonestFor(c)'
      BY <2>4, IoKeepsTraffic, ConstantsAssumption DEF TrafficInv
    <3>2. ASSUME NEW d \in Ios, d # c PROVE Traffic(d)' /\ HonestFor(d)'
      <4>1. /\ ioPc'[d] = ioPc[d] /\ ioOp'[d] = ioOp[d] /\ ioRes'[d] = ioRes[d]
            /\ sent'[d] = sent[d] /\ got'[d] = got[d]
        BY <2>4, <3>2, IoTouchesOwn
      <4> QED BY <4>1 DEF TrafficInv, Traffic, HonestFor
    <3> QED BY <3>1, <3>2 DEF TrafficInv
  <2>5. ASSUME NEW c \in Ios, Cancel(c) PROVE TrafficInv'
    BY <2>5, <2>1 DEF Cancel, callVars, wireVars
  <2>6. CASE UNCHANGED vars
    BY <2>6, <2>1 DEF vars, ioVars, callVars, wireVars
  <2> QED BY <2>2, <2>3, <2>4, <2>5, <2>6 DEF Next
<1>3. TrafficInv => HonestReply
  BY DEF TrafficInv, HonestFor, HonestReply
<1> QED BY <1>1, <1>2, <1>3, TypeCorrect, PTL DEF Spec


-----------------------------------------------------------------------------
(* The refinement: what the clients see of the step of an I/O request *)

\* The request's wire history and the other requests' replies stay.
Silent(c) ==
  /\ UNCHANGED <<sent, got>>
  /\ \A d \in Ios \ {c} : ioRes'[d] = ioRes[d]

\* It is answered, waits, gets its device, or goes on using it.
SeenAnswering(c) ==
  /\ ioPc[c] # "done" /\ ioPc' = [ioPc EXCEPT ![c] = "done"]
  /\ Silent(c)
SeenWaiting(c) ==
  /\ ioPc[c] # "done" /\ ~InIo(c)
  /\ \E pc \in {"lock", "ensure"} : ioPc' = [ioPc EXCEPT ![c] = pc]
  /\ Silent(c)
SeenEntering(c) ==
  /\ ioPc[c] = "ensure" /\ state[ioSid[c]] = "Ready"
  /\ \E pc \in OnWire : ioPc' = [ioPc EXCEPT ![c] = pc]
  /\ Silent(c)
SeenUsing(c) ==
  /\ InIo(c)
  /\ \E pc \in OnWire : ioPc' = [ioPc EXCEPT ![c] = pc]
  /\ UNCHANGED ioRes
  /\ \/ UNCHANGED <<sent, got>>
     \/ UNCHANGED got  /\ \E v \in {"some", "all"} : sent' = [sent EXCEPT ![c] = v]
     \/ UNCHANGED sent /\ got' = [got EXCEPT ![c] = TRUE]

\* Every step of an I/O request is one of these to its clients.
LEMMA IoStepSeen ==
  ASSUME TypeOK, ConstantsAssumption, NEW c \in Ios, IoNext(c)
  PROVE  SeenAnswering(c) \/ SeenWaiting(c) \/ SeenEntering(c) \/ SeenUsing(c)
<1> USE DEF wireVars
<1>1. ASSUME ioPc[c] # "done", NEW reply, IoReturns(c, reply), UNCHANGED wireVars
      PROVE  SeenAnswering(c)
  BY <1>1 DEF IoReturns, SeenAnswering, Silent, TypeOK
<1>2. ASSUME ioPc[c] # "done", NEW err, IoFails(c, err), UNCHANGED wireVars
      PROVE  SeenAnswering(c)
  BY <1>1, <1>2 DEF IoFails
<1>3. ASSUME NEW pc \in IoPcs \ {"done"}, NEW err, GivesUp(c, pc, err)
      PROVE  SeenAnswering(c)
  BY <1>2, <1>3 DEF GivesUp
<1>4. ASSUME InIo(c), NEW pc \in OnWire, GoTo(c, pc), UNCHANGED wireVars
      PROVE  SeenUsing(c)
  BY <1>4 DEF GoTo, SeenUsing
<1>5. ASSUME NEW pc \in {"clear", "read"}, Takes(c, pc) PROVE SeenUsing(c)
  <2>1. ioPc[c] = pc /\ ioPc' = [ioPc EXCEPT ![c] = pc] /\ pc \in OnWire
    BY <1>5 DEF Takes, TypeOK, OnWire
  <2> QED BY <1>5, <2>1 DEF Takes, SeenUsing, InIo
<1>6. CASE Checkout(c)
  <2>1. CASE GoTo(c, "lock")
    BY <1>6, <2>1 DEF Checkout, GoTo, SeenWaiting, Silent, InIo, OnWire
  <2> QED BY <1>6, <2>1, <1>1, <1>2 DEF Checkout
<1>7. CASE LockGranted(c)
  BY <1>7 DEF LockGranted, SeenWaiting, Silent, InIo, OnWire
<1>8. CASE LockGivesUp(c)
  BY <1>8, <1>3 DEF LockGivesUp, IoPcs
<1>9. CASE Ensure(c)
  <2>1. ASSUME state[ioSid[c]] = "Ready", NEW pc \in OnWire, GoTo(c, pc)
        PROVE  SeenEntering(c)
    BY <1>9, <2>1 DEF Ensure, GoTo, SeenEntering, Silent
  <2>2. "read" \in OnWire /\ "write" \in OnWire /\ "clear" \in OnWire /\ "check" \in OnWire
    BY DEF OnWire
  <2> QED BY <1>9, <1>2, <2>1, <2>2 DEF Ensure
<1>10. CASE Clear(c)
  <2>1. CASE ClearEnds(c)
    BY <2>1, <1>4 DEF ClearEnds, InIo, OnWire
  <2> QED BY <1>10, <2>1, <1>3, <1>5 DEF Clear, IoPcs
<1>11. CASE CheckCancelled(c)
  BY <1>11, <1>1, <1>4 DEF CheckCancelled, InIo, OnWire
<1>12. CASE Write(c)
  <2>1. CASE WriteSome(c)
    <3>1. ioPc[c] = "write" /\ ioPc' = [ioPc EXCEPT ![c] = "write"] /\ "write" \in OnWire
      BY <2>1 DEF WriteSome, TypeOK, OnWire
    <3> QED BY <2>1, <3>1 DEF WriteSome, SeenUsing, InIo
  <2>2. CASE WriteDone(c)
    BY <2>2 DEF WriteDone, GoTo, SeenUsing, InIo, OnWire
  <2>3. CASE FlushDone(c)
    BY <2>3, <1>1, <1>4 DEF FlushDone, InIo, OnWire
  <2> QED BY <1>12, <2>1, <2>2, <2>3, <1>3 DEF Write, IoPcs
<1>13. CASE Read(c)
  <2>1. ASSUME NEW status, ReadEnds(c, status) PROVE SeenAnswering(c)
    BY <2>1, <1>1 DEF ReadEnds
  <2> QED BY <1>13, <2>1, <1>3, <1>5 DEF Read, IoPcs
<1> QED BY <1>6, <1>7, <1>8, <1>9, <1>10, <1>11, <1>12, <1>13 DEF IoNext

-----------------------------------------------------------------------------
(* Each step is a step of the abstract specification *)

\* A close has no answer before it is done.
Unreplied == \A k \in Closes : closePc[k] # "done" => closeRes[k] = "none"

\* No step answers a close that goes on.
LEMMA UnrepliedStep ==
  ASSUME TypeOK, Unreplied, [Next]_vars
  PROVE  Unreplied'
<1> USE DEF TypeOK, Unreplied
<1>1. ASSUME UNCHANGED <<closePc, closeRes>> PROVE Unreplied'
  BY <1>1
<1>2. ASSUME NEW s \in Opens, OpenNext(s) PROVE Unreplied'
  BY <1>2, <1>1 DEF OpenNext, OpenRefuse, OpenReserve, OpenCommit, OpenAbort, closeVars
<1>3. ASSUME NEW k \in Closes, CloseNext(k) PROVE Unreplied'
  BY <1>3 DEF CloseNext, CloseRefuse, CloseBegin, CloseAcquire, CloseTimeout, CloseFinish,
              CloseReturns
<1>4. ASSUME NEW c \in Ios, IoNext(c) \/ Cancel(c) PROVE Unreplied'
  BY <1>4, <1>1, IoStepFrame
<1>5. CASE UNCHANGED vars
  BY <1>5, <1>1 DEF vars, closeVars
<1> QED BY <1>2, <1>3, <1>4, <1>5 DEF Next

\* What the calls show is the same after a step that does not concern them.
LEMMA CallsUnseen ==
  ASSUME UNCHANGED <<ioPc, ioRes, sent, got>>
  PROVE  UNCHANGED <<using, effect, answer>>
BY DEF using, InIo, effect, Effect, answer, Admits

\* A step of an open reserves, resolves or refuses its session.
LEMMA OpenStepMaps ==
  ASSUME ConstantsAssumption, TypeOK, TableInv, WireInv, NEW s \in Opens, OpenNext(s)
  PROVE  Lifecycle!Reserve(s) \/ Lifecycle!Resolve(s)
<1> USE DEF TypeOK, Lifecycle!closeVars, Lifecycle!callVars
<1>1. UNCHANGED <<ioPc, ioRes, sent, got, ioSid, closeOf, closeRes>>
      /\ \A t \in Opens \ {s} : state'[t] = state[t] /\ openPc'[t] = openPc[t]
  BY DEF OpenNext, OpenRefuse, OpenReserve, OpenCommit, OpenAbort, OpenReturns, Becomes,
         transition_to_ready, remove, tableVars, closeVars, ioVars, callVars, wireVars
<1>2. UNCHANGED <<using, effect, answer, closeAnswer, ioSid, closeOf>>
  BY <1>1, CallsUnseen DEF closeAnswer
<1>3. ASSUME NEW st, Life(s)' = st PROVE life' = [life EXCEPT ![s] = st]
  BY <1>1, <1>3 DEF life, Life
<1>4. ASSUME NEW res \in {"ok"} \cup OpenErrs, OpenReturns(s, res)
      PROVE  openAnswer' = [openAnswer EXCEPT ![s] = IF res = "ok" THEN "ok" ELSE "error"]
  BY <1>4 DEF OpenReturns, openAnswer, Verdict, OpenErrs
<1>5. life[s] = Life(s)
  BY DEF life
<1>6. CASE OpenRefuse(s)
  <2>1. PICK err \in OpenErrs : OpenReturns(s, err)
    BY <1>6 DEF OpenRefuse, OpenRefusal, OpenErrs
  <2>2. Life(s) = "new" /\ Life(s)' = "gone" /\ UNCHANGED portPath
    BY <1>6, <2>1 DEF OpenRefuse, OpenReturns, Life, TableInv, FreshUntouched, tableVars
  <2>3. openAnswer' = [openAnswer EXCEPT ![s] = "error"]
    BY <1>4, <2>1 DEF OpenErrs
  <2> QED BY <1>2, <1>3, <1>5, <2>2, <2>3 DEF Lifecycle!Resolve
<1>7. CASE OpenReserve(s)
  <2>1. PICK p \in Paths : OpenRefusal(p) = "none" /\ portPath' = [portPath EXCEPT ![s] = p]
    BY <1>7 DEF OpenReserve
  <2>2. p \in Allowed /\ (\A t \in Live : portPath[t] # p) /\ ~(Cardinality(Live) >= MaxSessions)
    BY <2>1 DEF OpenRefusal, PathTaken, AtCapacity
  <2>3. Life(s) = "new" /\ Life(s)' = "opening" /\ UNCHANGED openRes
    BY <1>7 DEF OpenReserve, Life, TableInv, FreshUntouched
  <2>4. Lifecycle!InUse = Live
    BY DEF Lifecycle!InUse, Live, life, Life
  <2>5. Cardinality(Live) < MaxSessions
    <3>1. Cardinality(Live) \in Nat
      BY FS_CardinalityType DEF TableInv
    <3> QED BY <2>2, <3>1 DEF ConstantsAssumption
  <2>6. UNCHANGED openAnswer
    BY <2>3 DEF openAnswer
  <2>7. life[s] = "new" /\ life' = [life EXCEPT ![s] = "opening"]
    BY <1>3, <1>5, <2>3
  <2>8. Lifecycle!Cardinality(Live) = Cardinality(Live)
    BY DEF Lifecycle!Cardinality, Cardinality
  <2> QED BY <1>2, <2>1, <2>2, <2>4, <2>5, <2>6, <2>7, <2>8 DEF Lifecycle!Reserve
<1>8. CASE OpenCommit(s)
  <2>1. state[s] = "Opening"
    BY <1>8 DEF OpenCommit, WireInv, Undisturbed
  <2>2. OpenReturns(s, "ok") /\ UNCHANGED portPath /\ state'[s] = "Ready"
    BY <1>8, <2>1 DEF OpenCommit, transition_to_ready, Becomes
  <2>3. Life(s) = "opening" /\ Life(s)' = "open"
    BY <2>1, <2>2 DEF Life
  <2>4. openAnswer' = [openAnswer EXCEPT ![s] = "ok"]
    BY <1>4, <2>2
  <2> QED BY <1>2, <1>3, <1>5, <2>2, <2>3, <2>4 DEF Lifecycle!Resolve
<1>9. CASE OpenAbort(s)
  <2>1. PICK err \in OpenErrs : OpenReturns(s, err)
    BY <1>9 DEF OpenAbort, OpenErrs
  <2>2. state[s] = "Opening" /\ state'[s] = "Absent" /\ UNCHANGED portPath
    BY <1>9 DEF OpenAbort, WireInv, Undisturbed, remove, Becomes
  <2>3. Life(s) = "opening" /\ Life(s)' = "gone"
    BY <2>1, <2>2 DEF Life, OpenReturns
  <2>4. openAnswer' = [openAnswer EXCEPT ![s] = "error"]
    BY <1>4, <2>1 DEF OpenErrs
  <2> QED BY <1>2, <1>3, <1>5, <2>2, <2>3, <2>4 DEF Lifecycle!Resolve
<1> QED BY <1>6, <1>7, <1>8, <1>9 DEF OpenNext

\* A step of a close answers it, removing its session or not, or is not seen.
LEMMA CloseStepMaps ==
  ASSUME ~ClosesOpening, TypeOK, TableInv, WireInv, Unreplied, NEW k \in Closes, CloseNext(k)
  PROVE  Lifecycle!Close(k) \/ UNCHANGED Lifecycle!vars
<1> DEFINE s == closeOf[k]
<1> USE DEF TypeOK, Resolving, Lifecycle!callVars
<1>0. s \in Opens
  OBVIOUS
<1>1. UNCHANGED <<ioPc, ioRes, sent, got, ioSid, closeOf, portPath, openPc, openRes>>
      /\ (\A t \in Opens \ {s} : state'[t] = state[t])
  BY DEF CloseNext, CloseRefuse, CloseBegin, CloseAcquire, CloseTimeout, CloseFinish, CloseReturns,
         Becomes, begin_close, restore_ready, remove, tableVars, openVars, ioVars, callVars, wireVars
<1>2. UNCHANGED <<using, effect, answer, openAnswer, ioSid, closeOf, portPath>>
  BY <1>1, CallsUnseen DEF openAnswer
<1>3. ASSUME Life(s)' = Life(s) PROVE UNCHANGED life
  BY <1>1, <1>3 DEF life, Life
<1>4. ASSUME Life(s)' = Life(s), UNCHANGED closeRes PROVE UNCHANGED Lifecycle!vars
  <2>1. UNCHANGED closeAnswer
    BY <1>4 DEF closeAnswer
  <2> QED BY <1>2, <1>3, <1>4, <2>1
          DEF Lifecycle!vars, Lifecycle!sessionVars, Lifecycle!closeVars
<1>5. ASSUME closePc[k] # "done", NEW res \in {"ok", "Timeout"} \cup LookupErrors,
             CloseReturns(k, res)
      PROVE  /\ closeAnswer[k] = "none"
             /\ closeAnswer' = [closeAnswer EXCEPT ![k] = IF res = "ok" THEN "ok" ELSE "error"]
  BY <1>5 DEF CloseReturns, closeAnswer, Verdict, LookupErrors, Unreplied
<1>6. ASSUME closePc[k] # "done", NEW err \in {"Timeout"} \cup LookupErrors,
             CloseReturns(k, err), Life(s)' = Life(s)
      PROVE  Lifecycle!Close(k)
  <2>1. closeAnswer[k] = "none" /\ closeAnswer' = [closeAnswer EXCEPT ![k] = "error"]
    BY <1>5, <1>6 DEF LookupErrors
  <2> QED BY <1>2, <1>3, <1>6, <2>1 DEF Lifecycle!Close
<1>7. CASE CloseRefuse(k)
  <2>1. UNCHANGED state
    BY <1>7 DEF CloseRefuse, tableVars
  <2> QED BY <1>1, <1>6, <1>7, <2>1 DEF CloseRefuse, Life, LookupErrors
<1>8. CASE CloseBegin(k)
  <2>1. state[s] = "Ready" /\ state'[s] = "Closing" /\ UNCHANGED closeRes
    BY <1>8 DEF CloseBegin, begin_close, Becomes
  <2>2. Life(s)' = Life(s)
    BY <1>1, <2>1 DEF Life
  <2> QED BY <1>4, <2>1, <2>2
<1>9. CASE CloseAcquire(k)
  <2>1. UNCHANGED <<state, closeRes>> /\ UNCHANGED openPc
    BY <1>1, <1>9 DEF CloseAcquire, tableVars
  <2>2. Life(s)' = Life(s)
    BY <1>1, <2>1 DEF Life
  <2> QED BY <1>4, <2>1, <2>2
<1>10. CASE CloseTimeout(k)
  <2>1. closePc[k] = "wait" /\ state[s] = "Closing" /\ state'[s] = "Ready"
    BY <1>10 DEF CloseTimeout, restore_ready, Becomes, WireInv, Undisturbed
  <2>2. Life(s)' = Life(s) /\ CloseReturns(k, "Timeout")
    BY <1>10, <2>1 DEF CloseTimeout, Life
  <2> QED BY <1>6, <2>1, <2>2
<1>11. CASE CloseFinish(k)
  <2>1. closePc[k] = "finish" /\ state[s] = "Closing" /\ state'[s] = "Absent"
    BY <1>11 DEF CloseFinish, remove, Becomes, WireInv, Undisturbed
  <2>2. openPc[s] # "idle"
    BY <2>1 DEF TableInv, FreshUntouched
  <2>3. life[s] = "open" /\ life' = [life EXCEPT ![s] = "gone"]
    BY <1>1, <2>1, <2>2 DEF life, Life
  <2>4. \A c \in using : ioSid[c] # s
    BY <2>1 DEF using, WireInv, IoAlive
  <2>5. closeAnswer[k] = "none" /\ closeAnswer' = [closeAnswer EXCEPT ![k] = "ok"]
    BY <1>5, <1>11, <2>1 DEF CloseFinish
  <2> QED BY <1>2, <2>3, <2>4, <2>5 DEF Lifecycle!Close
<1> QED BY <1>7, <1>8, <1>9, <1>10, <1>11 DEF CloseNext

\* A step of an I/O request begins, goes on with, or ends its use of the device,
\* or is not seen.
LEMMA IoStepMaps ==
  ASSUME ConstantsAssumption, TypeOK, TypeOK', TableInv, WireInv, HonestReply',
         NEW c \in Ios, IoNext(c)
  PROVE  \/ Lifecycle!Begin(c) \/ Lifecycle!Touch(c) \/ Lifecycle!Answer(c)
         \/ UNCHANGED Lifecycle!vars
<1> USE DEF TypeOK, Lifecycle!closeVars, Lifecycle!sessionVars
<1>1. UNCHANGED <<state, portPath, openPc, openRes, closeRes, closeOf, ioSid>>
  BY IoStepFrame
<1>2. UNCHANGED <<life, portPath, openAnswer, closeAnswer, closeOf, ioSid>>
  BY <1>1 DEF life, Life, openAnswer, closeAnswer
<1>3. ASSUME UNCHANGED <<sent, got>> PROVE UNCHANGED effect
  BY <1>3 DEF effect, Effect
<1>4. CASE SeenAnswering(c)
  <2>1. ioPc[c] # "done" /\ ioPc' = [ioPc EXCEPT ![c] = "done"] /\ UNCHANGED <<sent, got>>
        /\ \A d \in Ios \ {c} : ioRes'[d] = ioRes[d]
    BY <1>4 DEF SeenAnswering, Silent
  <2>2. using' = using \ {c}
    BY <2>1 DEF using, InIo, OnWire
  <2>3. answer[c] = None
    BY <2>1 DEF answer
  <2>4. answer' = [answer EXCEPT ![c] = Admits(ioRes'[c])]
    BY <2>1 DEF answer, Admits
  <2>5. Admits(ioRes'[c]) \in SUBSET Lifecycle!Effects
    BY DEF Admits, Lifecycle!Effects
  <2>6. effect[c] \subseteq Admits(ioRes'[c])
    <3>1. ioPc'[c] = "done"
      BY <2>1
    <3>2. (sent[c] # "none" => ioRes'[c].written) /\ (got[c] => ioRes'[c].consumed)
      BY <2>1, <3>1 DEF HonestReply
    <3> QED BY <3>2 DEF effect, Effect, Admits
  <2>7. UNCHANGED effect
    BY <1>3, <2>1
  <2> QED BY <1>2, <2>2, <2>3, <2>4, <2>5, <2>6, <2>7 DEF Lifecycle!Answer
<1>5. CASE SeenWaiting(c)
  <2>1. PICK pc \in {"lock", "ensure"} :
          ioPc[c] # "done" /\ ~InIo(c) /\ ioPc' = [ioPc EXCEPT ![c] = pc]
    BY <1>5 DEF SeenWaiting
  <2>2. UNCHANGED using
    BY <2>1 DEF using, InIo, OnWire
  <2>3. UNCHANGED answer
    BY <1>5, <2>1 DEF SeenWaiting, Silent, answer, Admits
  <2>4. UNCHANGED effect
    BY <1>3, <1>5 DEF SeenWaiting, Silent
  <2> QED BY <1>2, <2>2, <2>3, <2>4 DEF Lifecycle!vars, Lifecycle!callVars
<1>6. CASE SeenEntering(c)
  <2>1. PICK pc \in OnWire : ioPc[c] = "ensure" /\ state[ioSid[c]] = "Ready"
                               /\ ioPc' = [ioPc EXCEPT ![c] = pc]
    BY <1>6 DEF SeenEntering
  <2>2. c \notin using /\ using' = using \cup {c}
    BY <2>1 DEF using, InIo, OnWire
  <2>3. answer[c] = None /\ UNCHANGED answer
    <3>1. pc # "done" /\ ioPc[c] # "done" /\ \A d \in Ios \ {c} : ioRes'[d] = ioRes[d]
      BY <1>6, <2>1 DEF SeenEntering, Silent, OnWire
    <3>2. \A d \in Ios \ {c} : ioPc'[d] = ioPc[d] /\ ioRes'[d] = ioRes[d]
      BY <2>1, <3>1
    <3>3. ioPc'[c] # "done"
      BY <2>1, <3>1
    <3>4. answer[c] = None
      BY <3>1 DEF answer
    <3>5. \A d \in Ios : (IF ioPc[d] = "done" THEN Admits(ioRes[d]) ELSE None)'
                            = IF ioPc[d] = "done" THEN Admits(ioRes[d]) ELSE None
      BY <3>1, <3>2, <3>3 DEF Admits
    <3> QED BY <3>4, <3>5 DEF answer
  <2>4. life[ioSid[c]] = "open"
    BY <2>1 DEF life, Life
  <2>5. ASSUME NEW d \in using, portPath[ioSid[d]] = portPath[ioSid[c]] PROVE FALSE
    <3>1. d \in Ios /\ InIo(d) /\ d # c
      BY <2>2 DEF using
    <3>2. ioSid[d] \in Live /\ ioSid[c] \in Live
      BY <2>1, <3>1 DEF WireInv, IoAlive, Live
    <3>3. ioSid[d] = ioSid[c]
      BY <2>5, <3>2 DEF TableInv, PathReserved
    <3> QED BY <2>1, <3>1, <3>3 DEF WireInv, LockHeld
  <2>6. UNCHANGED effect
    BY <1>3, <1>6 DEF SeenEntering, Silent
  <2> QED BY <1>2, <2>2, <2>3, <2>4, <2>5, <2>6 DEF Lifecycle!Begin
<1>7. CASE SeenUsing(c)
  <2>1. PICK pc \in OnWire : InIo(c) /\ ioPc' = [ioPc EXCEPT ![c] = pc] /\ UNCHANGED ioRes
    BY <1>7 DEF SeenUsing
  <2>2. c \in using /\ UNCHANGED using
    BY <2>1 DEF using, InIo
  <2>3. UNCHANGED answer
    BY <2>1 DEF answer, Admits, InIo, OnWire
  <2>4. CASE UNCHANGED <<sent, got>>
    BY <1>2, <1>3, <2>2, <2>3, <2>4 DEF Lifecycle!vars, Lifecycle!callVars
  <2>5. CASE UNCHANGED got /\ \E v \in {"some", "all"} : sent' = [sent EXCEPT ![c] = v]
    <3>1. Effect(c)' = Effect(c) \cup {"written"}
      BY <2>5 DEF Effect
    <3>2. \A d \in Ios \ {c} : Effect(d)' = Effect(d)
      BY <2>5 DEF Effect
    <3>3. effect' = [effect EXCEPT ![c] = effect[c] \cup {"written"}]
      BY <3>1, <3>2 DEF effect
    <3> QED BY <1>2, <2>2, <2>3, <3>3 DEF Lifecycle!Touch, Lifecycle!Effects
  <2>6. CASE UNCHANGED sent /\ got' = [got EXCEPT ![c] = TRUE]
    <3>1. Effect(c)' = Effect(c) \cup {"consumed"}
      BY <2>6 DEF Effect
    <3>2. \A d \in Ios \ {c} : Effect(d)' = Effect(d)
      BY <2>6 DEF Effect
    <3>3. effect' = [effect EXCEPT ![c] = effect[c] \cup {"consumed"}]
      BY <3>1, <3>2 DEF effect
    <3> QED BY <1>2, <2>2, <2>3, <3>3 DEF Lifecycle!Touch, Lifecycle!Effects
  <2> QED BY <1>7, <2>4, <2>5, <2>6 DEF SeenUsing
<1> QED BY <1>4, <1>5, <1>6, <1>7, IoStepSeen

-----------------------------------------------------------------------------
\* The initial states of the code are initial states of the abstract specification.
LEMMA InitMaps == Init => Lifecycle!Init
BY DEF Init, Lifecycle!Init, life, Life, openAnswer, closeAnswer, Verdict, using, InIo, OnWire,
       effect, Effect, answer

\* SessionManager implements SessionLifecycle: whatever interleaves inside the
\* server, clients see sessions that open and close at an instant and calls that
\* have their device to themselves, each answered once and truthfully.
THEOREM LifecycleImplemented ==
  ASSUME ~ClosesOpening
  PROVE  Spec => ImplementsLifecycle
<1>1. Init => WireInv /\ Unreplied
  BY DEF Init, WireInv, LockHeld, Undisturbed, IoAlive, Resolving, InIo, OnWire, Unreplied
<1>2. TypeOK /\ TableInv /\ WireInv /\ [Next]_vars => WireInv'
  BY WireStep
<1>3. TypeOK /\ Unreplied /\ [Next]_vars => Unreplied'
  BY UnrepliedStep
<1>4. TypeOK /\ TypeOK' /\ TableInv /\ WireInv /\ Unreplied /\ HonestReply' /\ [Next]_vars
        => [Lifecycle!Next]_(Lifecycle!vars)
  <2> SUFFICES ASSUME TypeOK, TypeOK', TableInv, WireInv, Unreplied, HonestReply', [Next]_vars
               PROVE  Lifecycle!Next \/ UNCHANGED Lifecycle!vars
    OBVIOUS
  <2>1. ASSUME NEW s \in Opens, OpenNext(s) PROVE Lifecycle!Next
    BY <2>1, OpenStepMaps, ConstantsAssumption DEF Lifecycle!Next
  <2>2. ASSUME NEW k \in Closes, CloseNext(k) PROVE Lifecycle!Next \/ UNCHANGED Lifecycle!vars
    BY <2>2, CloseStepMaps DEF Lifecycle!Next
  <2>3. ASSUME NEW c \in Ios, IoNext(c) PROVE Lifecycle!Next \/ UNCHANGED Lifecycle!vars
    BY <2>3, IoStepMaps, ConstantsAssumption DEF Lifecycle!Next
  <2>4. ASSUME UNCHANGED <<state, portPath, openPc, openRes, closeOf, closeRes, ioPc, ioSid,
                           ioRes, sent, got>>
        PROVE  UNCHANGED Lifecycle!vars
    <3>1. UNCHANGED <<using, effect, answer>>
      BY <2>4, CallsUnseen
    <3>2. UNCHANGED <<life, openAnswer, closeAnswer>>
      BY <2>4 DEF life, Life, openAnswer, closeAnswer
    <3> QED BY <2>4, <3>1, <3>2
            DEF Lifecycle!vars, Lifecycle!sessionVars, Lifecycle!closeVars, Lifecycle!callVars
  <2>5. ASSUME NEW c \in Ios, Cancel(c) PROVE UNCHANGED Lifecycle!vars
    BY <2>5, <2>4 DEF Cancel, tableVars, openVars, closeVars, callVars, wireVars
  <2>6. CASE UNCHANGED vars
    BY <2>6, <2>4 DEF vars, tableVars, openVars, closeVars, ioVars, callVars, wireVars
  <2> QED BY <2>1, <2>2, <2>3, <2>5, <2>6 DEF Next
<1> QED BY <1>1, <1>2, <1>3, <1>4, InitMaps, TableInit, TableStep, TypeCorrect, RepliesHonest, PTL
        DEF Spec, ImplementsLifecycle, Lifecycle!Spec
=============================================================================
