-------------------------- MODULE SessionLifecycle --------------------------
(***************************************************************************)
(* What the session manager promises its clients, without the locks, the   *)
(* critical sections and the waits it takes to keep the promise:           *)
(*                                                                         *)
(*   - a session is opened once, on a path and a slot of its own, and it   *)
(*     disappears once, by the close that answers ok;                      *)
(*   - calls on one device path take effect one after another, and only    *)
(*     while their session is open: a close waits for them;                *)
(*   - every request is answered at most once, and a call's answer admits  *)
(*     everything the call did to the device.                              *)
(*                                                                         *)
(* SessionRefinement relates it to the code's steps.                       *)
(***************************************************************************)
EXTENDS Naturals, FiniteSets

CONSTANTS
  Sessions,    \* sessions, each named by the request that opens it
  Closes,      \* close requests
  Calls,       \* requests that perform I/O
  Paths,       \* the device paths a session may be on
  MaxSessions, \* how many sessions may be in use
  None         \* "no value"

VARIABLES
  life,        \* life[s]: "new", "opening", "open" or "gone"
  path,        \* path[s]: the device path of s
  openAnswer,  \* openAnswer[s], closeAnswer[k]: "none", "ok" or "error"
  closeAnswer,
  closeOf,     \* closeOf[k], callOf[c]: the session the request names
  callOf,
  using,       \* the calls that are using a device
  effect,      \* effect[c]: what c has done to the device
  answer       \* answer[c]: the effects c's answer admits, None before it

sessionVars == <<life, path, openAnswer>>
closeVars   == <<closeAnswer, closeOf>>
callVars    == <<callOf, using, effect, answer>>
vars        == <<sessionVars, closeVars, callVars>>

Effects == {"written", "consumed"}

InUse == {s \in Sessions : life[s] \in {"opening", "open"}}

Init ==
  /\ life        = [s \in Sessions |-> "new"]
  /\ path        = [s \in Sessions |-> None]
  /\ openAnswer  = [s \in Sessions |-> "none"]
  /\ closeAnswer = [k \in Closes |-> "none"]
  /\ closeOf     \in [Closes -> Sessions]
  /\ callOf      \in [Calls -> Sessions]
  /\ using       = {}
  /\ effect      = [c \in Calls |-> {}]
  /\ answer      = [c \in Calls |-> None]

\* An open takes a free path and a free slot.
Reserve(s) ==
  /\ life[s] = "new"
  /\ Cardinality(InUse) < MaxSessions
  /\ \E p \in Paths :
       /\ \A t \in InUse : path[t] # p
       /\ path' = [path EXCEPT ![s] = p]
  /\ life' = [life EXCEPT ![s] = "opening"]
  /\ UNCHANGED <<openAnswer, closeVars, callVars>>

\* An open succeeds, or it fails and leaves nothing behind.
Resolve(s) ==
  /\ \/ /\ life[s] = "opening"
        /\ life'       = [life       EXCEPT ![s] = "open"]
        /\ openAnswer' = [openAnswer EXCEPT ![s] = "ok"]
     \/ /\ life[s] \in {"new", "opening"}
        /\ life'       = [life       EXCEPT ![s] = "gone"]
        /\ openAnswer' = [openAnswer EXCEPT ![s] = "error"]
  /\ UNCHANGED <<path, closeVars, callVars>>

\* A close answers ok as it removes an open session no call is using, or it
\* answers an error and changes nothing.
Close(k) ==
  LET s == closeOf[k] IN
  /\ closeAnswer[k] = "none"
  /\ \/ /\ life[s] = "open"
        /\ \A c \in using : callOf[c] # s
        /\ life'        = [life        EXCEPT ![s] = "gone"]
        /\ closeAnswer' = [closeAnswer EXCEPT ![k] = "ok"]
     \/ /\ closeAnswer' = [closeAnswer EXCEPT ![k] = "error"]
        /\ UNCHANGED life
  /\ UNCHANGED <<path, openAnswer, closeOf, callVars>>

\* A call gets the device of its open session to itself.
Begin(c) ==
  /\ answer[c] = None /\ c \notin using
  /\ life[callOf[c]] = "open"
  /\ \A d \in using : path[callOf[d]] # path[callOf[c]]
  /\ using' = using \cup {c}
  /\ UNCHANGED <<sessionVars, closeVars, callOf, effect, answer>>

\* Only a call that is using its device writes to it or takes from it.
Touch(c) ==
  /\ c \in using
  /\ \E e \in Effects : effect' = [effect EXCEPT ![c] = @ \cup {e}]
  /\ UNCHANGED <<sessionVars, closeVars, callOf, using, answer>>

\* A call is answered, and lets go of the device.
Answer(c) ==
  /\ answer[c] = None
  /\ \E told \in SUBSET Effects :
       /\ effect[c] \subseteq told
       /\ answer' = [answer EXCEPT ![c] = told]
  /\ using' = using \ {c}
  /\ UNCHANGED <<sessionVars, closeVars, callOf, effect>>

Next ==
  \/ \E s \in Sessions : Reserve(s) \/ Resolve(s)
  \/ \E k \in Closes   : Close(k)
  \/ \E c \in Calls    : Begin(c) \/ Touch(c) \/ Answer(c)

Spec == Init /\ [][Next]_vars
=============================================================================
