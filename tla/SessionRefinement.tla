-------------------------- MODULE SessionRefinement -------------------------
(***************************************************************************)
(* SessionManager implements SessionLifecycle: where the abstract state is *)
(* found in the state of the code.                                         *)
(*                                                                         *)
(* A session is open from the second critical section of its open to the   *)
(* last of its close, also while it is Closing; a call is using the device *)
(* from the moment ensure_port_still_ready lets it pass.                   *)
(***************************************************************************)
EXTENDS SessionManager

Life(s) ==
  IF state[s] = "Opening" THEN "opening"
  ELSE IF state[s] # "Absent" THEN "open"
  ELSE IF openPc[s] = "idle" THEN "new"
  ELSE "gone"

\* A result as the abstract specification sees it.
Verdict(res) == IF res \in {"none", "ok"} THEN res ELSE "error"

Effect(c) == (IF sent[c] # "none" THEN {"written"} ELSE {})
               \cup (IF got[c] THEN {"consumed"} ELSE {})

Admits(reply) == (IF reply.written THEN {"written"} ELSE {})
                   \cup (IF reply.consumed THEN {"consumed"} ELSE {})

\* The refinement mapping.
life        == [s \in Opens |-> Life(s)]
openAnswer  == [s \in Opens |-> Verdict(openRes[s])]
closeAnswer == [k \in Closes |-> Verdict(closeRes[k])]
using       == {c \in Ios : InIo(c)}
effect      == [c \in Ios |-> Effect(c)]
answer      == [c \in Ios |-> IF ioPc[c] = "done" THEN Admits(ioRes[c]) ELSE None]

Lifecycle == INSTANCE SessionLifecycle WITH
  Sessions <- Opens, Calls <- Ios, Paths <- Allowed,
  path <- portPath, callOf <- ioSid

\* Every step of the code is a step of the abstract specification or changes
\* nothing it shows: clients see sessions that open and close at one instant and
\* calls that have their device to themselves, whatever interleaves inside.
ImplementsLifecycle == Lifecycle!Spec
=============================================================================
