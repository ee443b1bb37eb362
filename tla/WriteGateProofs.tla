-------------------------- MODULE WriteGateProofs --------------------------
(***************************************************************************)
(* Theorems about WriteGate, for every device profile, set of overrides,   *)
(* commands, sessions and calls.                                           *)
(***************************************************************************)
EXTENDS WriteGate, SetInduction

Pcs == {"console", "policy", "gate", "ask", "timeout", "send"}

\* A call on its way; the answer it carries is one a person gave.
InFlight == [pc : Pcs, tool : Tools, sid : Sessions, data : Commands,
             line_ending : LineEndings, confirm : BOOLEAN, elicits : BOOLEAN,
             response : answers \cup {None}]

Shaped ==
  /\ live   \in [Sessions -> BOOLEAN]
  /\ policy \in [Sessions -> Captured \cup {None}]
  /\ call   \in [Calls -> {Idle} \cup InFlight]
  /\ \A a \in answers : a = [key |-> a.key, action |-> a.action]

\* What open captured is no weaker than the profile.
NoWeaker ==
  \A s \in Sessions : policy[s] # None =>
    /\ Profile.write_policy = "deny"    => policy[s].write_policy = "deny"
    /\ Profile.write_policy = "confirm" => policy[s].write_policy # "allow"

\* No check is left that could refuse the call.
Clear(k) == Len(Payload(k)) <= MaxWrite /\ ~Blocked(k)

\* What the gates have established about a call: it names a session that open
\* returned, and every gate it has passed still stands.
Vetted(k) ==
  k.pc # "idle" =>
    /\ policy[k.sid] # None
    /\ PastPolicy(k) => Clear(k)
    /\ k.pc = "ask" => policy[k.sid].write_policy = "confirm"
    /\ k.pc \in {"timeout", "send"} => Permitted(k)

\* What is known of a question.
Meant(key) == key.sid \in Sessions /\ policy[key.sid] # None /\ Worthwhile(key)

\* The inductive invariant: Authorized and NeverAskedInVain rest on what the
\* gates before them established and on policies that never change.
GateInv ==
  /\ Shaped /\ NoWeaker
  /\ \A c \in Calls : Vetted(call[c])
  /\ \A key \in asked : Meant(key)

-----------------------------------------------------------------------------
(* Lemmas *)

\* Combining two write policies keeps the stricter one.
LEMMA MaxIsStricter ==
  ASSUME NEW p \in Policies, NEW q \in Policies
  PROVE  /\ max(p, q) \in Policies
         /\ p = "deny"    => max(p, q) = "deny"
         /\ p = "confirm" => max(p, q) # "allow"
  BY DEF Policies, max

\* Moving a call on leaves its arguments alone.
LEMMA OnlyPcMoves ==
  ASSUME Shaped, NEW c \in Calls, call[c].pc # "idle", NEW pc \in Pcs, GoesTo(c, pc)
  PROVE  /\ call[c] \in InFlight /\ call'[c] \in InFlight
         /\ call'[c].pc = pc
         /\ \A d \in Calls \ {c} : call'[d] = call[d]
         /\ call'[c].tool = call[c].tool /\ call'[c].sid = call[c].sid
         /\ call'[c].data = call[c].data /\ call'[c].line_ending = call[c].line_ending
         /\ call'[c].confirm = call[c].confirm /\ call'[c].elicits = call[c].elicits
         /\ call'[c].response = call[c].response
<1>1. call[c] \in InFlight
  BY DEF Shaped, Idle
<1>2. call'[c] = [call[c] EXCEPT !.pc = pc] /\ \A d \in Calls \ {c} : call'[d] = call[d]
  BY DEF GoesTo, Shaped
<1> QED BY <1>1, <1>2 DEF InFlight

\* What is asked of a call depends on its arguments and on its session's policy.
LEMMA SameCallSameVerdicts ==
  ASSUME NEW k, NEW l,
         l.tool = k.tool, l.sid = k.sid, l.data = k.data, l.line_ending = k.line_ending,
         l.confirm = k.confirm, l.elicits = k.elicits
  PROVE  /\ Payload(l) = Payload(k)
         /\ Clear(k) => Clear(l)
         /\ Permitted(k) => Permitted(l)
<1>1. Payload(l) = Payload(k)
  BY DEF Payload
<1>2. Blocked(l) = Blocked(k)
  BY DEF Blocked
<1> QED BY <1>1, <1>2 DEF Clear, Permitted

\* A policy never changes once it is captured, and no answer is taken back.
PoliciesLast ==
  /\ \A s \in Sessions : policy[s] # None => policy'[s] = policy[s]
  /\ answers \subseteq answers'

\* So what has been established about a call stays established.
LEMMA VettedLasts ==
  ASSUME PoliciesLast, NEW c \in Calls, NEW k, k = call'[c], k.sid \in Sessions, Vetted(k)
  PROVE  Vetted(call[c])'
<1>1. CASE k.pc = "idle"
  BY <1>1 DEF Vetted
<1>2. CASE k.pc # "idle"
  <2>1. policy[k.sid] # None /\ policy'[k.sid] = policy[k.sid]
    BY <1>2 DEF Vetted, PoliciesLast
  <2>2. Payload(call[c])' = Payload(k)
    BY <2>1 DEF Payload
  <2>3. Blocked(call[c])' = Blocked(k)
    BY <2>1 DEF Blocked
  <2>4. Clear(k) => Clear(call[c])'
    BY <2>2, <2>3 DEF Clear
  <2>5. Permitted(k) => Permitted(call[c])'
    BY <2>1, <2>2 DEF Permitted, PoliciesLast
  <2>6. PastPolicy(call[c])' = PastPolicy(k)
    BY DEF PastPolicy
  <2> QED BY <1>2, <2>1, <2>4, <2>5, <2>6 DEF Vetted
<1> QED BY <1>1, <1>2

\* Nor does a question that was worth asking become vain.
LEMMA MeantLasts ==
  ASSUME PoliciesLast, NEW key, Meant(key)
  PROVE  Meant(key)'
  BY DEF PoliciesLast, Meant, Worthwhile

\* A step keeps the invariant if every call it leaves on its way is vetted and
\* every question it asks is meant.
LEMMA StepKeepsInv ==
  ASSUME GateInv, PoliciesLast, Shaped', NoWeaker',
         \A c \in Calls : call'[c].pc = "idle" \/ call'[c] = call[c] \/ Vetted(call'[c]),
         \A key \in asked' : key \in asked \/ Meant(key)
  PROVE  GateInv'
<1>1. ASSUME NEW c \in Calls PROVE Vetted(call[c])'
  <2>1. CASE call'[c].pc = "idle"
    BY <2>1 DEF Vetted
  <2>2. CASE call'[c].pc # "idle"
    <3>1. PICK k : k = call'[c]
      OBVIOUS
    <3>2. Vetted(k)
      BY <2>2, <3>1 DEF GateInv
    <3>3. k.sid \in Sessions
      BY <2>2, <3>1 DEF Shaped, InFlight, Idle
    <3> QED BY <3>1, <3>2, <3>3, VettedLasts
  <2> QED BY <2>1, <2>2
<1>2. ASSUME NEW key \in asked' PROVE Meant(key)'
  BY <1>2, MeantLasts DEF GateInv
<1> QED BY <1>1, <1>2 DEF GateInv

-----------------------------------------------------------------------------
(* The steps *)

\* A call that ends keeps the invariant.
LEMMA ReplyKeepsInv ==
  ASSUME GateInv, NEW c \in Calls, Replies(c), CallFrame,
         \A key \in asked' : key \in asked \/ Meant(key)
  PROVE  GateInv'
<1>1. /\ Shaped' /\ NoWeaker' /\ PoliciesLast
      /\ \A d \in Calls : call'[d] = IF d = c THEN Idle ELSE call[d]
  BY DEF GateInv, Shaped, NoWeaker, PoliciesLast, CallFrame, Replies, InFlight
<1> QED BY <1>1, StepKeepsInv DEF Idle

\* A call that passes a gate keeps the invariant, if the gate has established
\* what comes with the next one.
LEMMA MoveKeepsInv ==
  ASSUME GateInv, NEW c \in Calls, call[c].pc # "idle", NEW pc \in Pcs, GoesTo(c, pc),
         CallFrame, asked' = asked,
         pc \in {"gate", "ask", "timeout", "send"} => Clear(call[c]),
         pc = "ask" => policy[call[c].sid].write_policy = "confirm",
         pc \in {"timeout", "send"} => Permitted(call[c])
  PROVE  GateInv'
<1>1. NoWeaker' /\ PoliciesLast /\ Shaped
  BY DEF GateInv, NoWeaker, PoliciesLast, CallFrame
<1>2. /\ call'[c] \in InFlight /\ call'[c].pc = pc
      /\ \A d \in Calls \ {c} : call'[d] = call[d]
  BY <1>1, OnlyPcMoves
<1>3. Shaped'
  BY <1>1, <1>2 DEF Shaped, CallFrame, GoesTo, InFlight
<1>4. Vetted(call'[c])
  <2>1. policy[call[c].sid] # None
    BY DEF GateInv, Vetted
  <2>2. PICK k : k = call[c]
    OBVIOUS
  <2>3. PICK l : l = call'[c]
    OBVIOUS
  <2>4. /\ l.tool = k.tool /\ l.sid = k.sid /\ l.data = k.data
        /\ l.line_ending = k.line_ending /\ l.confirm = k.confirm /\ l.elicits = k.elicits
    BY <1>1, <2>2, <2>3, OnlyPcMoves
  <2>5. (Clear(k) => Clear(l)) /\ (Permitted(k) => Permitted(l))
    BY <2>4, SameCallSameVerdicts
  <2>6. Vetted(l)
    BY <1>2, <2>1, <2>2, <2>3, <2>4, <2>5 DEF Vetted, PastPolicy
  <2> QED BY <2>3, <2>6
<1> QED BY <1>1, <1>2, <1>3, <1>4, StepKeepsInv

\* serial.open captures a policy no weaker than the profile's.
LEMMA OpenKeepsInv == ASSUME GateInv, NEW s \in Sessions, Open(s) PROVE GateInv'
<1> USE ConstantsAssumption
<1>1. PICK o \in OpenOptions :
        policy' = [policy EXCEPT ![s] =
          [write_policy |-> max(Profile.write_policy, o.write_policy),
           rules        |-> [deny |-> Profile.deny \cup o.deny, allow |-> Profile.allow],
           line_ending  |-> IF o.line_ending = None THEN Profile.line_ending ELSE o.line_ending]]
  BY DEF Open
<1> DEFINE captured ==
          [write_policy |-> max(Profile.write_policy, o.write_policy),
           rules        |-> [deny |-> Profile.deny \cup o.deny, allow |-> Profile.allow],
           line_ending  |-> IF o.line_ending = None THEN Profile.line_ending ELSE o.line_ending]
<1>2. /\ captured.write_policy \in Policies
      /\ Profile.write_policy = "deny"    => captured.write_policy = "deny"
      /\ Profile.write_policy = "confirm" => captured.write_policy # "allow"
  BY MaxIsStricter
<1>3. captured \in Captured
  BY <1>2 DEF Captured
<1>4. \A t \in Sessions : policy'[t] = IF t = s THEN captured ELSE policy[t]
  BY <1>1 DEF GateInv, Shaped
<1>5. policy[s] = None /\ UNCHANGED <<call, asked, answers>>
  BY DEF Open
<1>6. Shaped'
  BY <1>1, <1>3, <1>5 DEF GateInv, Shaped, InFlight, Open
<1>7. NoWeaker'
  BY <1>2, <1>4 DEF GateInv, NoWeaker
<1>8. PoliciesLast
  BY <1>4, <1>5 DEF PoliciesLast
<1> QED BY <1>5, <1>6, <1>7, <1>8, StepKeepsInv

\* A new call starts with nothing established, and carries only an answer that
\* a person gave.
LEMMA StartKeepsInv == ASSUME GateInv, NEW c \in Calls, Start(c) PROVE GateInv'
<1> USE ConstantsAssumption
<1>1. PICK new \in InFlight :
        /\ new.pc \in {"console", "policy"} /\ policy[new.sid] # None
        /\ call' = [call EXCEPT ![c] = new]
  BY DEF Start, InFlight, Pcs
<1>2. Vetted(new)
  BY <1>1 DEF Vetted, PastPolicy
<1>3. UNCHANGED <<live, policy, answers, asked>>
  BY DEF Start, CallFrame
<1>4. Shaped' /\ NoWeaker' /\ PoliciesLast
  BY <1>1, <1>2, <1>3 DEF GateInv, Shaped, NoWeaker, PoliciesLast, InFlight
<1>5. \A d \in Calls : call'[d] = IF d = c THEN new ELSE call[d]
  BY <1>1 DEF GateInv, Shaped
<1> QED BY <1>2, <1>3, <1>4, <1>5, StepKeepsInv

\* Each gate keeps the invariant.
LEMMA CallKeepsInv == ASSUME GateInv, NEW c \in Calls, CallNext(c) PROVE GateInv'
<1> DEFINE k == call[c]
<1>1. CASE Start(c)
  BY <1>1, StartKeepsInv
<1>2. ASSUME NEW pc, Vanished(c, pc) PROVE GateInv'
  BY <1>2, ReplyKeepsInv DEF Vanished
<1>3. ASSUME NEW pc, Refused(c, pc) PROVE GateInv'
  BY <1>3, ReplyKeepsInv DEF Refused
<1>4. CASE ConsoleSettings(c)
  <2>1. CASE Passes(c, "console", "policy")
    BY <2>1, MoveKeepsInv DEF Passes, Pcs
  <2> QED BY <1>2, <1>4, <2>1 DEF ConsoleSettings
<1>5. CASE PolicyGate(c)
  <2>1. CASE Passes(c, "policy", "gate") /\ ~Blocked(k) /\ Fits(k)
    <3>1. Clear(k)
      BY <2>1 DEF Clear, Fits
    <3> QED BY <2>1, <3>1, MoveKeepsInv DEF Passes, Pcs
  <2> QED BY <1>2, <1>3, <1>5, <2>1 DEF PolicyGate
<1>6. CASE Gate(c)
  <2> DEFINE wp      == policy[k.sid].write_policy
             proceed == IF k.tool = "serial.write" THEN "send" ELSE "timeout"
             agreed  == \/ wp = "allow"
                        \/ wp = "confirm" /\ IF k.elicits
                                      THEN Answered(k) /\ confirmation_answer(k.response.action)
                                      ELSE k.confirm
             mustAsk == wp = "confirm" /\ k.elicits /\ ~Answered(k)
  <2>1. ASSUME k.pc = "gate" PROVE Clear(k) /\ k.sid \in Sessions /\ policy[k.sid] # None
    BY <2>1 DEF GateInv, Vetted, PastPolicy, Shaped, InFlight, Idle
  <2>2. CASE Passes(c, "gate", proceed) /\ agreed
    <3>1. k.pc = "gate" /\ k \in InFlight
      BY <2>2 DEF Passes, GateInv, Shaped, Idle
    <3>2. "deny" \notin {wp, Profile.write_policy}
      BY <2>1, <2>2, <3>1 DEF GateInv, NoWeaker
    <3>3. CASE wp = "allow"
      <4>1. Profile.write_policy # "confirm"
        BY <2>1, <3>1, <3>3 DEF GateInv, NoWeaker
      <4>2. Permitted(k)
        BY <3>2, <3>3, <4>1 DEF Permitted
      <4> QED BY <2>1, <2>2, <3>1, <4>2, MoveKeepsInv DEF Passes, Pcs
    <3>4. CASE wp = "confirm" /\ ~k.elicits
      <4>1. Permitted(k)
        BY <2>2, <3>2, <3>4 DEF Permitted
      <4> QED BY <2>1, <2>2, <3>1, <4>1, MoveKeepsInv DEF Passes, Pcs
    <3>5. CASE wp = "confirm" /\ k.elicits
      <4>1. Answered(k) /\ confirmation_answer(k.response.action)
        BY <2>2, <3>5
      <4>2. k.response \in answers
        BY <3>1, <4>1 DEF Answered, InFlight
      <4>3. k.response = [key    |-> [sid |-> k.sid, tool |-> k.tool, payload |-> Payload(k)],
                          action |-> "accept"]
        BY <4>1, <4>2 DEF GateInv, Shaped, Answered, confirmation_key, confirmation_answer
      <4>4. Permitted(k)
        BY <3>2, <3>5, <4>2, <4>3 DEF Permitted
      <4> QED BY <2>1, <2>2, <3>1, <4>4, MoveKeepsInv DEF Passes, Pcs
    <3> QED BY <2>2, <3>3, <3>4, <3>5
  <2>3. CASE Passes(c, "gate", "ask") /\ mustAsk
    BY <2>1, <2>3, MoveKeepsInv DEF Passes, Pcs
  <2> QED BY <1>2, <1>3, <1>6, <2>2, <2>3 DEF Gate
<1>7. CASE Ask(c)
  <2>1. CASE Vanished(c, "ask")
    BY <1>2, <2>1
  <2>2. CASE k.pc = "ask" /\ asked' = asked \cup {confirmation_key(k)} /\ Replies(c) /\ CallFrame
    <3>1. /\ k \in InFlight /\ Clear(k) /\ policy[k.sid] # None
          /\ policy[k.sid].write_policy = "confirm"
      BY <2>2 DEF GateInv, Vetted, PastPolicy, Shaped, Idle
    <3>2. CASE k.tool = "serial.write"
      <4>1. Worthwhile(confirmation_key(k))
        BY <3>1, <3>2 DEF Worthwhile, confirmation_key, Clear, Blocked
      <4> QED BY <2>2, <3>1, <4>1, ReplyKeepsInv DEF Meant, InFlight, confirmation_key
    <3>3. CASE k.tool # "serial.write"
      <4>1. /\ ~check(policy[k.sid].rules, k.data, policy[k.sid].line_ending, k.line_ending)
            /\ Payload(k) = k.data \o bytes(IF k.line_ending = None
                                            THEN policy[k.sid].line_ending ELSE k.line_ending)
        BY <3>1, <3>3 DEF Clear, Blocked, Payload
      <4>2. Worthwhile(confirmation_key(k))
        BY <3>1, <3>3, <4>1 DEF Worthwhile, confirmation_key, Clear, InFlight
      <4> QED BY <2>2, <3>1, <4>2, ReplyKeepsInv DEF Meant, InFlight, confirmation_key
    <3> QED BY <3>2, <3>3
  <2> QED BY <1>7, <2>1, <2>2 DEF Ask
<1>8. CASE Timeout(c)
  <2>1. CASE k.pc = "timeout" /\ GoesTo(c, "send") /\ UNCHANGED asked /\ CallFrame
    <3>1. Clear(k) /\ Permitted(k)
      BY <2>1 DEF GateInv, Vetted, PastPolicy
    <3> QED BY <2>1, <3>1, MoveKeepsInv DEF Pcs
  <2> QED BY <1>2, <1>8, <2>1 DEF Timeout
<1>9. CASE Send(c)
  BY <1>2, <1>9, ReplyKeepsInv DEF Send
<1> QED BY <1>1, <1>4, <1>5, <1>6, <1>7, <1>8, <1>9 DEF CallNext

\* GateInv holds initially, and every step keeps it.
LEMMA GateInvInductive ==
  /\ Init => GateInv
  /\ GateInv /\ [Next]_vars => GateInv'
<1>1. Init => GateInv
  BY DEF Init, GateInv, Shaped, NoWeaker, Vetted, Idle
<1>2. ASSUME GateInv, [Next]_vars PROVE GateInv'
  <2>1. ASSUME NEW s \in Sessions, Close(s) PROVE GateInv'
    <3>1. Shaped' /\ NoWeaker' /\ PoliciesLast /\ UNCHANGED <<call, asked>>
      BY <1>2, <2>1 DEF Close, GateInv, Shaped, NoWeaker, PoliciesLast, InFlight
    <3> QED BY <1>2, <3>1, StepKeepsInv
  <2>2. CASE Answer
    <3>1. PICK key \in asked, action \in Answers :
            answers' = answers \cup {[key |-> key, action |-> action]}
      BY <2>2 DEF Answer
    <3>2. UNCHANGED <<live, policy, call, asked>>
      BY <2>2 DEF Answer
    <3>3. Shaped' /\ NoWeaker' /\ PoliciesLast
      BY <1>2, <3>1, <3>2 DEF GateInv, Shaped, NoWeaker, PoliciesLast, InFlight
    <3> QED BY <1>2, <3>2, <3>3, StepKeepsInv
  <2>3. CASE UNCHANGED vars
    <3>1. Shaped' /\ NoWeaker' /\ PoliciesLast /\ UNCHANGED <<call, asked>>
      BY <1>2, <2>3 DEF vars, GateInv, Shaped, NoWeaker, PoliciesLast, InFlight
    <3> QED BY <1>2, <3>1, StepKeepsInv
  <2> QED BY <1>2, <2>1, <2>2, <2>3, OpenKeepsInv, CallKeepsInv DEF Next
<1> QED BY <1>1, <1>2

-----------------------------------------------------------------------------
(* Types *)

Chars    == (UNION {{w[i] : i \in DOMAIN w} : w \in Commands}) \cup {"lf", "cr"}
Submits  == [text : Strings, cut : BOOLEAN]
Consoles == [line : Strings, cut : BOOLEAN, ran : SUBSET Submits, by : Sessions \cup {None}]

TypeInv ==
  /\ asked \subseteq Keys
  /\ answers \subseteq [key : Keys, action : Answers]
  /\ console \in Consoles

\* The recursion of Passage is well-founded: its equation has a solution for
\* every payload, by induction over the payload's length.
LEMMA PassageEquation ==
  ASSUME NEW con, NEW p, Len(p) \in Nat
  PROVE  Passage(con, p) =
           [i \in 0..Len(p) |-> IF i = 0 THEN con ELSE ConsoleTakes(Passage(con, p)[i - 1], p[i])]
<1> DEFINE Is(f, k) == f = [i \in 0..k |-> IF i = 0 THEN con ELSE ConsoleTakes(f[i - 1], p[i])]
           T == {k \in Nat : \E f : Is(f, k)}
<1>1. 0 \in T
  <2>1. Is([i \in 0..0 |-> con], 0)
    OBVIOUS
  <2> QED BY <2>1
<1>2. ASSUME NEW k \in Nat, k \in T PROVE k + 1 \in T
  <2>1. PICK f : Is(f, k)
    BY <1>2
  <2> DEFINE g == [i \in 0..k + 1 |-> IF i = 0 THEN con ELSE ConsoleTakes(f[i - 1], p[i])]
  <2>2. \A i \in 0..k : g[i] = f[i]
    BY <2>1
  <2>3. \A i \in 0..k + 1 : i # 0 => i - 1 \in 0..k
    OBVIOUS
  <2>4. \A i \in 0..k + 1 : i # 0 => g[i - 1] = f[i - 1]
    BY <2>2, <2>3
  <2>5. Is(g, k + 1)
    BY <2>4, Zenon
  <2> HIDE DEF g, Is
  <2> QED BY <2>5
<1>3. Len(p) \in T
  <2> HIDE DEF T
  <2> QED BY <1>1, <1>2, Induction
<1>4. PICK f : Is(f, Len(p))
  BY <1>3
<1>5. Passage(con, p) = CHOOSE after : Is(after, Len(p))
  BY DEF Passage
<1> QED BY <1>4, <1>5

\* What the console does with the first character, and with the next.
LEMMA PassageSteps ==
  ASSUME NEW con, NEW p, Len(p) \in Nat
  PROVE  /\ Passage(con, p)[0] = con
         /\ \A i \in 0..Len(p) - 1 :
              Passage(con, p)[i + 1] = ConsoleTakes(Passage(con, p)[i], p[i + 1])
<1> DEFINE P == Passage(con, p)
<1>1. P = [i \in 0..Len(p) |-> IF i = 0 THEN con ELSE ConsoleTakes(P[i - 1], p[i])]
  BY PassageEquation
<1> HIDE DEF P
<1>2. P[0] = con
  BY <1>1
<1>3. ASSUME NEW i \in 0..Len(p) - 1 PROVE P[i + 1] = ConsoleTakes(P[i], p[i + 1])
  <2>1. i + 1 \in 0..Len(p) /\ i + 1 # 0 /\ (i + 1) - 1 = i
    OBVIOUS
  <2>2. P[i + 1] = ConsoleTakes(P[(i + 1) - 1], p[i + 1])
    BY <1>1, <2>1
  <2> QED BY <2>1, <2>2
<1> QED BY <1>2, <1>3 DEF P

\* Induction over the prefixes of a payload.
LEMMA PrefixInduction ==
  ASSUME NEW n \in Nat, NEW T, 0 \in T, \A i \in 0..n - 1 : i \in T => i + 1 \in T
  PROVE  0..n \subseteq T
<1> DEFINE U == {i \in Nat : i <= n => i \in T}
<1>1. 0 \in U
  OBVIOUS
<1>2. \A i \in Nat : i \in U => i + 1 \in U
  OBVIOUS
<1>3. Nat \subseteq U
  <2> HIDE DEF U
  <2> QED BY <1>1, <1>2, Induction
<1> QED BY <1>3

LEMMA ConsoleTakesTyped ==
  ASSUME NEW con \in Consoles, NEW char \in Chars
  PROVE  ConsoleTakes(con, char) \in Consoles
<1>1. Strings = Seq(Chars)
  BY DEF Strings, Chars
<1>2. con.line \in Seq(Chars) /\ con.cut \in BOOLEAN /\ con.ran \in SUBSET Submits
  BY <1>1 DEF Consoles
<1>3. CASE ~is_control(char)
  <2>1. ConsoleTakes(con, char) = [con EXCEPT !.line = Append(con.line, char)]
    BY <1>3 DEF ConsoleTakes
  <2>2. Append(con.line, char) \in Strings
    BY <1>1, <1>2
  <2> QED BY <2>1, <2>2 DEF Consoles
<1>4. CASE is_control(char) /\ con.line # <<>> /\ Last(con.line) = "bs"
  <2>1. ConsoleTakes(con, char) = [con EXCEPT !.line = Front(con.line)]
    BY <1>4 DEF ConsoleTakes
  <2>2. Front(con.line) \in Seq(Chars)
    BY <1>2 DEF Front
  <2> QED BY <1>1, <2>1, <2>2 DEF Consoles
<1>5. CASE is_control(char) /\ ~(con.line # <<>> /\ Last(con.line) = "bs")
  <2>1. ConsoleTakes(con, char) =
          [con EXCEPT !.line = <<>>, !.cut = FALSE,
                      !.ran = con.ran \cup {[text |-> con.line, cut |-> con.cut]}]
    BY <1>5 DEF ConsoleTakes
  <2>2. <<>> \in Strings /\ [text |-> con.line, cut |-> con.cut] \in Submits
    BY <1>1, <1>2 DEF Submits
  <2>3. con.ran \cup {[text |-> con.line, cut |-> con.cut]} \in SUBSET Submits
    BY <1>2, <2>2
  <2>4. ConsoleTakes(con, char) =
          [line |-> <<>>, cut |-> FALSE,
           ran |-> con.ran \cup {[text |-> con.line, cut |-> con.cut]}, by |-> con.by]
    BY <2>1 DEF Consoles
  <2>5. con.by \in Sessions \cup {None}
    BY DEF Consoles
  <2> QED BY <2>2, <2>3, <2>4, <2>5 DEF Consoles
<1> QED BY <1>3, <1>4, <1>5

\* The console that takes payload for session s.
Before(con, s) == [con EXCEPT !.ran = {}, !.by = s]

\* Whatever the console is sent, its state keeps its type.
LEMMA PassageTyped ==
  ASSUME NEW con \in Consoles, NEW payload \in Strings
  PROVE  \A i \in 0..Len(payload) : Passage(con, payload)[i] \in Consoles
<1> DEFINE P == Passage(con, payload)
           T == {i \in 0..Len(payload) : P[i] \in Consoles}
<1>1. payload \in Seq(Chars)
  BY DEF Strings, Chars
<1>2. Len(payload) \in Nat /\ \A i \in 0..Len(payload) - 1 : payload[i + 1] \in Chars
  BY <1>1
<1>3. P[0] = con /\ \A i \in 0..Len(payload) - 1 : P[i + 1] = ConsoleTakes(P[i], payload[i + 1])
  BY <1>2, PassageSteps
<1> HIDE DEF P
<1>4. 0 \in T
  BY <1>2, <1>3
<1>5. ASSUME NEW i \in 0..Len(payload) - 1, i \in T PROVE i + 1 \in T
  BY <1>2, <1>3, <1>5, ConsoleTakesTyped
<1>6. 0..Len(payload) \subseteq T
  <2> HIDE DEF T
  <2> QED BY <1>2, <1>4, <1>5, PrefixInduction
<1> QED BY <1>6 DEF P

LEMMA PassageKeepsBy ==
  ASSUME NEW con \in Consoles, NEW payload \in Strings
  PROVE  \A i \in 0..Len(payload) : Passage(con, payload)[i].by = con.by
<1> DEFINE P == Passage(con, payload)
           T == {i \in 0..Len(payload) : P[i].by = con.by}
<1>1. Len(payload) \in Nat
  BY DEF Strings
<1>2. P[0] = con /\ \A i \in 0..Len(payload) - 1 : P[i + 1] = ConsoleTakes(P[i], payload[i + 1])
  BY <1>1, PassageSteps
<1>3. \A i \in 0..Len(payload) : P[i] \in Consoles
  BY PassageTyped
<1> HIDE DEF P
<1>4. 0 \in T
  BY <1>1, <1>2
<1>5. ASSUME NEW i \in 0..Len(payload) - 1, i \in T PROVE i + 1 \in T
  <2>1. i \in 0..Len(payload) /\ i + 1 \in 0..Len(payload)
    BY <1>1
  <2>2. P[i + 1].by = P[i].by
    BY <1>2, <1>3, <2>1 DEF ConsoleTakes, Consoles
  <2> QED BY <1>5, <2>1, <2>2
<1>6. 0..Len(payload) \subseteq T
  <2> HIDE DEF T
  <2> QED BY <1>1, <1>4, <1>5, PrefixInduction
<1> QED BY <1>6 DEF P

LEMMA ReceivesTyped ==
  ASSUME NEW con \in Consoles, NEW s \in Sessions, NEW payload \in Strings,
         NEW n \in 0..Len(payload)
  PROVE  Receives(con, s, payload, n) \in Consoles /\ Receives(con, s, payload, n).by = s
<1>1. Before(con, s) \in Consoles /\ Before(con, s).by = s
  BY DEF Consoles, Before
<1>2. /\ Passage(Before(con, s), payload)[n] \in Consoles
      /\ Passage(Before(con, s), payload)[n].by = s
  BY <1>1, PassageTyped, PassageKeepsBy
<1> QED BY <1>2 DEF Receives, Consoles, Before

\* What a call would transmit is a string.
LEMMA PayloadTyped ==
  ASSUME Shaped, NEW k \in InFlight, policy[k.sid] # None
  PROVE  Payload(k) \in Strings
<1> USE ConstantsAssumption
<1>1. Strings = Seq(Chars)
  BY DEF Strings, Chars
<1>2. policy[k.sid] \in Captured
  BY DEF Shaped, InFlight
<1>3. k.data \in Seq(Chars)
  BY <1>1 DEF InFlight
<1>4. ASSUME NEW e \in Endings PROVE bytes(e) \in Seq(Chars)
  <2>1. /\ bytes("none") = <<>> /\ bytes("lf") = <<"lf">>
        /\ bytes("cr") = <<"cr">> /\ bytes("crlf") = <<"cr", "lf">>
    BY DEF bytes
  <2>2. <<>> \in Seq(Chars) /\ \A a, b \in Chars : <<a>> \in Seq(Chars) /\ <<a, b>> \in Seq(Chars)
    OBVIOUS
  <2>3. "lf" \in Chars /\ "cr" \in Chars
    BY Zenon DEF Chars
  <2>4. e = "none" \/ e = "lf" \/ e = "cr" \/ e = "crlf"
    BY <1>4 DEF Endings
  <2> HIDE ConstantsAssumption DEF Chars
  <2> QED BY <2>1, <2>2, <2>3, <2>4
<1>5. (IF k.line_ending = None THEN policy[k.sid].line_ending ELSE k.line_ending) \in Endings
  BY <1>2 DEF InFlight, Captured
<1> QED BY <1>1, <1>3, <1>4, <1>5 DEF Payload

\* What serial.open captures: the profile's rules and the caller's.
LEMMA OpenCaptures ==
  ASSUME Shaped, NEW s \in Sessions, Open(s)
  PROVE  /\ policy'[s] \in Captured
         /\ policy'[s].rules.allow = Profile.allow
         /\ Profile.deny \subseteq policy'[s].rules.deny
         /\ \A t \in Sessions \ {s} : policy'[t] = policy[t]
<1> USE ConstantsAssumption
<1>1. PICK o \in OpenOptions :
        policy' = [policy EXCEPT ![s] =
          [write_policy |-> max(Profile.write_policy, o.write_policy),
           rules        |-> [deny |-> Profile.deny \cup o.deny, allow |-> Profile.allow],
           line_ending  |-> IF o.line_ending = None THEN Profile.line_ending ELSE o.line_ending]]
  BY DEF Open
<1> DEFINE captured ==
          [write_policy |-> max(Profile.write_policy, o.write_policy),
           rules        |-> [deny |-> Profile.deny \cup o.deny, allow |-> Profile.allow],
           line_ending  |-> IF o.line_ending = None THEN Profile.line_ending ELSE o.line_ending]
<1>2. captured.write_policy \in Policies
  BY MaxIsStricter
<1>3. captured \in Captured
  BY <1>2 DEF Captured
<1>4. policy'[s] = captured /\ \A t \in Sessions \ {s} : policy'[t] = policy[t]
  BY <1>1 DEF Shaped
<1> QED BY <1>3, <1>4

\* A live session was opened.
LiveOpened == \A s \in Sessions : live[s] => policy[s] # None

LEMMA TypeInvInductive ==
  /\ Init => TypeInv /\ LiveOpened
  /\ GateInv /\ TypeInv /\ LiveOpened /\ [Next]_vars => (TypeInv /\ LiveOpened)'
<1>1. Init => TypeInv /\ LiveOpened
  <2>1. <<>> \in Strings
    BY DEF Strings
  <2>2. Init => console \in Consoles
    BY <2>1 DEF Init, Consoles
  <2> QED BY <2>2 DEF Init, TypeInv, LiveOpened
<1>2. ASSUME GateInv, TypeInv, LiveOpened, [Next]_vars PROVE (TypeInv /\ LiveOpened)'
  <2>1. Shaped
    BY <1>2 DEF GateInv
  <2>2. ASSUME UNCHANGED <<live, policy>> PROVE LiveOpened'
    BY <1>2, <2>2 DEF LiveOpened
  <2>3. ASSUME UNCHANGED <<asked, answers, console>> PROVE TypeInv'
    BY <1>2, <2>3 DEF TypeInv
  <2>4. ASSUME NEW s \in Sessions, Open(s) PROVE (TypeInv /\ LiveOpened)'
    <3>1. policy'[s] # None /\ \A t \in Sessions \ {s} : policy'[t] = policy[t]
      BY <2>1, <2>4, OpenCaptures, ConstantsAssumption
    <3>2. live' = [live EXCEPT ![s] = TRUE] /\ UNCHANGED <<asked, answers, console>>
      BY <2>4 DEF Open
    <3>3. LiveOpened'
      BY <1>2, <2>1, <3>1, <3>2 DEF LiveOpened, Shaped
    <3> QED BY <2>3, <3>2, <3>3
  <2>5. ASSUME NEW s \in Sessions, Close(s) PROVE (TypeInv /\ LiveOpened)'
    <3>1. live' = [live EXCEPT ![s] = FALSE] /\ UNCHANGED <<policy, asked, answers, console>>
      BY <2>5 DEF Close
    <3>2. LiveOpened'
      BY <1>2, <2>1, <3>1 DEF LiveOpened, Shaped
    <3> QED BY <2>3, <3>1, <3>2
  <2>6. ASSUME NEW c \in Calls, CallNext(c) PROVE (TypeInv /\ LiveOpened)'
    <3>1. UNCHANGED <<live, policy, answers>>
      BY <2>6 DEF CallNext, Start, ConsoleSettings, PolicyGate, Gate, Ask, Timeout, Send,
                  Vanished, Passes, Refused, CallFrame
    <3>2. CASE Ask(c) /\ asked' = asked \cup {confirmation_key(call[c])} /\ UNCHANGED console
                /\ call[c].pc = "ask"
      <4>1. call[c] \in InFlight /\ policy[call[c].sid] # None
        BY <1>2, <2>1, <3>2 DEF Shaped, Idle, GateInv, Vetted
      <4>2. confirmation_key(call[c]) \in Keys
        BY <2>1, <4>1, PayloadTyped DEF confirmation_key, Keys, InFlight
      <4>3. TypeInv'
        BY <1>2, <3>1, <3>2, <4>2 DEF TypeInv
      <4> QED BY <2>2, <3>1, <4>3
    <3>3. ASSUME call[c].pc = "send", UNCHANGED asked,
                 NEW n \in 0..Len(Payload(call[c])),
                 console' = Receives(console, call[c].sid, Payload(call[c]), n)
          PROVE  (TypeInv /\ LiveOpened)'
      <4>1. call[c] \in InFlight /\ policy[call[c].sid] # None /\ call[c].sid \in Sessions
        BY <1>2, <2>1, <3>3 DEF Shaped, Idle, GateInv, Vetted, InFlight
      <4>2. console' \in Consoles
        BY <1>2, <2>1, <3>3, <4>1, PayloadTyped, ReceivesTyped DEF TypeInv
      <4>3. TypeInv'
        BY <1>2, <3>1, <3>3, <4>2 DEF TypeInv
      <4> QED BY <2>2, <3>1, <4>3
    <3>4. CASE UNCHANGED <<asked, console>>
      BY <2>2, <2>3, <3>1, <3>4
    <3>5. \/ UNCHANGED <<asked, console>>
          \/ Ask(c) /\ asked' = asked \cup {confirmation_key(call[c])} /\ UNCHANGED console
               /\ call[c].pc = "ask"
          \/ /\ call[c].pc = "send" /\ UNCHANGED asked
             /\ \E n \in 0..Len(Payload(call[c])) :
                  console' = Receives(console, call[c].sid, Payload(call[c]), n)
      BY <2>6 DEF CallNext, Start, ConsoleSettings, PolicyGate, Gate, Ask, Timeout, Send,
                  Vanished, Passes, Refused
    <3> QED BY <3>2, <3>3, <3>4, <3>5
  <2>7. CASE Answer
    <3>1. PICK key \in asked, action \in Answers :
            answers' = answers \cup {[key |-> key, action |-> action]}
      BY <2>7 DEF Answer
    <3>2. UNCHANGED <<live, policy, asked, console>>
      BY <2>7 DEF Answer
    <3>3. TypeInv'
      BY <1>2, <3>1, <3>2 DEF TypeInv
    <3> QED BY <2>2, <3>2, <3>3
  <2>8. CASE UNCHANGED vars
    BY <2>2, <2>3, <2>8 DEF vars
  <2> QED BY <1>2, <2>4, <2>5, <2>6, <2>7, <2>8 DEF Next
<1> QED BY <1>1, <1>2

-----------------------------------------------------------------------------
(* What a guarded command does to the console *)

\* The next character of data is appended to what the console has of it.
LEMMA AppendNext ==
  ASSUME NEW line \in Seq(Chars), NEW data \in Seq(Chars), NEW i \in 0..Len(data) - 1
  PROVE  Append(line \o SubSeq(data, 1, i), data[i + 1]) = line \o SubSeq(data, 1, i + 1)
  OBVIOUS

\* A guarded payload: one line, whose end a backslash does not escape, and then
\* nothing but terminators.
OneLine(data, p) ==
  /\ Len(data) < Len(p)
  /\ \A i \in 1..Len(data) : p[i] = data[i] /\ ~is_control(data[i])
  /\ \A i \in Len(data) + 1..Len(p) : is_control(p[i])
  /\ data # <<>> => Last(data) # "bs"

\* What it submits is the line or nothing, or begins with a cut, and what it
\* leaves begins with one.
Whole(con, data) ==
  /\ con.line = <<>> \/ con.cut
  /\ \A l \in con.ran : l.cut \/ l.text = <<>> \/ l.text = data

LEMMA GuardedPassage ==
  ASSUME NEW con \in Consoles, con.ran = {}, con.line = <<>> \/ con.cut,
         NEW data \in Seq(Chars), NEW p \in Seq(Chars), OneLine(data, p)
  PROVE  \A i \in 0..Len(p) :
           LET after == Passage(con, p)[i] IN
           /\ after \in Consoles /\ after.by = con.by
           /\ i <= Len(data) => after = [con EXCEPT !.line = con.line \o SubSeq(data, 1, i)]
           /\ i > Len(data)  => Whole(after, data)
<1> DEFINE d == Len(data)
           P == Passage(con, p)
           Kept(i) == /\ P[i].by = con.by
                      /\ i <= d => P[i] = [con EXCEPT !.line = con.line \o SubSeq(data, 1, i)]
                      /\ i > d  => Whole(P[i], data)
           T == {i \in 0..Len(p) : Kept(i)}
<1>1. Strings = Seq(Chars)
  BY DEF Strings, Chars
<1>3. d \in Nat /\ Len(p) \in Nat /\ d < Len(p)
  BY DEF OneLine
<1>4. /\ \A i \in 0..d - 1 : p[i + 1] = data[i + 1] /\ ~is_control(p[i + 1])
      /\ \A i \in d..Len(p) - 1 : is_control(p[i + 1])
  BY DEF OneLine
<1>5. \A i \in 0..Len(p) : P[i] \in Consoles
  BY <1>1, <1>3, PassageTyped
<1>6. P[0] = con /\ \A i \in 0..Len(p) - 1 : P[i + 1] = ConsoleTakes(P[i], p[i + 1])
  BY <1>3, PassageSteps
<1>7. con.line \in Seq(Chars)
  BY <1>1 DEF Consoles
<1> HIDE DEF P, d
<1>8. 0 \in T
  <2>1. con.line \o SubSeq(data, 1, 0) = con.line
    BY <1>7
  <2>2. con = [con EXCEPT !.line = con.line]
    BY DEF Consoles
  <2>3. P[0] = [con EXCEPT !.line = con.line \o SubSeq(data, 1, 0)]
    BY <1>6, <2>1, <2>2, Zenon
  <2>4. ~ (0 > d) /\ 0 \in 0..Len(p)
    BY <1>3
  <2>5. P[0].by = con.by
    BY <1>6
  <2> QED BY <2>3, <2>4, <2>5, Zenon
<1>9. ASSUME NEW i \in 0..Len(p) - 1, i \in T PROVE i + 1 \in T
  <2>0. i \in Nat /\ i + 1 \in 0..Len(p) /\ i \in 0..Len(p)
    BY <1>3
  <2>1. Kept(i) /\ P[i] \in Consoles /\ P[i + 1] = ConsoleTakes(P[i], p[i + 1])
    BY <1>3, <1>5, <1>6, <1>9
  <2>2. CASE i < d
    <3>1. P[i + 1] = [P[i] EXCEPT !.line = Append(P[i].line, data[i + 1])]
      <4>1. p[i + 1] = data[i + 1] /\ ~is_control(p[i + 1])
        BY <1>3, <1>4, <2>0, <2>2
      <4> QED BY <2>1, <4>1 DEF ConsoleTakes
    <3>2. P[i] = [con EXCEPT !.line = con.line \o SubSeq(data, 1, i)]
      BY <1>3, <2>0, <2>1, <2>2
    <3>3. Append(con.line \o SubSeq(data, 1, i), data[i + 1]) = con.line \o SubSeq(data, 1, i + 1)
      <4>1. i \in 0..Len(data) - 1
        BY <1>3, <2>2 DEF d
      <4> QED BY <1>7, <4>1, AppendNext
    <3>4. P[i].line = con.line \o SubSeq(data, 1, i)
      BY <3>2 DEF Consoles
    <3>5. P[i + 1] = [con EXCEPT !.line = con.line \o SubSeq(data, 1, i + 1)]
      BY <3>1, <3>2, <3>3, <3>4
    <3> QED BY <1>3, <2>1, <2>2, <3>5 DEF Consoles
  <2>3. CASE i >= d
    <3> DEFINE continued == P[i].line # <<>> /\ Last(P[i].line) = "bs"
    <3>1. is_control(p[i + 1])
      BY <1>3, <1>4, <2>3
    <3>2. i = d => P[i].line = con.line \o data /\ P[i].cut = con.cut /\ P[i].ran = {}
      <4>1. SubSeq(data, 1, d) = data
        BY DEF d
      <4>2. ASSUME i = d PROVE P[i] = [con EXCEPT !.line = con.line \o data]
        <5>1. i <= d
          BY <1>3, <4>2
        <5>2. P[i] = [con EXCEPT !.line = con.line \o SubSeq(data, 1, i)]
          BY <2>1, <5>1
        <5> QED BY <4>1, <4>2, <5>2, Zenon
      <4>3. i = d => P[i].line = con.line \o data /\ P[i].cut = con.cut /\ P[i].ran = con.ran
        BY <4>2 DEF Consoles
      <4> QED BY <4>3
    <3>3. continued => P[i].cut
      <4>1. CASE i = d /\ data # <<>>
        <5>1. Last(con.line \o data) = Last(data)
          BY <1>7, <4>1 DEF Last
        <5> QED BY <3>2, <4>1, <5>1 DEF OneLine
      <4>2. CASE i = d /\ data = <<>>
        BY <1>7, <3>2, <4>2
      <4>3. CASE i > d
        BY <2>1, <4>3 DEF Whole
      <4> QED BY <1>3, <2>3, <4>1, <4>2, <4>3
    <3>4. \A l \in P[i].ran : l.cut \/ l.text = <<>> \/ l.text = data
      BY <1>3, <2>1, <2>3, <3>2 DEF Whole
    <3>5. P[i].cut \/ P[i].line = <<>> \/ P[i].line = data
      <4>1. <<>> \o data = data
        OBVIOUS
      <4>2. CASE i = d
        BY <3>2, <4>1, <4>2
      <4>3. CASE i > d
        BY <2>1, <4>3 DEF Whole
      <4> QED BY <1>3, <2>3, <4>2, <4>3
    <3>6. CASE continued
      <4>1. P[i + 1] = [P[i] EXCEPT !.line = Front(P[i].line)]
        BY <2>1, <3>1, <3>6 DEF ConsoleTakes
      <4>2. P[i + 1].cut /\ P[i + 1].ran = P[i].ran /\ P[i + 1].by = P[i].by
        BY <2>1, <3>3, <3>6, <4>1 DEF Consoles
      <4> QED BY <1>3, <2>1, <2>3, <3>4, <4>2 DEF Whole
    <3>7. CASE ~continued
      <4>1. P[i + 1] = [P[i] EXCEPT !.line = <<>>, !.cut = FALSE,
                          !.ran = P[i].ran \cup {[text |-> P[i].line, cut |-> P[i].cut]}]
        BY <2>1, <3>1, <3>7 DEF ConsoleTakes
      <4>2. /\ P[i + 1].line = <<>> /\ P[i + 1].by = P[i].by
            /\ P[i + 1].ran = P[i].ran \cup {[text |-> P[i].line, cut |-> P[i].cut]}
        BY <2>1, <4>1 DEF Consoles
      <4> QED BY <1>3, <2>1, <2>3, <3>4, <3>5, <4>2 DEF Whole
    <3> QED BY <3>6, <3>7
  <2> QED BY <1>3, <2>2, <2>3
<1>10. 0..Len(p) \subseteq T
  <2> HIDE DEF T
  <2> QED BY <1>3, <1>8, <1>9, PrefixInduction
<1> QED BY <1>5, <1>10 DEF P, d

\* A command the rules let through, with its terminator, is one line.
LEMMA EndingTerminates ==
  ASSUME NEW data \in Seq(Chars), NEW e \in Endings \ {"none"},
         \A i \in DOMAIN data : ~is_control(data[i]), data # <<>> => Last(data) # "bs"
  PROVE  data \o bytes(e) \in Seq(Chars) /\ OneLine(data, data \o bytes(e))
<1>1. "lf" \in Chars /\ "cr" \in Chars
  BY Zenon DEF Chars
<1>2. is_control("lf") /\ is_control("cr")
  BY DEF is_control
<1>3. bytes(e) = <<"lf">> \/ bytes(e) = <<"cr">> \/ bytes(e) = <<"cr", "lf">>
  BY DEF bytes, Endings
<1>4. /\ <<"lf">> \in Seq(Chars) /\ <<"cr">> \in Seq(Chars) /\ <<"cr", "lf">> \in Seq(Chars)
  BY <1>1
<1>5. ASSUME NEW t \in Seq(Chars), Len(t) > 0, \A j \in 1..Len(t) : is_control(t[j])
      PROVE  data \o t \in Seq(Chars) /\ OneLine(data, data \o t)
  <2>1. Len(data \o t) = Len(data) + Len(t)
    OBVIOUS
  <2>2. \A i \in 1..Len(data) : (data \o t)[i] = data[i] /\ ~is_control(data[i])
    OBVIOUS
  <2>3. \A i \in Len(data) + 1..Len(data \o t) : is_control((data \o t)[i])
    <3>1. ASSUME NEW i \in Len(data) + 1..Len(data) + Len(t)
          PROVE  (data \o t)[i] = t[i - Len(data)] /\ i - Len(data) \in 1..Len(t)
      OBVIOUS
    <3> QED BY <1>5, <2>1, <3>1
  <2> QED BY <1>5, <2>1, <2>2, <2>3 DEF OneLine
<1>6. ASSUME NEW t \in {<<"lf">>, <<"cr">>, <<"cr", "lf">>}
      PROVE  t \in Seq(Chars) /\ Len(t) > 0 /\ \A j \in 1..Len(t) : is_control(t[j])
  <2>1. CASE t = <<"lf">>
    BY <1>2, <1>4, <2>1
  <2>2. CASE t = <<"cr">>
    BY <1>2, <1>4, <2>2
  <2>3. CASE t = <<"cr", "lf">>
    BY <1>2, <1>4, <2>3
  <2> QED BY <2>1, <2>2, <2>3
<1>7. PICK t : t = bytes(e)
  OBVIOUS
<1>8. t \in Seq(Chars) /\ Len(t) > 0 /\ \A j \in 1..Len(t) : is_control(t[j])
  BY <1>3, <1>6, <1>7
<1>9. data \o t \in Seq(Chars) /\ OneLine(data, data \o t)
  BY <1>5, <1>8
<1> QED BY <1>7, <1>9

\* What open captured has the profile's rules.
RulesKept ==
  \A s \in Sessions : policy[s] # None =>
    policy[s].rules.allow = Profile.allow /\ Profile.deny \subseteq policy[s].rules.deny

\* Between two exchanges a guarded console has nothing on its line but what
\* begins with a cut; the session that submitted the last lines was opened.
LineInv ==
  /\ RulesKept
  /\ console.ran # {} => console.by \in Sessions /\ policy[console.by] # None
  /\ ~is_empty(ProfileRules) => console.line = <<>> \/ console.cut
  /\ LinesJudged

\* What a command that the gates let through does to a guarded console.
LEMMA GuardedSend ==
  ASSUME Shaped, RulesKept, console \in Consoles,
         ~is_empty(ProfileRules), console.line = <<>> \/ console.cut,
         NEW k \in InFlight, policy[k.sid] # None, ~Blocked(k),
         NEW n \in 0..Len(Payload(k)),
         NEW after, after = Receives(console, k.sid, Payload(k), n)
  PROVE  /\ after.by = k.sid
         /\ after.line = <<>> \/ after.cut
         /\ \A l \in after.ran :
              l.cut \/ (Judged(ProfileRules, l.text) /\ Judged(policy[k.sid].rules, l.text))
<1> DEFINE rules == policy[k.sid].rules
           e == policy[k.sid].line_ending
           p == Payload(k)
           con == Before(console, k.sid)
           P == Passage(con, p)
<1>1. /\ policy[k.sid] \in Captured /\ k.sid \in Sessions
      /\ rules.allow = Profile.allow /\ Profile.deny \subseteq rules.deny
  BY DEF Shaped, InFlight, RulesKept
<1>2. ~is_empty(rules)
  BY <1>1 DEF is_empty, ProfileRules
<1>3. k.tool # "serial.write" /\ ~check(rules, k.data, e, k.line_ending)
  BY <1>2 DEF Blocked
<1>4. /\ k.line_ending \in {None, e} /\ e # "none"
      /\ \A i \in DOMAIN k.data : ~is_control(k.data[i])
      /\ k.data # <<>> => Last(k.data) # "bs"
      /\ ~matched_rule(rules, k.data)
  BY <1>2, <1>3 DEF check
<1>5. p = k.data \o bytes(e)
  BY <1>3, <1>4 DEF Payload
<1>6. k.data \in Seq(Chars) /\ e \in Endings \ {"none"}
  BY <1>1, <1>4, ConstantsAssumption DEF InFlight, Strings, Chars, Captured
<1>7. p \in Seq(Chars) /\ OneLine(k.data, p)
  BY <1>4, <1>5, <1>6, EndingTerminates
<1>8. Judged(ProfileRules, k.data) /\ Judged(rules, k.data)
  BY <1>1, <1>4 DEF Judged, matched_rule, ProfileRules
<1>9. /\ con \in Consoles /\ con.ran = {} /\ con.by = k.sid
      /\ con.line = <<>> \/ con.cut
  BY <1>1 DEF Before, Consoles
<1>10. after = [P[n] EXCEPT !.cut = P[n].line # <<>> /\ (P[n].cut \/ n \in 1..Len(p) - 1)]
  BY DEF Receives, Before
<1> HIDE DEF con, P, p, rules
<1>11. /\ P[n] \in Consoles /\ P[n].by = k.sid
       /\ n <= Len(k.data) => P[n] = [con EXCEPT !.line = con.line \o SubSeq(k.data, 1, n)]
       /\ n > Len(k.data)  => Whole(P[n], k.data)
  <2>1. n \in 0..Len(p)
    BY DEF p
  <2>2. PICK data : data = k.data
    OBVIOUS
  <2>3. data \in Seq(Chars) /\ p \in Seq(Chars) /\ OneLine(data, p)
    BY <1>6, <1>7, <2>2
  <2>4. \A i \in 0..Len(p) :
          /\ P[i] \in Consoles /\ P[i].by = con.by
          /\ i <= Len(data) => P[i] = [con EXCEPT !.line = con.line \o SubSeq(data, 1, i)]
          /\ i > Len(data)  => Whole(P[i], data)
    BY <1>9, <2>3, GuardedPassage DEF P
  <2> QED BY <1>9, <2>1, <2>2, <2>4
<1>12. /\ after.by = k.sid /\ after.line = P[n].line /\ after.ran = P[n].ran
       /\ after.cut = (P[n].line # <<>> /\ (P[n].cut \/ n \in 1..Len(p) - 1))
  BY <1>10, <1>11 DEF Consoles
<1>13. \A l \in P[n].ran : l.cut \/ l.text = <<>> \/ l.text = k.data
  <2>1. CASE n <= Len(k.data)
    BY <1>9, <1>11, <2>1 DEF Consoles
  <2>2. CASE n > Len(k.data)
    BY <1>11, <2>2 DEF Whole
  <2> QED BY <1>6, <2>1, <2>2 DEF p
<1>14. after.line = <<>> \/ after.cut
  <2>1. CASE n > Len(k.data)
    BY <1>11, <1>12, <2>1 DEF Whole
  <2>2. CASE n = 0
    <3>1. con.line \o SubSeq(k.data, 1, 0) = con.line
      BY <1>6, <1>9 DEF Consoles, Strings
    <3>2. P[n] = [con EXCEPT !.line = con.line \o SubSeq(k.data, 1, n)]
      BY <1>6, <1>11, <2>2
    <3>3. P[n].line = con.line \o SubSeq(k.data, 1, n) /\ P[n].cut = con.cut
      BY <1>9, <3>2 DEF Consoles
    <3> QED BY <1>9, <1>12, <2>2, <3>1, <3>3
  <2>3. CASE n \in 1..Len(k.data)
    <3>1. n \in 1..Len(p) - 1
      BY <1>6, <1>7, <2>3 DEF OneLine
    <3> QED BY <1>12, <3>1
  <2> QED BY <1>6, <2>1, <2>2, <2>3 DEF p
<1>15. \A l \in after.ran : l.cut \/ (Judged(ProfileRules, l.text) /\ Judged(rules, l.text))
  <2>1. Judged(ProfileRules, <<>>) /\ Judged(rules, <<>>)
    BY DEF Judged
  <2> QED BY <1>8, <1>12, <1>13, <2>1
<1> QED BY <1>12, <1>14, <1>15 DEF rules

\* LineInv holds initially, and every step keeps it.
LEMMA LineInvInductive ==
  /\ Init => LineInv
  /\ GateInv /\ TypeInv /\ LineInv /\ [Next]_vars => LineInv'
<1>1. Init => LineInv
  BY DEF Init, LineInv, RulesKept, LinesJudged
<1>2. ASSUME GateInv, TypeInv, LineInv, [Next]_vars PROVE LineInv'
  <2>1. Shaped /\ console \in Consoles
    BY <1>2 DEF GateInv, TypeInv
  <2>2. CASE UNCHANGED <<policy, console>>
    BY <1>2, <2>2 DEF LineInv, RulesKept, LinesJudged
  <2>3. ASSUME NEW s \in Sessions, Open(s) PROVE LineInv'
    <3>1. /\ policy'[s].rules.allow = Profile.allow
          /\ Profile.deny \subseteq policy'[s].rules.deny
          /\ \A t \in Sessions \ {s} : policy'[t] = policy[t]
          /\ policy'[s] \in Captured
      BY <2>1, <2>3, OpenCaptures
    <3>2. policy[s] = None /\ console' = console
      BY <2>3 DEF Open
    <3>3. RulesKept'
      BY <1>2, <3>1 DEF LineInv, RulesKept
    <3>4. console.ran # {} => policy'[console.by] = policy[console.by]
      BY <1>2, <2>1, <3>1, <3>2 DEF LineInv, Consoles
    <3> QED BY <1>2, <3>2, <3>3, <3>4 DEF LineInv, LinesJudged
  <2>4. ASSUME NEW c \in Calls, CallNext(c), console' # console PROVE LineInv'
    <3> DEFINE k == call[c]
    <3>1. k.pc = "send" /\ live[k.sid] /\ UNCHANGED policy
      BY <2>4 DEF CallNext, Start, ConsoleSettings, PolicyGate, Gate, Ask, Timeout, Send,
                  Vanished, Passes, Refused, CallFrame
    <3>2. PICK n \in 0..Len(Payload(k)) : console' = Receives(console, k.sid, Payload(k), n)
      BY <2>4 DEF CallNext, Start, ConsoleSettings, PolicyGate, Gate, Ask, Timeout, Send,
                  Vanished, Passes, Refused
    <3>3. k \in InFlight /\ k.sid \in Sessions /\ policy[k.sid] # None /\ ~Blocked(k)
      BY <1>2, <2>1, <3>1 DEF Shaped, InFlight, Idle, GateInv, Vetted, PastPolicy, Clear
    <3>4. RulesKept /\ RulesKept'
      BY <1>2, <3>1 DEF LineInv, RulesKept
    <3>5. Payload(k) \in Strings
      BY <2>1, <3>3, PayloadTyped
    <3>6. console'.by = k.sid
      BY <2>1, <3>2, <3>3, <3>5, ReceivesTyped
    <3>7. CASE is_empty(ProfileRules)
      BY <3>1, <3>3, <3>4, <3>6, <3>7 DEF LineInv, LinesJudged
    <3>8. CASE ~is_empty(ProfileRules)
      <4>1. PICK l : l = k
        OBVIOUS
      <4>2. /\ console'.line = <<>> \/ console'.cut
            /\ \A x \in console'.ran :
                 x.cut \/ (/\ Judged(ProfileRules, x.text)
                           /\ Judged(policy[l.sid].rules, x.text))
        BY <1>2, <2>1, <3>2, <3>3, <3>4, <3>8, <4>1, GuardedSend DEF LineInv
      <4> QED BY <3>1, <3>3, <3>4, <3>6, <4>1, <4>2 DEF LineInv, LinesJudged
    <3> QED BY <3>7, <3>8
  <2>5. ASSUME NEW c \in Calls, CallNext(c) PROVE UNCHANGED policy
    BY <2>5 DEF CallNext, Start, ConsoleSettings, PolicyGate, Gate, Ask, Timeout, Send,
                Vanished, Passes, Refused, CallFrame
  <2> QED BY <1>2, <2>2, <2>3, <2>4, <2>5 DEF Next, Close, Answer, vars
<1> QED BY <1>1, <1>2

-----------------------------------------------------------------------------
(* Theorems *)

\* Whatever sessions are opened and closed between the gates, and whatever
\* answer a retry carries, a call that may transmit was permitted to.
THEOREM WritesAuthorized == Spec => []Authorized
<1>1. GateInv => Authorized
  BY DEF GateInv, Authorized, Vetted
<1> QED BY <1>1, GateInvInductive, PTL DEF Spec

\* A person is asked only about a call that their answer decides.
THEOREM QuestionsMeant == Spec => []NeverAskedInVain
<1>1. GateInv => NeverAskedInVain
  BY DEF GateInv, NeverAskedInVain, Meant
<1> QED BY <1>1, GateInvInductive, PTL DEF Spec

\* The types of the gates' state, the console's line and the lines it ran
\* included; past the policy gate a call's payload fits MAX_WRITE_CHUNK, its
\* terminator counted.
THEOREM TypeCorrect == Spec => []TypeOK
<1>1. GateInv /\ TypeInv /\ LiveOpened => TypeOK
  <2> SUFFICES ASSUME GateInv, TypeInv, LiveOpened PROVE TypeOK
    OBVIOUS
  <2>1. Shaped
    BY DEF GateInv
  <2>2. call \in [Calls -> {Idle} \cup Carried]
    <3>1. InFlight \subseteq Carried
      BY DEF InFlight, Carried, Pcs, TypeInv
    <3> QED BY <2>1, <3>1 DEF Shaped
  <2>3. \A c \in Calls : call[c].pc # "idle" => policy[call[c].sid] # None
    BY DEF GateInv, Vetted
  <2>4. \A c \in Calls : PastPolicy(call[c]) => Len(Payload(call[c])) <= MaxWrite
    BY DEF GateInv, Vetted, PastPolicy, Clear
  <2>5. /\ console.line \in Strings /\ console.cut \in BOOLEAN
        /\ console.by \in Sessions \cup {None}
        /\ console.ran \subseteq [text : Strings, cut : BOOLEAN]
    BY DEF TypeInv, Consoles, Submits
  <2> QED BY <2>1, <2>2, <2>3, <2>4, <2>5 DEF TypeOK, Shaped, TypeInv, LiveOpened
<1> QED BY <1>1, GateInvInductive, TypeInvInductive, PTL DEF Spec

\* On a device whose profile has rules, no sequence of sessions and calls makes
\* the console run a line that the profile's rules or the session's refuse,
\* unless it begins with what an exchange cut short has left.
THEOREM LinesSafe == Spec => []LinesJudged
<1>1. LineInv => LinesJudged
  BY DEF LineInv
<1> QED BY <1>1, GateInvInductive, TypeInvInductive, LineInvInductive, PTL DEF Spec
=============================================================================
