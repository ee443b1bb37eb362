----------------------------- MODULE WriteGate -----------------------------
(***************************************************************************)
(* What stands between a tools/call and the device: the gates serial.write *)
(* and serial.exec pass in src/src/mcp/mod.rs, the command policy of       *)
(* policy.rs, the write policy of session.rs, and the round trip that asks *)
(* a person to confirm (ADR 0009).                                         *)
(*                                                                         *)
(* Every gate looks the session up anew under the table's lock, so a close *)
(* can come between any two of them: one action is one lookup and what the *)
(* handler does with it until the next.  Sessions of one device path follow *)
(* one another; that they exclude each other, and that an exchange excludes *)
(* every other, is what SessionManager shows, so opening, closing and      *)
(* sending are atomic here.  A reply only ends the call: its code is left  *)
(* out, and a refused open changes nothing and is left out too.            *)
(*                                                                         *)
(* A character is a model of a class of characters: "lf" and "cr", "bs" (a *)
(* backslash) and whatever ordinary ones Commands uses.  A rule's regex is *)
(* a word that occurs in the command.                                      *)
(***************************************************************************)
EXTENDS Naturals, FiniteSets, SequencesExt

CONSTANTS
  Sessions,     \* the sessions clients open on the device path, one at a time
  Calls,        \* tools/call requests in flight at once
  Tools,        \* the tools they call
  Commands,     \* what a call may carry as data or command
  Profile,      \* what the device's profile and the environment configure
  OpenOptions,  \* the overrides a serial.open may carry
  LineEndings,  \* the line_ending overrides an exec may carry
  Elicitation,  \* can the calling client show a form? (client_can_elicit)
  Answers,      \* what a person may do with the form
  MaxWrite,     \* config::MAX_WRITE_CHUNK
  MaxAsked,     \* bound: the server asks for this many different payloads
  MaxAnswers,   \* bound: a person answers this often
  MaxLine,      \* bound: the console is left with no longer a line
  None          \* "no value"

Policies == {"allow", "confirm", "deny"}
Endings  == {"none", "lf", "cr", "crlf"}
Strings  == Seq((UNION {{w[i] : i \in DOMAIN w} : w \in Commands}) \cup {"lf", "cr"})

\* What open captures for a session: write_policy, command_policy and the
\* console settings' line_ending.
Captured == [write_policy : Policies,
             rules : [deny : SUBSET Strings, allow : SUBSET Strings],
             line_ending : Endings]

ASSUME ConstantsAssumption ==
  /\ Commands \subseteq Strings
  /\ Tools \subseteq {"serial.write", "serial.exec"}
  /\ Profile.write_policy \in Policies
  /\ Profile.line_ending \in Endings
  /\ Profile.deny \subseteq Strings /\ Profile.allow \subseteq Strings
  /\ \A o \in OpenOptions : /\ o.write_policy \in Policies
                           /\ o.line_ending \in Endings \cup {None}
                           /\ o.deny \subseteq Strings
  /\ LineEndings \subseteq Endings \cup {None}
  /\ Elicitation \subseteq BOOLEAN
  /\ Answers \subseteq {"accept", "accept_without_confirm", "decline", "cancel", "invalid"}
  /\ MaxWrite \in Nat /\ MaxAsked \in Nat /\ MaxAnswers \in Nat /\ MaxLine \in Nat
  /\ None \notin Endings /\ None \notin Captured

VARIABLES
  live,     \* live[s]: s is a key of the session map
  policy,   \* policy[s]: what open captured for s, for good
  call,     \* call[c]: the arguments of the call c carries and the gate it is at
  asked,    \* the confirmation keys the server has put in an input_required reply
  answers,  \* what people answered: the host's inputResponses
  console   \* external: the device's line discipline

vars == <<live, policy, call, asked, answers, console>>

-----------------------------------------------------------------------------
(* CommandPolicy and line endings *)

bytes(ending) ==
  CASE ending = "none" -> <<>>
    [] ending = "lf"   -> <<"lf">>
    [] ending = "cr"   -> <<"cr">>
    [] ending = "crlf" -> <<"cr", "lf">>

is_match(word, text) ==
  \E i \in 0..Len(text) - Len(word) : SubSeq(text, i + 1, i + Len(word)) = word

is_empty(rules) == rules.deny = {} /\ rules.allow = {}

\* Does a deny rule match, or no rule of a non-empty allow list?
matched_rule(rules, command) ==
  \/ \E word \in rules.deny : is_match(word, command)
  \/ rules.allow # {} /\ \A word \in rules.allow : ~is_match(word, command)

is_control(char) == char \in {"lf", "cr"}

\* MUTANT: a trailing backslash is let through.
CheckLetsContinue(rules, command, session_ending, requested) ==
  /\ ~is_empty(rules)
  /\ \/ requested \notin {None, session_ending}
     \/ session_ending = "none"
     \/ \E i \in DOMAIN command : is_control(command[i])
     \/ matched_rule(rules, command)

\* Is the command blocked?  Rules judge one line, so a guarded command must be
\* one line: it ends with the session's own terminator and has no other.
check(rules, command, session_ending, requested) ==
  /\ ~is_empty(rules)
  /\ \/ requested \notin {None, session_ending}
     \/ session_ending = "none"
     \/ \E i \in DOMAIN command : is_control(command[i])
     \/ command # <<>> /\ Last(command) = "bs"
     \/ matched_rule(rules, command)

-----------------------------------------------------------------------------
(* The device's console, as policy.rs describes it: a terminator submits the *)
(* line, unless a backslash before it continues the line.                    *)

ConsoleTakes(con, char) ==
  IF ~is_control(char) THEN [con EXCEPT !.line = Append(@, char)]
  ELSE IF con.line # <<>> /\ Last(con.line) = "bs" THEN [con EXCEPT !.line = Front(@)]
  ELSE [con EXCEPT !.line = <<>>, !.cut = FALSE,
                   !.ran = @ \cup {[text |-> con.line, cut |-> con.cut]}]

\* The console after each prefix of payload.
Passage(con, payload) ==
  LET after[i \in 0..Len(payload)] ==
        IF i = 0 THEN con ELSE ConsoleTakes(after[i - 1], payload[i])
  IN after

\* The console after session s has sent the first n characters of payload; ran
\* is the set of lines they submitted, cut marks a line that begins with what an
\* exchange cut short has left.
Receives(con, s, payload, n) ==
  LET after == Passage([con EXCEPT !.ran = {}, !.by = s], payload)[n] IN
  [after EXCEPT !.cut = after.line # <<>> /\ (@ \/ n \in 1..Len(payload) - 1)]

-----------------------------------------------------------------------------
Idle == [pc |-> "idle"]

Init ==
  /\ live    = [s \in Sessions |-> FALSE]
  /\ policy  = [s \in Sessions |-> None]
  /\ call    = [c \in Calls |-> Idle]
  /\ asked   = {}
  /\ answers = {}
  /\ console = [line |-> <<>>, cut |-> FALSE, ran |-> {}, by |-> None]

(***************************************************************************)
(* serial.open and serial.close                                            *)
(***************************************************************************)
\* The derived Ord on WritePolicy: Allow < Confirm < Deny.
max(p, q) ==
  IF "deny" \in {p, q} THEN "deny" ELSE IF "confirm" \in {p, q} THEN "confirm" ELSE "allow"

Open(s) ==
  /\ policy[s] = None
  /\ \A t \in Sessions : ~live[t]
  /\ \E o \in OpenOptions :
       LET rules == [deny |-> Profile.deny \cup o.deny, allow |-> Profile.allow] IN
       \* a guarded profile's own line ending is not overridden
       /\ \/ is_empty(rules)
          \/ o.line_ending \in {None, Profile.line_ending}
          \/ Profile.line_ending = "none"
       /\ policy' = [policy EXCEPT ![s] =
            [write_policy |-> max(Profile.write_policy, o.write_policy),
             rules        |-> rules,
             line_ending  |-> IF o.line_ending = None THEN Profile.line_ending ELSE o.line_ending]]
  /\ live' = [live EXCEPT ![s] = TRUE]
  /\ UNCHANGED <<call, asked, answers, console>>

Close(s) ==
  /\ live[s]
  /\ live' = [live EXCEPT ![s] = FALSE]
  /\ UNCHANGED <<policy, call, asked, answers, console>>

(***************************************************************************)
(* serial.write and serial.exec                                            *)
(***************************************************************************)
\* What the call would transmit: for an exec, the command and its terminator.
Payload(k) ==
  IF k.tool = "serial.write" THEN k.data
  ELSE k.data \o bytes(IF k.line_ending = None THEN policy[k.sid].line_ending ELSE k.line_ending)

\* MUTANT: the payload is not part of the key.
KeyWithoutPayload(k) == [sid |-> k.sid, tool |-> k.tool, payload |-> <<>>]

\* The digest is taken to be injective.
confirmation_key(k) == [sid |-> k.sid, tool |-> k.tool, payload |-> Payload(k)]

confirmation_answer(action) == action = "accept"

Replies(c)   == call' = [call EXCEPT ![c] = Idle]
GoesTo(c, pc) == call' = [call EXCEPT ![c].pc = pc]
CallFrame    == UNCHANGED <<live, policy, answers>>

\* The call arrives; a retry carries an answer the host got from a person.
\* Oversized data is refused at once.
Start(c) ==
  /\ call[c].pc = "idle"
  /\ \E k \in [pc          : {"console", "policy"},
              tool        : Tools,
              sid         : {s \in Sessions : policy[s] # None},
              data        : {w \in Commands : Len(w) <= MaxWrite},
              line_ending : LineEndings,
              confirm     : BOOLEAN,
              elicits     : Elicitation,
              response    : answers \cup {None}] :
       /\ k.pc = "policy" <=> k.tool = "serial.write"
       /\ call' = [call EXCEPT ![c] = k]
  /\ UNCHANGED <<asked, console>>
  /\ CallFrame

\* A lookup that finds no session ends the call.
Vanished(c, pc) ==
  /\ call[c].pc = pc
  /\ ~live[call[c].sid]
  /\ Replies(c)
  /\ UNCHANGED <<asked, console>>
  /\ CallFrame

Passes(c, pc, next) ==
  /\ call[c].pc = pc
  /\ live[call[c].sid]
  /\ GoesTo(c, next)
  /\ UNCHANGED <<asked, console>>
  /\ CallFrame

Refused(c, pc) ==
  /\ call[c].pc = pc
  /\ live[call[c].sid]
  /\ Replies(c)
  /\ UNCHANGED <<asked, console>>
  /\ CallFrame

ConsoleSettings(c) == Vanished(c, "console") \/ Passes(c, "console", "policy")

\* MUTANT: an exec's command is not judged before the write gate.
PolicyOnlyForRawWrites(c) ==
  LET k == call[c] IN
  \/ Vanished(c, "policy")
  \/ Passes(c, "policy", "gate") /\ (k.tool = "serial.write" => is_empty(policy[k.sid].rules))
  \/ Refused(c, "policy") /\ k.tool = "serial.write" /\ ~is_empty(policy[k.sid].rules)

\* Does the command policy refuse the call?
Blocked(k) ==
  LET p == policy[k.sid] IN
  IF k.tool = "serial.write" THEN ~is_empty(p.rules)
  ELSE check(p.rules, k.data, p.line_ending, k.line_ending)

\* MUTANT: the terminator is not counted.
FitsWithoutEnding(k) == Len(k.data) <= MaxWrite

Fits(k) == Len(Payload(k)) <= MaxWrite

\* gate_raw_write_policy, or gate_command_policy with the checks that follow
\* it; an exec may also be refused for an echo_mode its line ending rules out.
PolicyGate(c) ==
  LET k == call[c] IN
  \/ Vanished(c, "policy")
  \/ Passes(c, "policy", "gate") /\ ~Blocked(k) /\ Fits(k)
  \/ /\ Refused(c, "policy")
     /\ Blocked(k) \/ ~Fits(k) \/ (k.tool = "serial.exec" /\ Payload(k) = k.data)

\* Has a person answered for exactly this call?
Answered(k) == k.response # None /\ k.response.key = confirmation_key(k)

\* gate_write, up to its second lookup.
Gate(c) ==
  LET k       == call[c]
      wp      == policy[k.sid].write_policy
      proceed == IF k.tool = "serial.write" THEN "send" ELSE "timeout"
      agreed  == \/ wp = "allow"
                 \/ wp = "confirm" /\ IF k.elicits
                                      THEN Answered(k) /\ confirmation_answer(k.response.action)
                                      ELSE k.confirm
      mustAsk == wp = "confirm" /\ k.elicits /\ ~Answered(k)
  IN \/ Vanished(c, "gate")
     \/ Passes(c, "gate", proceed) /\ agreed
     \/ Passes(c, "gate", "ask") /\ mustAsk
     \/ Refused(c, "gate") /\ ~agreed /\ ~mustAsk

\* gate_write asks: the reply is an input_required result.
Ask(c) ==
  \/ Vanished(c, "ask")
  \/ /\ call[c].pc = "ask"
     /\ live[call[c].sid]
     /\ asked' = asked \cup {confirmation_key(call[c])}
     /\ Cardinality(asked') <= MaxAsked
     /\ Replies(c)
     /\ UNCHANGED console
     /\ CallFrame

\* operation_timeout_ms looks the session up only when the call names none.
Timeout(c) ==
  \/ Vanished(c, "timeout")
  \/ /\ call[c].pc = "timeout"
     /\ GoesTo(c, "send")
     /\ UNCHANGED <<asked, console>>
     /\ CallFrame

\* write_with_cancel or exec_with_options: the manager refuses, or transmits the
\* payload, or is cut short by a deadline, a cancellation or a device error.
Send(c) ==
  LET k == call[c] IN
  \/ Vanished(c, "send")
  \/ /\ k.pc = "send"
     /\ live[k.sid]
     /\ \E n \in 0..Len(Payload(k)) :
          /\ console' = Receives(console, k.sid, Payload(k), n)
          /\ Len(console'.line) <= MaxLine
     /\ Replies(c)
     /\ UNCHANGED asked
     /\ CallFrame

CallNext(c) ==
  \/ Start(c) \/ ConsoleSettings(c) \/ PolicyGate(c) \/ Gate(c)
  \/ Ask(c) \/ Timeout(c) \/ Send(c)

\* A person answers a form that the host shows.
Answer ==
  /\ Cardinality(answers) < MaxAnswers
  /\ \E key \in asked, action \in Answers :
       answers' = answers \cup {[key |-> key, action |-> action]}
  /\ UNCHANGED <<live, policy, call, asked, console>>

Next ==
  \/ \E s \in Sessions : Open(s) \/ Close(s)
  \/ \E c \in Calls : CallNext(c)
  \/ Answer

Spec == Init /\ [][Next]_vars

-----------------------------------------------------------------------------
(* Properties *)

Keys     == [sid : Sessions, tool : Tools, payload : Strings]
Carried  == [pc : {"console", "policy", "gate", "ask", "timeout", "send"},
             tool : Tools, sid : Sessions, data : Commands, line_ending : LineEndings,
             confirm : BOOLEAN, elicits : BOOLEAN,
             response : [key : Keys, action : Answers] \cup {None}]

PastPolicy(k) == k.pc \in {"gate", "ask", "timeout", "send"}

\* Every variable holds a value of its type; a call names a session that open
\* returned, and past the policy gate its payload fits MAX_WRITE_CHUNK.
TypeOK ==
  /\ live    \in [Sessions -> BOOLEAN]
  /\ policy  \in [Sessions -> Captured \cup {None}]
  /\ call    \in [Calls -> {Idle} \cup Carried]
  /\ asked   \subseteq Keys
  /\ answers \subseteq [key : Keys, action : Answers]
  /\ console.line \in Strings /\ console.cut \in BOOLEAN
  /\ console.by \in Sessions \cup {None}
  /\ console.ran \subseteq [text : Strings, cut : BOOLEAN]
  /\ \A s \in Sessions : live[s] => policy[s] # None
  /\ \A c \in Calls : call[c].pc # "idle" => policy[call[c].sid] # None
  /\ \A c \in Calls : PastPolicy(call[c]) => Len(Payload(call[c])) <= MaxWrite

\* May k transmit?  Nobody may write to a deny session; on a confirm session,
\* the profile's or the caller's, a client that can show a form has got a
\* person's accept for exactly this session, tool and payload, and any other
\* client has set confirm.
Permitted(k) ==
  LET wp == policy[k.sid].write_policy IN
  /\ "deny" \notin {wp, Profile.write_policy}
  /\ "confirm" \in {wp, Profile.write_policy} =>
       IF k.elicits
       THEN [key    |-> [sid |-> k.sid, tool |-> k.tool, payload |-> Payload(k)],
             action |-> "accept"] \in answers
       ELSE k.confirm

\* A call that may transmit was permitted to.
Authorized == \A c \in Calls : call[c].pc \in {"timeout", "send"} => Permitted(call[c])

\* Would the answer decide about the call the question is about?
Worthwhile(key) ==
  LET p == policy[key.sid] IN
  /\ p.write_policy = "confirm"
  /\ Len(key.payload) <= MaxWrite
  /\ IF key.tool = "serial.write" THEN is_empty(p.rules)
     ELSE \E command \in Commands, requested \in LineEndings :
            /\ ~check(p.rules, command, p.line_ending, requested)
            /\ key.payload =
                 command \o bytes(IF requested = None THEN p.line_ending ELSE requested)

\* mod.rs: a person is never asked to confirm a write that would be refused
\* whatever the answer.
NeverAskedInVain == \A key \in asked : Worthwhile(key)

\* The rules of the device's profile.
ProfileRules == [deny |-> Profile.deny, allow |-> Profile.allow]

\* May the line run?  An empty line, as the LF of a CR LF submits, runs nothing.
Judged(rules, text) == text = <<>> \/ ~matched_rule(rules, text)

\* On a device whose profile has rules, every line the console runs passes them,
\* and those a caller added to the session that submits it, whatever sequence of
\* sessions and calls put it together, unless it begins with what an exchange
\* cut short has left.
LinesJudged ==
  ~is_empty(ProfileRules) =>
    \A l \in console.ran :
      l.cut \/ (Judged(ProfileRules, l.text) /\ Judged(policy[console.by].rules, l.text))

\* The claim of policy.rs: a guarded command cannot reach any line but
\* its own.
EveryLineJudged == ~is_empty(ProfileRules) => \A l \in console.ran : Judged(ProfileRules, l.text)
=============================================================================
