----------------------------- MODULE Transcript -----------------------------
(***************************************************************************)
(* What serial.exec makes of a transcript (src/src/serial/console.rs): the *)
(* output without its echo and control sequences, and, between OSC 3008    *)
(* markers, the output and the exit status of one command.                 *)
(*                                                                         *)
(* A read ends wherever the pattern matches or the time is over, and the   *)
(* window keeps the newest bytes only, so the code sees a transcript that  *)
(* begins and ends anywhere, also in the middle of a marker.  The device   *)
(* sends whole pieces: ordinary characters, control sequences, markers.    *)
(* What a transcript means is read off the pieces; what the code makes of  *)
(* it, off the characters.                                                 *)
(*                                                                         *)
(* A character stands for a class: "esc", "bel", "bs" (a backslash), "[",  *)
(* "]", "cr", "lf", "0" (a digit), and letters.  The text between "3008;"  *)
(* and a marker's end is one character, a member of DOMAIN Bodies.         *)
(***************************************************************************)
EXTENDS Naturals, FiniteSets, SequencesExt

CONSTANTS
  Pieces,      \* what the device sends
  Bodies,      \* the fields of a marker's body
  Terminator,  \* LineEnding::bytes of the call
  Window,      \* config::MAX_READ_BUFFER
  MaxPieces,   \* bound: the device sends no more than this
  None         \* Option::None

VARIABLES
  sent,  \* external: the pieces the device has sent
  part   \* external: what has arrived of the next one

vars == <<sent, part>>

Statuses == {"status=0", "status=7", "status=x"} \* the last is no number
Fields   == {"type=command", "exit=success", "exit=failure", "other"} \cup Statuses
NotFinal == {"esc", "bel", "cr", "lf", "0"}      \* outside '@'..='~'

\* What a device sends as one piece: a character; a CSI sequence; an OSC
\* sequence whose text is at 3..n, a marker if the text is a body.
Plain(p) == Len(p) = 1 /\ p[1] # "esc"
Csi(p)   ==
  /\ Len(p) >= 3 /\ p[1] = "esc" /\ p[2] = "["
  /\ p[Len(p)] \notin NotFinal /\ \A i \in 3..Len(p) - 1 : p[i] = "0"
Osc(p)   ==
  \E n \in 2..Len(p) - 1 :
    /\ p[1] = "esc" /\ p[2] = "]"
    /\ \A i \in 3..n : p[i] \notin {"esc", "bel", "cr", "lf"}
    /\ \A i \in 3..n : p[i] \in DOMAIN Bodies => n = 3
    /\ \/ Len(p) = n + 1 /\ p[n + 1] = "bel"
       \/ Len(p) = n + 2 /\ p[n + 1] = "esc" /\ p[n + 2] = "bs"

ASSUME ConstantsAssumption ==
  /\ Window \in Nat /\ MaxPieces \in Nat
  /\ Pieces \subseteq Seq(STRING)
  /\ \A p \in Pieces : Len(p) <= Window /\ (Plain(p) \/ Csi(p) \/ Osc(p))
  /\ Terminator \in Seq({"cr", "lf"})
  /\ {"esc", "bel", "bs", "[", "]", "cr", "lf"} \cap DOMAIN Bodies = {}
  /\ \A b \in DOMAIN Bodies :
       /\ Bodies[b].kind \in {"start", "end", "malformed"}
       /\ Bodies[b].id \in Nat
       /\ Bodies[b].fields \in Seq(Fields)

-----------------------------------------------------------------------------
(* The transcript *)

stream == FlattenSeq(sent) \o part
Lost   == IF Len(stream) > Window THEN Len(stream) - Window ELSE 0
raw    == SubSeq(stream, Lost + 1, Len(stream))

Init == sent = <<>> /\ part = <<>>

\* The next character arrives.
Arrives ==
  /\ Len(sent) < MaxPieces
  /\ \E p \in Pieces :
       /\ IsStrictPrefix(part, p)
       /\ IF Len(part) + 1 = Len(p)
          THEN sent' = Append(sent, p) /\ part' = <<>>
          ELSE sent' = sent /\ part' = SubSeq(p, 1, Len(part) + 1)

Next == Arrives

Spec == Init /\ [][Next]_vars

-----------------------------------------------------------------------------
(* normalize_terminal_output *)

Rest(q, n) == SubSeq(q, n, Len(q))
First(S)   == CHOOSE i \in S : \A j \in S : i <= j

\* Where the control string that begins at i ends: with q if nothing ends it.
AfterOsc(q, i) ==
  LET ends == {j \in i + 2..Len(q) : q[j] = "bel" \/ (q[j] = "bs" /\ j > i + 2 /\ q[j - 1] = "esc")} IN
  IF ends = {} THEN Len(q) + 1 ELSE First(ends) + 1

AfterCsi(q, i) ==
  LET ends == {j \in i + 2..Len(q) : q[j] \notin NotFinal} IN
  IF ends = {} THEN Len(q) + 1 ELSE First(ends) + 1

\* Where the loop goes on after the character at i, an ESC.
AfterEsc(q, i) ==
  CASE i < Len(q) /\ q[i + 1] = "]" -> AfterOsc(q, i)
    [] i < Len(q) /\ q[i + 1] = "[" -> AfterCsi(q, i)
    [] OTHER                        -> i + 1

\* MUTANT: the CR of a CR LF is a line end of its own.
BreaksAlways(q, i) == TRUE

\* Is the CR at i a line end?
Breaks(q, i) == i = Len(q) \/ q[i + 1] # "lf"

\* What the character at i adds to the output.
Pushed(q, i) ==
  IF q[i] # "cr" THEN <<q[i]>> ELSE IF Breaks(q, i) THEN <<"lf">> ELSE <<>>

\* The output of q from each position on.
OutputFrom(q) ==
  LET from[i \in 1..Len(q) + 1] ==
        IF i > Len(q) THEN <<>>
        ELSE IF q[i] = "esc" THEN from[AfterEsc(q, i)]
        ELSE Pushed(q, i) \o from[i + 1]
  IN from

normalize_terminal_output(q) == OutputFrom(q)[1]

-----------------------------------------------------------------------------
(* OSC 3008 markers.  An option is a value or None. *)

\* The fields of a body, which has more than one character if its marker was
\* not ended and runs on to the next.  What follows a field without a ";" spoils
\* it, or the id; the "3008;" of the next marker has one.
Spoilt(f) == IF f \in Statuses THEN "status=x" ELSE "other"

OscFields(body) ==
  LET fields[n \in 0..Len(body)] ==
        IF n = 0 THEN <<>>
        ELSE LET before == fields[n - 1] IN
             IF body[n] \in DOMAIN Bodies THEN before \o Bodies[body[n]].fields
             ELSE IF before = <<>> THEN before ELSE Append(Front(before), Spoilt(Last(before)))
  IN fields[Len(body)]

OscId(body) ==
  LET markers == {i \in 2..Len(body) : body[i] \in DOMAIN Bodies}
      spoils  == SubSeq(body, 2, IF markers = {} THEN Len(body) ELSE First(markers) - 1)
  IN <<Bodies[body[1]].id>> \o (IF Bodies[body[1]].fields = <<>> THEN spoils ELSE <<>>)

\* The last field of S that is there.
LastOf(fields, S) ==
  LET hits == {i \in DOMAIN fields : fields[i] \in S} IN
  IF hits = {} THEN None ELSE fields[Max(hits)]

\* An exit status that is no number takes an earlier one back.
ExitCode(fields) ==
  LET status == LastOf(fields, Statuses) IN IF status = "status=x" THEN None ELSE status

\* parse_osc_marker; None for a body that is no start and no end.
parse_osc_marker(start, end, body) ==
  LET b == Bodies[body[1]]
      f == OscFields(body)
  IN IF b.kind = "malformed" THEN None
     ELSE [start |-> start, end |-> end, id |-> OscId(body), kind |-> b.kind,
           command   |-> \E i \in DOMAIN f : f[i] = "type=command",
           status    |-> LastOf(f, {"exit=success", "exit=failure"}),
           exit_code |-> ExitCode(f)]

\* MUTANT: a marker that ESC \ ends is one longer than it is.
LongEnds(q, i) ==
  {<<j, j + 1>> : j \in {k \in i..Len(q) : q[k] = "bel"}}
    \cup {<<j, j + 3>> : j \in {k \in i..Len(q) - 1 : q[k] = "esc" /\ q[k + 1] = "bs"}}

\* osc_end: where the body that begins at i ends, and its marker.
osc_ends(q, i) ==
  {<<j, j + 1>> : j \in {k \in i..Len(q) : q[k] = "bel"}}
    \cup {<<j, j + 2>> : j \in {k \in i..Len(q) - 1 : q[k] = "esc" /\ q[k + 1] = "bs"}}

\* The marker whose prefix is at start; None if it has no end or is malformed.
MarkerAt(q, start) ==
  LET ends == osc_ends(q, start + 2)
      e    == CHOOSE x \in ends : \A y \in ends : x[1] <= y[1]
  IN IF ends = {} THEN None
     ELSE parse_osc_marker(start, e[2], SubSeq(q, start + 2, e[1] - 1))

Prefixes3008(q, cursor) ==
  {i \in cursor..Len(q) - 2 : q[i] = "esc" /\ q[i + 1] = "]" /\ q[i + 2] \in DOMAIN Bodies}

\* The markers of q from each cursor on; None if one of them is None.
MarkersFrom(q) ==
  LET from[cursor \in Nat] ==
        LET starts == Prefixes3008(q, cursor)
            marker == MarkerAt(q, First(starts))
        IN IF starts = {} THEN <<>>
           ELSE IF marker = None \/ from[marker.end] = None THEN None
           ELSE <<marker>> \o from[marker.end]
  IN from

osc3008_markers(q) == MarkersFrom(q)[1]

\* MUTANTS: an end before the start counts; the last end counts.
EndsAnywhere(start, markers) ==
  {m \in ToSet(markers) : m.kind = "end" /\ m.id = start.id}
LastEnd(start, markers) ==
  LET all == {m \in ToSet(markers) : m.kind = "end" /\ m.id = start.id /\ m.start >= start.end} IN
  {m \in all : \A n \in all : n.start <= m.start}

\* The end markers that may close start.
MatchingEnds(start, markers) ==
  {m \in ToSet(markers) : m.kind = "end" /\ m.id = start.id /\ m.start >= start.end}

\* The one member of S, None when there are more or none.
Only(S) == IF Cardinality(S) = 1 THEN CHOOSE x \in S : TRUE ELSE None

\* parse_one_osc3008_command: the slice, status and exit code of the one
\* command between its markers.
Between(q, start, end) ==
  IF end = None THEN None
  ELSE [output    |-> SubSeq(q, start.end, end.start - 1),
        status    |-> end.status,
        exit_code |-> end.exit_code]

CommandFrom(q, markers, start) ==
  IF start = None THEN None ELSE Between(q, start, Only(MatchingEnds(start, markers)))

CommandIn(q, markers) ==
  IF markers = None THEN None
  ELSE CommandFrom(q, markers, Only({m \in ToSet(markers) : m.kind = "start" /\ m.command}))

parse_one_osc3008_command(q) == CommandIn(q, osc3008_markers(q))

-----------------------------------------------------------------------------
(* analyze_transcript *)

\* The exclusive end of the first line of q, if there is one.
echo_line_boundary(q) ==
  LET ends == {i \in Len(Terminator)..Len(q) : IsSuffix(Terminator, SubSeq(q, 1, i))} IN
  IF Terminator = <<>> \/ ends = {} THEN None ELSE First(ends) + 1

\* The reply's fields; shown is the output to show when no command is known.
Analysis(normalized, shown, semantic) ==
  IF semantic = None
  THEN [normalized_output     |-> normalized,
        command_output        |-> shown,
        command_output_source |-> IF shown = None THEN None ELSE "normalized_transcript",
        semantic_status       |-> None,
        exit_code             |-> None]
  ELSE [normalized_output     |-> normalized,
        command_output        |-> normalize_terminal_output(semantic.output),
        command_output_source |-> "osc3008",
        semantic_status       |-> semantic.status,
        exit_code             |-> semantic.exit_code]

analyze_transcript(q, echo_mode, semantic_prompt) ==
  LET boundary   == IF echo_mode = "line" THEN echo_line_boundary(q) ELSE None
      normalized == normalize_terminal_output(IF boundary = None THEN q ELSE Rest(q, boundary))
      shows      == CASE echo_mode = "line"    -> boundary # None
                      [] echo_mode = "none"    -> TRUE
                      [] echo_mode = "unknown" -> semantic_prompt # "none"
  IN Analysis(normalized,
              IF shows THEN normalized ELSE None,
              IF semantic_prompt = "osc3008" THEN parse_one_osc3008_command(q) ELSE None)
-----------------------------------------------------------------------------
(* What a transcript means, by its pieces *)

BeginsAt(i) == Len(FlattenSeq(SubSeq(sent, 1, i - 1)))

\* The first piece that is whole in the window, and what is left there of the
\* one before it.
FirstKept == First({i \in 1..Len(sent) + 1 : BeginsAt(i) >= Lost})
Fragment  == SubSeq(stream, Lost + 1, BeginsAt(FirstKept))

IsMarker(p) == Len(p) > 2 /\ p[2] = "]" /\ p[3] \in DOMAIN Bodies
Body(i)     == Bodies[sent[i][3]]

\* A terminal shows letters, and a line end for a CR that no LF follows.  Of a
\* control sequence it shows nothing, of the end of one all but its ESC.
Shown(i) ==
  LET next == BeginsAt(i) + 2 IN
  CASE Len(sent[i]) > 1   -> <<>>
    [] sent[i] = <<"cr">> -> IF next <= Len(stream) /\ stream[next] = "lf" THEN <<>> ELSE <<"lf">>
    [] OTHER              -> sent[i]

\* What a terminal shows of pieces i to j.
ShownFromTo(i, j) == FlattenSeq([n \in 1..j - i + 1 |-> Shown(i + n - 1)])

ShownOfFragment ==
  FlattenSeq([n \in DOMAIN Fragment |-> IF Fragment[n] = "esc" THEN <<>> ELSE <<Fragment[n]>>])

\* The pieces that end a line.  A line echo is the first line of all that was
\* sent, in the window or not, and ends with the piece EchoEnd.
Lines   == {i \in 1..Len(sent) : IsSuffix(Terminator, FlattenSeq(SubSeq(sent, 1, i)))}
HasEcho == Terminator # <<>> /\ Lines # {}
EchoEnd == First(Lines)

\* The window has not cut the terminator of the echo.
EchoKept == HasEcho => Lost + Len(Terminator) <= BeginsAt(EchoEnd + 1)

\* What a terminal shows of the window; of a line echo, nothing.
ShownOutput(echo_mode) ==
  IF echo_mode = "line" /\ HasEcho /\ Lost <= BeginsAt(EchoEnd + 1)
  THEN ShownFromTo(EchoEnd + 1, Len(sent))
  ELSE ShownOfFragment \o ShownFromTo(FirstKept, Len(sent))

\* The markers that are whole in the window; those that start a command, and
\* those that may end what the i-th piece starts.
KeptMarkers   == {i \in FirstKept..Len(sent) : IsMarker(sent[i])}
CommandStarts ==
  {i \in KeptMarkers : Body(i).kind = "start" /\ "type=command" \in ToSet(Body(i).fields)}
EndsOf(i)     == {j \in KeptMarkers : j > i /\ Body(j).kind = "end" /\ Body(j).id = Body(i).id}

\* The one command of the window, if no marker in it is broken off or
\* malformed, exactly one starts a command, and exactly one after it ends it.
CommandBetween(i, j) == IF j = None THEN None ELSE [from |-> i, to |-> j]
CommandAt(i)         == IF i = None THEN None ELSE CommandBetween(i, Only(EndsOf(i)))
OneCommand           ==
  IF IsMarker(part) \/ \E i \in KeptMarkers : Body(i).kind = "malformed"
  THEN None ELSE CommandAt(Only(CommandStarts))

\* None is no value that an option holds here.
Options  == Fields \cup {None}
Sources  == {"normalized_transcript", "osc3008"}
Markers  == [start : Nat, end : Nat, id : Seq(Nat), kind : {"start", "end"},
             command : BOOLEAN, status : Options, exit_code : Options]
Reports  == [output : Seq(STRING), status : Options, exit_code : Options]
Commands == [from : Nat, to : Nat]

ASSUME NoneAssumption ==
  /\ None \notin Nat /\ None \notin Sources /\ None \notin Reports /\ None \notin Commands
  /\ None \notin Markers /\ None \notin Seq(Markers)

-----------------------------------------------------------------------------
(* Properties *)

EchoModes == {"none", "line"}

\* The device's pieces and the beginning of one of them; and the markers the
\* code finds lie in the window one after another, so that no slice of it is
\* taken backwards or past its end (osc3008_markers, parse_one_osc3008_command).
TypeOK ==
  /\ sent \in Seq(Pieces)
  /\ part = <<>> \/ \E p \in Pieces : IsStrictPrefix(part, p)
  /\ LET markers == osc3008_markers(raw) IN
     markers # None =>
       \A i \in DOMAIN markers :
         /\ markers[i].start < markers[i].end
         /\ markers[i].end <= IF i = Len(markers) THEN Len(raw) + 1 ELSE markers[i + 1].start

\* normalized_output is what a terminal would show of the window without the
\* command's echo: wherever the read and the window cut the transcript, no text
\* is lost and no control sequence is shown that arrived whole.  With a line
\* echo it says so of the windows that still hold the echo's terminator: once
\* that is gone the code takes the first line of the output for the echo and
\* drops it (echo_line_boundary, normalize_exec_output,
\* normalize_terminal_output).
ShowsLikeTerminal ==
  \A m \in EchoModes :
    (m = "line" => EchoKept) =>
      analyze_transcript(raw, m, "none").normalized_output = ShownOutput(m)

\* A status, an exit code and a command's output are reported exactly when the
\* window holds one command between its own markers, and they are that
\* command's (parse_one_osc3008_command; ADR 0006: no semantic status claim
\* for missing, malformed, mismatched or ambiguous markers).
ClaimsOneCommand ==
  LET Reported(a, command) ==
        IF command = None
        THEN a.command_output_source # "osc3008" /\ a.semantic_status = None /\ a.exit_code = None
        ELSE LET end == Body(command.to).fields IN
             /\ a.command_output_source = "osc3008"
             /\ a.command_output = ShownFromTo(command.from + 1, command.to - 1)
             /\ a.semantic_status = LastOf(end, {"exit=success", "exit=failure"})
             /\ a.exit_code = ExitCode(end)
  IN \A m \in EchoModes : Reported(analyze_transcript(raw, m, "osc3008"), OneCommand)

\* However far a read got, two replies that report a command never disagree
\* about it: later bytes can take the report back, and never change it
\* (parse_one_osc3008_command).
ReportsAreFinal ==
  LET Final(q, report) ==
        report = None
          \/ \A n \in 0..Len(q) : parse_one_osc3008_command(SubSeq(q, 1, n)) \in {None, report}
  IN Final(raw, parse_one_osc3008_command(raw))
=============================================================================
