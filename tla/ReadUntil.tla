----------------------------- MODULE ReadUntil -----------------------------
(***************************************************************************)
(* The read half of serial.read_until and serial.exec: read_until_locked   *)
(* of src/src/serial/manager.rs, the PatternMatcher of parser.rs that it   *)
(* feeds, and the echo analysis of console.rs on what it returns.          *)
(*                                                                         *)
(* The caller holds the port's lock throughout, so nothing interleaves; what *)
(* varies is how the device's bytes fall into chunks and when the read     *)
(* ends.  One action is one pass of the loop.                              *)
(*                                                                         *)
(* A byte is an ASCII character of a small alphabet, so the lossy UTF-8    *)
(* view of the window is the window.  The caller's regex is represented by *)
(* one literal; the empty literal stands for a regex that matches the empty *)
(* string.  Offsets count from 0, as in the code.                          *)
(***************************************************************************)
EXTENDS Naturals, Sequences

CONSTANTS
  Bytes,       \* what a device can send
  Patterns,    \* the literals a call's expect regex may stand for
  Terminator,  \* LineEnding::bytes of the call
  EchoModes,   \* the echo modes a call may declare
  MaxBuffer,   \* config::MAX_READ_BUFFER
  MaxChunk,    \* the size of the loop's buffer
  MaxStream    \* bound: the device sends no more than this

ASSUME ConstantsAssumption ==
  /\ Patterns \subseteq Seq(Bytes)
  /\ Terminator \in Seq(Bytes)
  /\ EchoModes \subseteq {"unknown", "none", "line"}
  /\ "line" \in EchoModes => Terminator # <<>>
  /\ MaxBuffer \in Nat /\ MaxChunk \in Nat \ {0} /\ MaxStream \in Nat
  /\ MaxChunk + Len(Terminator) <= MaxBuffer

VARIABLES
  pattern,             \* what the call's regex matches
  matcher,             \* the PatternMatcher: buffer, head and search_start
  echo_mode,
  echo_boundary_seen,
  status,              \* "reading", or the ExecStatus returned, or "io_error"
  stream               \* history: every byte taken from the device

vars == <<pattern, matcher, echo_mode, echo_boundary_seen, status, stream>>

-----------------------------------------------------------------------------
(* Sequences and offsets *)

Drop(q, n) == SubSeq(q, n + 1, Len(q))

\* word occurs in q at offset i.
OccursAt(q, word, i) ==
  i + Len(word) <= Len(q) /\ SubSeq(q, i + 1, i + Len(word)) = word

Occurrences(q, word) == {i \in 0..Len(q) : OccursAt(q, word, i)}

Least(S) == CHOOSE i \in S : \A j \in S : i <= j

\* The exclusive end of the first line of raw, as an Option: {} is None.
echo_line_boundary(raw) ==
  LET ends == Occurrences(raw, Terminator) IN
  IF Terminator = <<>> \/ ends = {} THEN {} ELSE {Least(ends) + Len(Terminator)}

-----------------------------------------------------------------------------
(* PatternMatcher *)

EmptyMatcher == [buffer |-> <<>>, head |-> 0, search_start |-> 0]

live(m) == Drop(m.buffer, m.head)

saturating_sub(a, b) == IF a >= b THEN a - b ELSE 0

\* MUTANT: the search offset is not moved when the window drops bytes.
PushKeepsSearchStart(m, data) ==
  LET buf     == m.buffer \o data
      dropped == saturating_sub(Len(buf) - m.head, MaxBuffer)
      head    == m.head + dropped
      compact == head > MaxBuffer
  IN [buffer       |-> IF compact THEN Drop(buf, head) ELSE buf,
      head         |-> IF compact THEN 0 ELSE head,
      search_start |-> m.search_start]

\* MUTANT: compaction drains the buffer but leaves head where it was.
PushKeepsHead(m, data) ==
  LET buf     == m.buffer \o data
      dropped == saturating_sub(Len(buf) - m.head, MaxBuffer)
      head    == m.head + dropped
  IN [buffer       |-> IF head > MaxBuffer THEN Drop(buf, head) ELSE buf,
      head         |-> head,
      search_start |-> saturating_sub(m.search_start, dropped)]

\* MUTANT: the dead prefix is never drained.
PushNeverCompacts(m, data) ==
  LET buf     == m.buffer \o data
      dropped == saturating_sub(Len(buf) - m.head, MaxBuffer)
  IN [buffer       |-> buf,
      head         |-> m.head + dropped,
      search_start |-> saturating_sub(m.search_start, dropped)]

push_without_matching(m, data) ==
  LET buf     == m.buffer \o data
      dropped == saturating_sub(Len(buf) - m.head, MaxBuffer)
      head    == m.head + dropped
      compact == head > MaxBuffer
  IN [buffer       |-> IF compact THEN Drop(buf, head) ELSE buf,
      head         |-> IF compact THEN 0 ELSE head,
      search_start |-> saturating_sub(m.search_start, dropped)]

set_search_start(m, offset) ==
  [m EXCEPT !.search_start = IF offset <= Len(live(m)) THEN offset ELSE Len(live(m))]

\* Where match_details can find the pattern: in the live window, no earlier
\* than search_start.
Matches(m) == {i \in Occurrences(live(m), pattern) : m.search_start <= i}

is_match(m) == Matches(m) # {}

-----------------------------------------------------------------------------
(* read_until_locked *)

Init ==
  /\ pattern \in Patterns
  /\ matcher = EmptyMatcher
  /\ echo_mode \in EchoModes
  /\ echo_boundary_seen = (echo_mode # "line")
  /\ status = "reading"
  /\ stream = <<>>

\* Where the loop stands after a chunk: it answers as soon as the pattern is in
\* the window, but not before the echoed line has ended.
AfterChunk(m, seen) ==
  /\ matcher' = m
  /\ echo_boundary_seen' = seen
  /\ status' = IF seen /\ is_match(m) THEN "matched" ELSE "reading"

\* MUTANT: the end of the echo is noted but the search starts at the window.
ChunkSearchesEcho(data) ==
  LET pushed == push_without_matching(matcher, data)
  IN AfterChunk(pushed, echo_boundary_seen \/ echo_line_boundary(live(pushed)) # {})

\* The chunk is pushed; the first time a line has ended, matching starts
\* after it.
Chunk(data) ==
  LET pushed == push_without_matching(matcher, data) IN
  \/ /\ echo_boundary_seen
     /\ AfterChunk(pushed, TRUE)
  \/ /\ ~echo_boundary_seen
     /\ echo_line_boundary(live(pushed)) = {}
     /\ AfterChunk(pushed, FALSE)
  \/ /\ ~echo_boundary_seen
     /\ \E boundary \in echo_line_boundary(live(pushed)) :
          AfterChunk(set_search_start(pushed, boundary), TRUE)

ReadChunk ==
  /\ status = "reading"
  /\ \E n \in 1..MaxChunk : \E data \in [1..n -> Bytes] :
       /\ Len(stream) + n <= MaxStream
       /\ stream' = stream \o data
       /\ Chunk(data)
  /\ UNCHANGED <<pattern, echo_mode>>

Eof ==
  /\ status = "reading"
  /\ status' = IF echo_boundary_seen /\ is_match(matcher) THEN "matched" ELSE "eof"
  /\ UNCHANGED <<pattern, matcher, echo_mode, echo_boundary_seen, stream>>

\* The deadline, a cancellation or a device error ends the read.
GiveUp ==
  /\ status = "reading"
  /\ status' \in {"timed_out", "cancelled", "io_error"}
  /\ UNCHANGED <<pattern, matcher, echo_mode, echo_boundary_seen, stream>>

Next == ReadChunk \/ Eof \/ GiveUp

Spec == Init /\ [][Next]_vars

-----------------------------------------------------------------------------
(* The reply *)

Answered == status \notin {"reading", "io_error"}

into_buffer == live(matcher)

\* MUTANT: > for >=.
TruncatedOffByOne == Len(into_buffer) > MaxBuffer

truncated == Len(into_buffer) >= MaxBuffer

\* match_details of the reply, as an Option: the leftmost match, if the echo is
\* over.
match_details ==
  IF echo_boundary_seen /\ is_match(matcher)
  THEN {[start |-> Least(Matches(matcher)), end |-> Least(Matches(matcher)) + Len(pattern)]}
  ELSE {}

\* What normalize_exec_output presents of an exec's output.
visible ==
  LET boundary == IF echo_mode = "line" THEN echo_line_boundary(into_buffer) ELSE {}
  IN IF boundary = {} THEN into_buffer ELSE Drop(into_buffer, Least(boundary))

-----------------------------------------------------------------------------
(* Properties *)

\* How many of the device's bytes the window has dropped.
Lost == Len(stream) - Len(live(matcher))

\* The bytes of stream that belong to a declared line echo, once it has ended.
EchoEnd == IF echo_mode = "line" THEN echo_line_boundary(stream) ELSE {0}

\* Every variable holds a value of its type; the dead prefix is at most one
\* MaxBuffer long and search_start points into the window.
TypeOK ==
  /\ pattern \in Patterns
  /\ matcher \in [buffer : Seq(Bytes), head : 0..MaxBuffer, search_start : Nat]
  /\ matcher.head <= Len(matcher.buffer)
  /\ matcher.search_start <= Len(live(matcher))
  /\ echo_mode \in EchoModes
  /\ echo_boundary_seen \in BOOLEAN
  /\ status \in {"reading", "matched", "eof", "timed_out", "cancelled", "io_error"}
  /\ stream \in Seq(Bytes)

\* parser.rs: whatever the chunks, the physical buffer stays within two caps.
PhysicalBound == Len(matcher.buffer) <= 2 * MaxBuffer

\* The window is exactly the newest MaxBuffer bytes of what the device sent:
\* lazy compaction neither loses nor repeats a byte.
WindowIsNewest ==
  live(matcher) = Drop(stream, saturating_sub(Len(stream), MaxBuffer))

\* A reported match lies after the declared echo, however the echo was cut
\* into chunks and however much of it the window has since dropped.
EchoNotMatched ==
  Answered => \A d \in match_details : \E e \in EchoEnd : e <= Lost + d.start

\* The read goes on only while the pattern is nowhere in the window after the
\* echo: a match that spans chunks is seen as soon as its last byte arrives.
NoMissedMatch ==
  status = "reading" /\ stream # <<>> =>
    \A e \in EchoEnd, i \in Occurrences(stream, pattern) : i < e \/ i < Lost

\* A reply that does not say truncated carries every byte taken.
UntruncatedIsWhole == Answered /\ ~truncated => into_buffer = stream

\* console.rs calls the first line of the transcript the declared echo; what
\* remains is everything in the window after the echo, none of it lost.
NormalizedKeepsOutput ==
  Answered => \A e \in EchoEnd :
    visible = Drop(stream, IF Lost <= e THEN e ELSE Lost)
=============================================================================
