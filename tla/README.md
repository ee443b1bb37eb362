# Verification of mcp-serial-rs

TLA+ models of `mcp-serial-rs`, an MCP server that lets AI clients talk to
serial consoles, with the properties TLC checks of them on small instances and
the theorems TLAPS proves of them for every value of the constants.

Paths below are relative to the repository's crate: `manager.rs` is
`src/src/serial/manager.rs`, `mcp/mod.rs` is `src/src/mcp/mod.rs`, and so on.
`PROJECT.json` maps every definition to the lines it models and lists the
runs, the mutants, the hazards, the findings and the theorems.

## 1. The system

A client sends `tools/call` requests over stdio. Each is a tokio task. It
passes `call_tool`, which writes an audit row, goes through the handler's
checks and gates in `mcp/mod.rs`, and reaches the `SessionManager`, which
keeps at most `MAX_SESSIONS` sessions, each with one open port behind a tokio
mutex. The reply names the outcome and says what may have happened on the
wire, and a second audit row is written before it goes out.

| Part | State it keeps | Operations | Interacts with | What is hard |
|---|---|---|---|---|
| Session table (`manager.rs`, `session.rs`) | map of sessions: state, path, `Option<port>`, captured policies | open, close, checkout, sessions, get_session | one std mutex around short critical sections; the lock is never held over an await | open and close each have two critical sections with an await between them; a close may meet an opening session; a close's wait may time out |
| Serial calls (`manager.rs`) | the port lock, a cancellation token, a deadline | write, read, read_until, drain, clear_input, exec | checks the port out of the table, then waits for its lock, then re-checks the table | the port checked out may be stale when the lock comes; errors, deadlines and cancellations between any two steps |
| read_until and matching (`manager.rs`, `parser.rs`, `console.rs`) | `PatternMatcher`: buffer, head, search_start; echo flag | push, find, set_search_start, analyze_transcript | fed by the read loop chunk by chunk | offsets into a window that moves; an echo or a match cut by a chunk |
| Write gates (`mcp/mod.rs`, `policy.rs`) | none of its own: looks the session up at each gate; the client carries a confirmation key | policy gate, size gates, write policy, elicitation round trip | table, MCP host, a person | a close and a reopen between gates; answers given for another call; lines made of several commands |
| Device profiles (`serial/mod.rs`, `config.rs`) | profile list in HashMap order, allowlist | list_ports, resolve_device, resolve_port_profile | the host's port list, symlinks, devices.toml | hardware is replugged between the reads; several profiles match |
| Audit journal (`journal.rs`, `mcp/journal.rs`, `call_tool` in `mcp/mod.rs`) | a buffered file behind a tokio mutex; a session id per row | log, call_session_id, result_session_id | every call, a background I/O thread, the disk | deadlines that end a wait but not the write; errors told late; a stalled disk must not stall calls; a session is used before its open is answered |
| Read loops and deadlines (`manager.rs`) | byte counters, an idle timer, a total deadline, the call's deadline | read_locked, read_idle_locked, read_until_locked, lock_port, write_all_deadline, flush_deadline | the port, a clock, the close behind them | timers racing bytes and late polls; phases that share one deadline |
| Transcript normalization (`console.rs`) | none | removal of echo and control sequences, OSC 3008 markers | exec's reply | the window and the read cut markers in two; pairs of markers are ambiguous |
| Error table (`errors.rs`) | none | codes, side-effect flags | every reply | flags must be true |
| Command line, schemas, transport, backend (`main.rs`, rmcp, tokio-serial) | process set-up | start-up, framing, OS I/O | | outside the code's own logic |

What makes each part correct:

- **Session table**: a path has one session, the cap holds, no slot leaks, a
  session has its port exactly while it is Ready, and it disappears only by
  a close that answered ok.
- **Serial calls**: exchanges on a device never overlap, none outlives its
  session's close, every call is answered, and a reply tells the truth about
  bytes written and consumed.
- **Matching**: the window is exactly the newest bytes; the echo of the
  command is never taken for the prompt; no match is missed.
- **Write gates**: nothing is transmitted that the profile, the caller and,
  where asked, a person did not permit; nobody is asked for nothing; a
  guarded console runs only lines its rules have judged.
- **Device profiles**: the controls a session gets are those of the hardware
  it reached, and those list_ports advertised.
- **Audit journal**: no call runs or is answered without its row or a warning;
  rows keep their order; a session's rows lead back to its open; auditing never
  blocks a call.
- **Deadlines**: a call is answered within the time it asked for, a drain that
  times out has drained, and a close outwaits the calls before it.
- **Transcript**: a reply shows what a terminal would, and reports a status only
  for the one command whose markers it holds, whatever was cut off.

## 2. Modules

| Module | Models | Composition |
|---|---|---|
| `SessionManager` | session table, port locks, every serial call step by step | core |
| `SessionLifecycle` | abstract: what the manager promises about sessions, calls and answers | implemented by `SessionManager` |
| `SessionRefinement` | the refinement mapping, `INSTANCE SessionLifecycle WITH` | extends `SessionManager` |
| `Deadlines` | the clocks of the calls on one session and of its close | what `SessionManager` leaves to chance: when a wait ends |
| `ReadUntil` | one read_until or exec, byte by byte | what `SessionManager`'s `Read` step does inside |
| `Transcript` | what exec's reply makes of the window | what `ReadUntil` returns is its input |
| `WriteGate` | write and exec from arguments to transmission | uses as atomic what `SessionManager` shows to be exclusive |
| `AuditJournal` | call_tool's rows and `JournalWriter::log` | around any handler |
| `DeviceProfiles` | which profile a session gets | what `WriteGate`'s `Open` captures |
| `MC...` | constants and symmetry for TLC | extend the above |
| `...Proofs` | theorems and their lemmas | extend the above |
| `SetInduction` | induction on the naturals, as a theorem about sets of them | used by the proofs about recursive functions |

`SessionRefinement` instantiates `SessionLifecycle`. The other modules do not
`INSTANCE` one another: each takes over the others' guarantees as its atomicity,
and its header names the guarantee it uses.

### SessionManager

One action is one critical section of the table's mutex, or one step between
two awaits. Per request there is a program counter (`openPc`, `closePc`,
`ioPc`) and a reply; per session `state`, `portPath`, `hasPort` and the
`holder` of its port's lock.

- `open_with_console_and_policy`: `OpenRefuse` (allowlist, busy path, cap) or
  `OpenReserve`, then, after the OS open, `OpenCommit` or `OpenAbort`. Both
  accept that the placeholder may have been closed meanwhile.
- `close_with_timeout`: `CloseRefuse` or `CloseBegin`, then `CloseAcquire` or
  `CloseTimeout` (back to Ready), then `CloseFinish`.
- I/O calls: `Checkout`, `LockGranted` or `LockGivesUp`, `Ensure`
  (`ensure_port_still_ready`), then for exec `Clear` and `CheckCancelled`,
  then `Write` (`WriteSome`, `WriteDone`, `FlushDone`) and `Read`. Deadlines,
  cancellation, device errors and EOF end a call wherever the code can see
  them. read, read_until, drain and clear_input differ only in how their loop
  ends, so they are one kind of call here.
- `sent` and `got` are history: what really reached or left the device.

Abstractions: a session id is named by its open call, since ids are 128 random
bits that are never reused; the tokio mutex is FIFO in the code and may go to
any waiter here; a request runs once; the build is the release build, and what
a `debug_assert!` demands is the property `TransitionAsserts`. `CloseTimeout`
needs the lock held, because `timeout` polls the lock before its clock.

`ClosesOpening` says whether a client may close a session that
`serial.sessions` shows as Opening. Its id is not yet the client's from `open`,
so a well-behaved client does not; the code allows it, and the code bug
`SM_close_opening_io` shows needs it.

### SessionLifecycle and SessionRefinement

In `SessionLifecycle` there are no locks, critical sections or waits. A session
is reserved, opens or fails at one instant, and closes at one instant; a call
begins with its device to itself, touches it, and answers; the answer admits
every effect the call had. `SessionRefinement` maps `SessionManager` to it: a
session is open until the last critical section of its close, also while it is
Closing, and a call is using the device from the moment `Ensure` lets it pass.
`ImplementsLifecycle` is `Lifecycle!Spec`.

### Deadlines

An `Instant` is modelled by its distance from now: `age` counts up from the
start of a request; `whole`, `budget` and `left` count down to the deadlines of
the request, of its read loop and of the await it is in. `Tick` passes time and
does nothing else. A task whose await is over is polled up to `Lag` ticks late,
and `late` says how long it has been ready; so a timer and a byte can both be
due, and the code's order decides (`timeout` polls the read first). `ahead` is
the FIFO queue of tokio's mutex. The actions are `Start`, `Locked`,
`LockGivesUp`, `Accepted`, `DeviceGivesUp`, `TakesBytes`, `ReadTimesOut`,
`ReadCancelled` and `ReadEnds`; `LoopTop` is the top of the three read loops,
which differ in their cap and their timer (`take`, `read_window`). Bytes are
counted only. `quiet` is history.

One session and each request once: another session has clocks of its own, and a
second open changes no deadline of the first.

### ReadUntil

One action is one pass of the loop in `read_until_locked`. `matcher` is the
`PatternMatcher` with its lazily compacted buffer; `stream` is history: every
byte read. `echo_line_boundary`, `set_search_start`, `find_from` and the echo
side of `analyze_transcript` are operators of the same names. Bytes are ASCII
characters, so the lossy UTF-8 view is the window itself; the caller's regex
is a literal, and the empty literal stands for a regex that matches the empty
string. The port lock is held throughout, so nothing interleaves.

### Transcript

The device sends whole pieces: a character (`Plain`), a CSI sequence (`Csi`) or
an OSC sequence (`Osc`), which is a marker if its text is a body. The code sees
characters, of which a read and the window may cut off the beginning and the
end. `normalize_terminal_output`, `osc3008_markers`, `parse_osc_marker`,
`parse_one_osc3008_command`, `echo_line_boundary` and `analyze_transcript` are
operators of the same names over characters; the reference definition
(`ShownFromTo`, `OneCommand`) reads the meaning off the pieces. A line echo is
the first line of all that was sent (`EchoEnd`), in the window or not. The code
looks for it in the window, so `ShowsLikeTerminal` speaks, for that echo mode, of
the windows that have not cut the echo's terminator (`EchoKept`); the run
`RU_normalized` shows what happens in the others. The loops of the code are recursive functions of the position they are at (`OutputFrom`,
`MarkersFrom`, `OscFields`). A character stands for a class, and the text
between `3008;` and a marker's end is one character, with its fields in
`Bodies`. `TypeOK` also says
that the markers found lie in the window one after another, which is what keeps
the code's slices in range.

### WriteGate

One action is one lookup of the session and what the handler does with it up
to the next. A call walks the gates `console`, `policy`, `gate`, `ask`,
`timeout`, `send`; a close, and the next open of the device, fits
between any two. `asked` holds every confirmation key the server put in an
`input_required` reply, `answers` what people said; a retry may carry any
answer to any key. `check` is `CommandPolicy::check`, with its reasons:
another terminator than the session's, no terminator at all, a control
character, a trailing backslash, a rule. `console` is the device's line
discipline as `policy.rs` describes it, and is external.

Abstractions: one device path, sessions one after another, and opening,
closing and sending atomic, all justified by `SessionManager`; a digest is
injective, so the key holds the payload; a regex is a word that occurs; reply
codes and refused opens are left out. Forms are answered by people through the
host only.

### AuditJournal

One action is one step of `log` between two awaits, or a step of the thread
behind `tokio::fs::File`. `buffer`, `inflight`, `disk` and `file` are the
external part and follow tokio: `flush` hands the buffer to a thread; a
deadline ends log's waiting, not the write; an error goes to whoever polls
next; rows not yet handed over stay in the buffer. A row that is too long is
dropped with a warning, as any row may be. `journal` is FALSE in degraded
mode, when the file could not be opened.

Of a row's content the session is kept. `names` is the session a call's
arguments name, `opened` says that a call opened one, and `call_session_id`,
`result_session_id` and `session_id` are as in `mcp/journal.rs`. A client may
name a session as soon as its open runs, because `serial.sessions` shows it
(`Known`); `heard` is history: whether the open had been answered by then.

### DeviceProfiles

Devices are plugged and unplugged at any time (`Plug`, `Unplug`), and symlinks
follow them. `list_ports`, `resolve_device`, `Enumerate` and
`resolve_port_profile` read the port list and the symlinks one after another,
as the code does, and `Connect` is the manager's allowlist check and the
system's open. The profiles come in any order, since `parse_devices` collects
a `HashMap`. The allowlist is a set of paths; a profile stands for all controls
`resolved_from_profile` copies.

`moves` numbers the plug events, and three ghosts tell what the properties need:
`settled` is the event at which a device was plugged in where it is, an open's
`at` is the event after which it asked for the ports, and `unit` and `since` are
the device it reached and since when that was there. `SatStill` is then what the
properties ask of an open: the device it reached was there before the open asked
for the ports. All others may come, go and change places between its reads.

## 3. Runs

Passing runs:

| Run | Question | Properties | Bounds |
|---|---|---|---|
| `SM_table` | Does the table survive every interleaving of opens and closes? | `TypeOK`, `PortIffReady`, `PathReserved`, `CapRespected`, `NoOrphans`, `GoneIffClosed` | 3 opens, 2 slots, 4 paths (one forbidden), 2 closes, 1 read; closes of Opening sessions too |
| `SM_exchange` | Do exchanges exclude each other, over close and reopen of a path, and are replies true? Does all of it implement `SessionLifecycle`? | `ExchangeExclusive`, `NoIoAfterClose`, `TransitionAsserts`, `HonestReply`, `ImplementsLifecycle` | 2 opens of one path, 1 close, 2 calls of any kind |
| `SM_answers` | Is every request answered? | `EveryRequestAnswered` | 1 session, 2 calls, 1 close; fairness below |
| `DL_clocks` | Do timers, bytes, late polls and the lock's queue keep every deadline? | `TypeOK`, `AnswersInTime`, `DrainMeansQuiet`, `CloseOutwaits` | 2 calls of 5 kinds, 1 close, timeouts 1 and 9 around the maximum of 5, idle 1 and total 2 of a drain, 2 bytes wanted, chunk 3, lag 1, 1 byte to come after 0 or 2 waiting |
| `RU_window` | Is matching exact for every stream and chunking? | `TypeOK`, `PhysicalBound`, `WindowIsNewest`, `EchoNotMatched`, `NoMissedMatch`, `UntruncatedIsWhole` | 3 characters, streams to 9, chunks to 2, window 4 |
| `TR_analysis` | Does a reply show and report what the device meant, wherever it is cut? | `TypeOK`, `ShowsLikeTerminal`, `ClaimsOneCommand`, `ReportsAreFinal` | 11 pieces, up to 4 of them, window 13; with a line echo, windows that hold its terminator |
| `WG_confirm` | Is what is sent permitted, and nobody asked in vain? | `TypeOK`, `Authorized`, `NeverAskedInVain` | 2 sessions, 1 call at a time, 2 questions, 1 answer |
| `WG_lines` | Does a guarded console run only judged lines? | `LinesJudged` | 2 sessions, commands to 2 characters of 4 kinds, lines to 3 |
| `AJ_journal` | Are calls audited, in order, under the right session, without ever being held up? | `TypeOK`, `Audited`, `RowsOrdered`, `SessionsIntroduced`, `NeverBlocks` | 2 calls, 2 rows of buffer, 2 disk errors; fairness below |
| `DP_governed` | Does a session get its hardware's profile, whatever else is replugged? | `TypeOK`, `GovernedByHardware`, `AdvertisedIsApplied` | 2 nodes, 3 devices, 2 symlinks, 3 profiles in every order, 3 plug events |

Why the bounds are enough for the cases to happen:

- Two slots and three opens meet the cap and a busy path; the second close
  races the first; the forbidden path is refused.
- Two opens of one path let a second session take the path over while a call
  of the first is still queued. Two calls are what an overlap needs; a third
  adds only another waiter.
- In `DL_clocks` two calls and a close make a queue of three. A timeout of 9 is
  clamped and one of 1 runs out while others hold the lock; a lag as long as the
  idle window lets a byte arrive after the timer; a chunk of 3 would run past
  the 2 bytes wanted.
- In `TR_analysis` a window of 13 holds three markers of four characters and a
  letter, so that whole commands fit and a fourth piece cuts the first. Among
  the markers are a start of a command and of something else, two ends of the
  command and one of another, and a malformed one; one end has several fields of
  a kind. Of the pieces without a meaning there are a letter, both line ends, a
  colour (CSI) and a title (an OSC sequence that is no marker). The colour has
  eleven characters, so that a window which has cut it in two still holds the
  echo's CR LF behind it and a letter of output: with a line echo, the window
  has lost bytes and the property still speaks of it.
- In `RU_window` the window of 4 holds a two-character prompt behind the
  two-character terminator; streams of 9 pass `2 * MaxBuffer`, so the head
  moves, the buffer is compacted and the echo is dropped from the window.
- In `WG_confirm` the session is privileged, an exec with its terminator equals
  a write of raw bytes, and other commands fit only without their terminator.
  Two questions give an answer something else to be taken for. One call is in
  flight at once: calls touch nothing of each other but the answers, which a
  retry picks freely, and closes come between any two gates.
- `WG_lines` has commands of up to two characters: both halves of a rule, a line
  end and a backslash. The profile leaves the line ending and further rules to
  each open, so the two sessions can have no terminator, LF or CR LF and a rule
  of their own, and a line can be put together by commands of both. Empty lines
  and CR LF's second character submit lines too.
- In `AJ_journal` two calls queue for one lock, a write outlives its log, and
  the rows of both fill the buffer behind it. Two errors let a call meet the
  error of an earlier write and then one of its own. Three calls, with
  interchangeable names and one error, were explored as well (630,000 states)
  and show nothing else.
- `DP_governed` has two boards with one serial number, two profiles that both
  match one of them, and enough plug events to exchange a board (two) and for
  one more to happen between the reads: sessions opened by a symlink and by name
  are reached with a move of another device after the enumeration.

`MaxStream`, `MaxInput`, `MaxPieces`, `MaxAsked`, `MaxAnswers`, `MaxLine`,
`MaxErrors` and `MaxMoves` are bounds of the model; `MaxSessions`, `MaxBuffer`,
`Window`, `MaxChunk`, `MaxBytes`, `MaxTimeout`, `DrainIdle`, `DrainTotal`,
`MaxWrite` and `Capacity` are the code's limits with small values. `Lag` is an
assumption on the runtime. One-shot requests bound `SessionManager` and
`Deadlines`. Deadlock is checked except in the RU runs, where a read ends, and
in `TR_analysis`, where the device falls silent; `AllDone` in `SessionManager`,
`Deadlines` and `AuditJournal` marks the legal end.

Runs that show a disagreement between the code and what the repository says
(each is a finding in `PROJECT.json`, with the line quoted):

| Run | Violated | What happens |
|---|---|---|
| `SM_close_opening_io` | `NoIoAfterClose` | a close of an Opening session lets the open complete between its critical sections; a write checks the port out and runs after close answered ok |
| `RU_normalized` | `NormalizedKeepsOutput` | once the window has dropped the echo, exec drops its first line of output as the echo |

Seven more claims are stated as properties the code does not keep and have no run
of their own; adding one to the run named here lets TLC show its
counterexample:

- `TransitionAsserts`, in `SM_close_opening_io`: the same race breaks the
  assertions at `session.rs:119` and `:141`, which a debug build panics on.
- `EofCleanedUp`, in `SM_answers`: EOF leaves the session Ready and its port
  open until a client closes it, where SECURITY.md:112 asks for clean-up.
- `OneRowPerLine`, in `AJ_journal`: a disk error in the middle of a row leaves a
  torn row, and the next row, retried by design, continues its line
  (`journal.rs:5`, "One line per JournalEntry").
- `ControlsFollowHardware`, in `DP_governed`: a device that comes to a path after
  the enumeration and before the open is used without its profile, a
  privileged one with policy allow (`serial/mod.rs:189`).
- `NameMakesNoDifference`, in `DP_governed`: where a general and a specific
  profile match one board, opening it by name applies the named one, not the one
  its path gets (ADR 0005, "The profile follows the hardware, not the name used
  to open it").
- `RacingReadRefusal`, in `SM_exchange`: a read that loses to close may be
  refused with InvalidState (`manager.rs:751`), where `tests/mcp_tests.rs:4174`
  expects SessionNotFound only.
- `EveryLineJudged`, in `WG_lines`: a write cut short leaves half a command on
  the console's line, which the next command completes (`manager.rs:806`; with
  the line discipline of `policy.rs:11`).

`TR_analysis` has the device send whole markers. An end marker that lost its
terminator swallows the next marker as fields of its own, and the last field
wins: `end=1;exit=success` without its BEL, then `end=2;exit=failure` with one,
reports command 1 as failed: `OscFields` and `OscId` say so, though ADR 0006
wants no status claimed for malformed markers. No run has the device send one.

Every property of a passing run has a mutant: a plausible bug in a definition,
written next to it and marked `MUTANT`, that TLC finds to violate it.

## 4. Fairness

Safety runs assume none. Two runs check liveness:

- `SM_answers`. Weak fairness of `OpenCommit`/`OpenAbort` (the OS open returns:
  the code puts no deadline on it, so this is an assumption on the
  environment), of the steps that resolve a close, and per call of `Ensure`,
  `CheckCancelled` and `Expires`, the call's own timers. No client starts or
  cancels anything, the device never sends or accepts a byte, and no waiter is
  ever granted a lock: the answer comes from the server's own deadlines alone.
- `AJ_journal`. Weak fairness of call_tool's own steps (tasks are scheduled and
  handlers return) and, per row, of the wait for the lock and of the wait for
  the file, each with its timeout. The disk is not fair: it may stall for ever.

## 5. Proofs

| Theorem | Module | States |
|---|---|---|
| `TypeCorrect` | `SessionManagerProofs` | `Spec => []TypeOK` |
| `TableSafe` | `SessionManagerProofs` | `PortIffReady`, `PathReserved`, `CapRespected`, `NoOrphans`, `GoneIffClosed`, whatever clients do |
| `WireSafe` | `SessionManagerProofs` | if not `ClosesOpening`: `TransitionAsserts`, `ExchangeExclusive`, `NoIoAfterClose` |
| `RepliesHonest` | `SessionManagerProofs` | `HonestReply` |
| `LifecycleImplemented` | `SessionManagerProofs` | if not `ClosesOpening`: `ImplementsLifecycle` |
| `TypeCorrect`, `Timely`, `QuietDrains`, `PatientClose` | `DeadlinesProofs` | `TypeOK`, `AnswersInTime`, `DrainMeansQuiet`, `CloseOutwaits` |
| `WindowExact` | `ReadUntilProofs` | `TypeOK`, `PhysicalBound`, `WindowIsNewest`, `UntruncatedIsWhole` |
| `EchoExcluded` | `ReadUntilProofs` | `EchoNotMatched`, `NoMissedMatch` |
| `WritesAuthorized` | `WriteGateProofs` | `Authorized` |
| `QuestionsMeant` | `WriteGateProofs` | `NeverAskedInVain` |
| `LinesSafe` | `WriteGateProofs` | `LinesJudged` |
| `TypeCorrect` | `WriteGateProofs` | `TypeOK` |
| `AuditComplete` | `AuditJournalProofs` | `Audited` |
| `TypeCorrect`, `RowsKeepOrder`, `TrailsBegin` | `AuditJournalProofs` | `TypeOK`, `RowsOrdered`, `SessionsIntroduced` |
| `HardwareGoverned` | `DeviceProfilesProofs` | `GovernedByHardware` |
| `TypeCorrect`, `ListingTold` | `DeviceProfilesProofs` | `TypeOK`, `AdvertisedIsApplied` |
| `TypeCorrect`, `ReportsFinal` | `TranscriptProofs` | `TypeOK`, `ReportsAreFinal` |
| `ShowsTrue`, `ClaimsTrue` | `TranscriptProofs` | `ShowsLikeTerminal`, `ClaimsOneCommand` |

They rest on each module's `ConstantsAssumption` and, in `Transcript`, on
`NoneAssumption`, and on nothing else. In
`ReadUntil` it has a chunk and a terminator fit the window together
(`MaxChunk + Len(Terminator) <= MaxBuffer`; 64 KiB against 4 KiB and 2 bytes
in the code): otherwise a chunk could drop an echo nobody has seen. In
`Deadlines` it has a drain's two waits fit into the longest timeout
(`2 * DrainTotal + Lag <= MaxTimeout`; 200 ms against 30 s). In `Transcript` it
says what the device sends: whole characters and control sequences, none longer
than the window, and no body that reads as part of a control sequence. A device
that breaks this is outside `ShowsTrue` and `ClaimsTrue`, as it is outside the
run. `NoneAssumption` has `None` be none of the values that stand beside it there
(a number, a marker, a list of them, a report), as `Option::None` is no `Some`.
In `SessionManager`, that a client does not close an Opening session is a
hypothesis of `WireSafe` and `LifecycleImplemented` only, and
`SM_close_opening_io` shows it is needed.

The arguments:

- **Table** (`TableInv`): besides the five properties, a session no open has
  begun is untouched. Each critical section is atomic, so each property follows
  from what the section checks and from `NoOrphans`.
- **Wire** (`WireInv`): a call past `lock_port` holds its port's lock
  (`LockHeld`); what an open or close left in the table when it began to wait
  is still there, so at most one close resolves a session (`Undisturbed`); no
  session goes while a call performs I/O on it, because close got the lock after
  marking it Closing, and `Ensure` lets nobody in who gets it later
  (`IoAlive`). Two calls on one path are then on one session, by
  `PathReserved`, and hold one lock.
- **Replies** (`TrafficInv`): what a call can have sent or taken at each of its
  program counters, which is what the reply flags are computed from.
- **Refinement**: the initial states map to initial states, and by `TableInv`,
  `WireInv` and `HonestReply` each of the code's steps is one abstract step or a
  stutter. `OpenReserve` is `Reserve`, `OpenCommit` is `Resolve`, `CloseFinish`
  is a `Close` that no call is using (`IoAlive`), `Ensure` is `Begin`
  (`LockHeld`), and an answer admits the effects (`HonestReply`).
- **Deadlines** (`Invariance`: `IInv` and `DataInv`): an await's timer never
  exceeds the request's deadline and runs over by at most `Lag`, because `Tick`
  waits for ready tasks; every phase of an exec takes its timer from one
  deadline. Whoever is before the close in the queue asked first and for no more
  time than the close, so its time runs out first.
- **Window** (`WindowInv`): the live part of the buffer is the stream without
  its lost beginning; dropping commutes with appending, and compaction drops
  only what head has passed.
- **Echo** (`EchoInv`): once the first terminator has been seen, `search_start`
  stands at its end, or at the window's beginning when the window has moved
  beyond; while the read goes on, nothing after it matches. The first boundary
  found in a window is the first in the stream, because before it is found the
  window has not lost anything that matters.
- **Gates** (`GateInv`): what open captured is no weaker than the profile; every
  gate a call has passed still stands, as captured policies never change and ids
  are not reused; every question asked was worth asking.
- **Journal** (`JournalInv`): a row whose log waits for its flush is in the
  buffer, in flight or in the file, unless the disk has failed and log is yet to
  hear of it; so a log that returns without a warning has its row in the file,
  and call_tool waits for it.
- **Order of rows** (`OrderInv`): a row is put into the buffer only after the
  log of the call's row before it has returned, and the file grows by a
  beginning of what is in flight, so nothing overtakes. A session that a call
  names was opened by a call whose row is in the pipeline already or was warned
  of (`NamesKnown`).
- **Profiles** (`ProfilesInv`): a device that has been at its port since before
  an open asked for the ports is in the snapshot under that port and nobody else
  is (`SawStill`); a symlink to it resolves to that port; and the first match over
  the profiles is the governing one, so the verdict about the path is the verdict
  about the device (`ResolvedStill`). Plugging dates what it touches later than
  every snapshot, and unplugging leaves nothing at the port, so neither can make
  these facts speak of another device (`PlugKeeps`, `UnplugKeeps`). A listing
  shows, for what a device reports, the first match by the same order of profiles
  (`Told`), which the profiles' fixed order keeps true of every later open.
- **Console** (`LineInv`): what a session captured includes the profile's rules
  (`RulesKept`), and between two exchanges a guarded console's line is empty or
  begins with what a write cut short left. `Passage` folds the device's line
  discipline over the characters a command sends; by induction over them
  (`GuardedPassage`) a guarded command, which `check` lets through only as one
  line with the session's own terminators behind it, has the console run that
  line, an empty one, or one that begins with such a rest, and nothing else.
- **Markers** (`MarkersInOrder`, `MarkersStay`): every marker begins at or after
  the cursor and ends inside the window, so the list is in order, by induction
  downward from the window's end. What ends a marker in a beginning of the window
  ends it in the whole window, so a report of the beginning has its start and its
  end in the whole window too, and if that still reports, they are the ones.
- **What is shown** (`OutputOfPieces`): where a piece begins, the code's output
  from there on is what a terminal shows of that piece and then of the rest,
  downward over the pieces (`OutputOfPiece`: a control sequence is skipped whole,
  `ControlSkipped`; a CR looks at one character more). The beginning of the
  window may lie inside a piece; there is no ESC behind a control sequence's
  first but the one of its end, so the rest of it is shown as it stands
  (`FragmentOutput`). An echo ends with a line end, which is a piece of its own,
  so the code cuts the window between two pieces (`EchoBoundary`). The line end
  at which it cuts is the window's first; as long as the window has the terminator
  of the stream's first line, that is the stream's first (`FirstLineIsEcho`).
- **What is claimed** (`ListOfMarkers`): the code finds the prefix of a marker
  exactly where a marker piece begins in the window (`PrefixesArePlaces`: an ESC
  inside a piece is followed by a backslash), ends it where the piece ends
  (`WholeMarker`), or nowhere if the piece is cut off (`BrokenMarker`), and reads
  the fields of its body (`Means`). So, downward over the pieces, the list has
  the marker pieces' records and no others, or is `None` because one of them is
  broken or malformed. Different pieces have different places, so there is one
  record exactly if there is one piece (`OnlyImage`): the code's start and end are
  those of `OneCommand` (`CommandFound`). Its slice of the window lies between two
  pieces, and the argument above says what is shown of it (`CommandOutput`).

Induction is not a rule of the prover here: `SetInduction` derives it, for a set
of naturals instead of a predicate, from the well-foundedness of finite sets.
Each proof about a recursive function first shows that the function satisfies its
equation (`OutputEquation`, `MarkersEquation`, `PassageEquation`).

Only model-checked: liveness (`EveryRequestAnswered`, `NeverBlocks`), which is
beyond the prover. Every invariant and every other action property of a passing
run is a theorem.

## 6. Not modelled

- Lossy UTF-8 and regex syntax.
- OSC 3008 markers with an id longer than 128 bytes, which the code treats as
  malformed.
- The summaries of audit rows (`mcp/journal.rs`), their timestamps, and the
  checks on the journal's path before it is opened.
- TOML parsing, glob matching, parameter clamping, error codes and wording,
  JSON schemas.
- `main.rs`: it runs once before the first call.
- rmcp, tokio-serial and the operating system: external, and free to fail,
  stall or answer as their use in the code allows. That the system opens a
  device exclusively is not assumed: two allowlisted paths of one device are two
  paths here.

## 7. Plan

Done, in this order, the most important behaviour first: `SessionManager`,
`ReadUntil`, `WriteGate`, `AuditJournal`, `DeviceProfiles`; then
`SessionLifecycle` with its refinement, `Deadlines`, `Transcript`, the proofs of
the journal's order, its session trails and the listing of profiles, and then
those about the folds over characters: the console's lines, and what a reply
shows and claims of a transcript.

Next:

1. A composition of `SessionManager` and `AuditJournal`: a row per answered
   request, cancelled ones included.
2. The journal's calendar (`civil_from_days`) against a reference over a few
   centuries of days.
3. Further abstract specifications: the matcher as a pure function of the stream
   (`WindowExact` and `EchoExcluded` are its content), and the console as a
   sequence of judged lines.
4. `DeviceProfiles`' `NameMakesNoDifference` and `ControlsFollowHardware` once
   the code settles which of its documents it follows.
