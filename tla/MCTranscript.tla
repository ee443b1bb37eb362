---------------------------- MODULE MCTranscript ----------------------------
(***************************************************************************)
(* A small instance of Transcript for TLC.                                 *)
(***************************************************************************)
EXTENDS Transcript

MarkerBody(kind, id, fields) == [kind |-> kind, id |-> id, fields |-> fields]

\* The start of a command and of something else, two ends of the command and
\* one of another, and a body that is neither.
SomeBodies ==
  [start    |-> MarkerBody("start", 1, <<"other", "type=command">>),
   shell    |-> MarkerBody("start", 1, <<"other">>),
   success  |-> MarkerBody("end", 1, <<"exit=success", "status=7", "status=0">>),
   failure  |-> MarkerBody("end", 1, <<"exit=success", "exit=failure", "status=7", "status=x">>),
   another  |-> MarkerBody("end", 2, <<"exit=failure">>),
   prompt   |-> MarkerBody("malformed", 0, <<>>)]

Marker(body) == <<"esc", "]", body, "bel">>

\* A colour so long that the window cuts it and still holds the line end and the
\* letter after it.
Colour == <<"esc", "[">> \o [n \in 1..8 |-> "0"] \o <<"x">>

\* A letter, line ends, a colour, a title, and the markers, one of them ended by
\* ESC \.
SomePieces ==
  {<<"x">>, <<"cr">>, <<"lf">>, Colour, <<"esc", "]", "0", "bel">>,
   <<"esc", "]", "failure", "esc", "bs">>}
    \cup {Marker(body) : body \in DOMAIN SomeBodies \ {"failure"}}

Crlf == <<"cr", "lf">>
=============================================================================
