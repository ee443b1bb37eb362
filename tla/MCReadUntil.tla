---------------------------- MODULE MCReadUntil ----------------------------
(***************************************************************************)
(* Small instances of ReadUntil for TLC.                                   *)
(***************************************************************************)
EXTENDS ReadUntil

\* A prompt of two characters and a regex that matches the empty string.
PromptOrNothing == {<<"m", "m">>, <<>>}

\* LineEnding::Crlf and LineEnding::Lf.
Crlf == <<"r", "n">>
Lf   == <<"n">>
=============================================================================
