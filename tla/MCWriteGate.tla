---------------------------- MODULE MCWriteGate ----------------------------
(***************************************************************************)
(* Small instances of WriteGate for TLC.                                   *)
(***************************************************************************)
EXTENDS WriteGate

Option(wp, deny, ending) == [write_policy |-> wp, deny |-> deny, line_ending |-> ending]

\* A privileged device without rules of its own.
Privileged == [write_policy |-> "confirm", deny |-> {}, allow |-> {}, line_ending |-> "lf"]

\* Opens that ask for less, for more, and for a rule.
Overrides == {Option("allow", {}, None), Option("deny", {}, None),
              Option("allow", {<<"x", "y">>}, None)}

\* With MaxWrite = 2: an exec of the first sends what a write of the second
\* sends; an exec of the second or the third does not fit with its terminator.
Lines == {<<"x">>, <<"x", "lf">>, <<"x", "y">>}

\* A device whose profile denies "xy" and allows only what has an x or a y, and
\* leaves the line ending to each session.
Guarded == [write_policy |-> "allow", deny |-> {<<"x", "y">>}, allow |-> {<<"x">>, <<"y">>},
            line_ending |-> "none"]

GuardedOverrides == {Option("allow", {}, None), Option("allow", {<<"y", "y">>}, "crlf"),
                     Option("allow", {}, "lf")}

\* Every command of at most two characters.
ShortCommands == UNION {[1..n -> {"x", "y", "lf", "bs"}] : n \in 0..2}
=============================================================================
