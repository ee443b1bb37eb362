----------------------------- MODULE MCDeadlines -----------------------------
(* Instances of Deadlines for TLC: times in ticks, bytes in small counts. *)
EXTENDS Deadlines, TLC
CONSTANTS c1, c2, k
MCCalls    == {c1, c2}
MCSymmetry == Permutations(MCCalls)
=============================================================================
