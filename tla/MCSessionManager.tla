-------------------------- MODULE MCSessionManager --------------------------
(***************************************************************************)
(* Small instances of SessionManager for TLC.                              *)
(***************************************************************************)
EXTENDS SessionRefinement, TLC

\* Requests of one kind are interchangeable, and so are the allowed paths (safety
\* runs only).
RequestSymmetry ==
  Permutations(Opens) \cup Permutations(Closes) \cup Permutations(Ios)
    \cup Permutations(Allowed)
=============================================================================
