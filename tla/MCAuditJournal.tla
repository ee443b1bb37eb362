--------------------------- MODULE MCAuditJournal ---------------------------
(***************************************************************************)
(* Small instances of AuditJournal for TLC.                                *)
(***************************************************************************)
EXTENDS AuditJournal, TLC

\* Calls are interchangeable: for larger instances of the safety properties only.
CallSymmetry == Permutations(Calls)
=============================================================================
