------------------------------- MODULE MCEdits -------------------------------
(* The calls and users of the runs.                                        *)
EXTENDS Edits, TLC
Symmetric == Permutations(Edits) \cup Permutations(Users) \cup Permutations(Appends)
=============================================================================
