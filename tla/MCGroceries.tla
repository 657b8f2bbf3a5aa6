----------------------------- MODULE MCGroceries -----------------------------
(* The calls, members and names of the run.                                *)
EXTENDS Groceries, TLC
Symmetric == Permutations(Calls) \cup Permutations(Names) \cup Permutations(Users)
=============================================================================
