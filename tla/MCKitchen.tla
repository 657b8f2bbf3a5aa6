------------------------------ MODULE MCKitchen ------------------------------
(* Kitchen for TLC: operations and names are interchangeable.              *)
EXTENDS Kitchen, TLC

Symmetric == Permutations(Calls) \cup Permutations(Names)
=============================================================================
