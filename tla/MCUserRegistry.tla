--------------------------- MODULE MCUserRegistry ---------------------------
(* UserRegistry for TLC: callers, codes, and the users and names that have *)
(* no account at the start are interchangeable.                            *)
EXTENDS UserRegistry, TLC

Symmetric == Permutations(Calls) \cup Permutations(Codes \ Legacy)
             \cup Permutations(Users \ {Root}) \cup Permutations(Names \ {RootName})
=============================================================================
