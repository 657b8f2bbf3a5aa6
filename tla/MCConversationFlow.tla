------------------------- MODULE MCConversationFlow -------------------------
(* The updates, their kinds and the clock of the runs.                     *)
EXTENDS ConversationFlow, TLC
Symmetric == Permutations(Updates)
=============================================================================
