------------------------ MODULE MCChatSessionStore ------------------------
(* Instances of ChatSessionStore for TLC.                                  *)
EXTENDS ChatSessionStore, TLC

\* Calls and session ids are interchangeable.
Symmetric == Permutations(Calls) \cup Permutations(Ids) \cup Permutations(Keys)

=============================================================================
