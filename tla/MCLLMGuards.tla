---------------------------- MODULE MCLLMGuards ----------------------------
EXTENDS LLMGuards, TLC

Symmetric == Permutations(Calls)
=============================================================================
