----------------------------- MODULE MCMemoryStore -----------------------------
(* Bounded instances of the long-term memory.                                *)
EXTENDS MemoryClaims, TLC

CONSTANTS h1, h2, d1, d2, corr, deci

Symmetry == Permutations(Threads) \cup Permutations(Dirs)

=============================================================================
