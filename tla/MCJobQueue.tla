----------------------------- MODULE MCJobQueue -----------------------------
(* Values for the constants of JobQueue and of JobQueueClaims.             *)
EXTENDS JobQueueClaims, TLC

CONSTANTS j1, j2, c1, c2

Symmetry == Permutations(Jobs) \cup Permutations(Clients)
=============================================================================
