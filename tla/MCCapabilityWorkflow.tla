------------------------ MODULE MCCapabilityWorkflow ------------------------
(* Small instances of CapabilityWorkflow for TLC.                          *)
EXTENDS CapabilityClaims, TLC

CONSTANTS p1, p2, w1, w2, s1, s2, d1, d2, t1, t2

OneTool  == [d \in Defs |-> t1]
TwoTools == (d1 :> t1) @@ (d2 :> t2)

Symmetry ==
    Permutations(Handlers) \cup Permutations(Workflows) \cup Permutations(Sessions)
=============================================================================
