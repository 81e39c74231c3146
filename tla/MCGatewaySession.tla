-------------------------- MODULE MCGatewaySession --------------------------
(* Values for the constants of GatewaySession and of GatewayClaims.        *)
EXTENDS GatewayClaims, TLC

CONSTANTS p1, p2, p3, s1

Symmetry == Permutations(Handlers)
=============================================================================
