------------------------------ MODULE MCFallback ------------------------------
(* Two callers and two nodes; one of three keys has the nodes the other way *)
(* round, so that both may be marked at a time.                             *)
EXTENDS Fallback, TLC

CONSTANTS a, b, k1, k2, k3

MCKey == {k1, k2, k3}
MCReplicas == [k \in MCKey |-> IF k = k3 THEN <<b, a>> ELSE <<a, b>>]
Symmetry == Permutations(Task) \union Permutations({k1, k2})
=============================================================================
