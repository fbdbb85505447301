----------------------------- MODULE MCHashRing -----------------------------
(* Three nodes, one of them added now with one and now with two virtual     *)
(* nodes and one now with none, on a hash space so small that virtual nodes *)
(* collide and probing runs past its end; every hash function is tried.     *)
EXTENDS HashRing

CONSTANTS a, b, c

MCNode == {a, b, c}
MCWeights == (a :> {1}) @@ (b :> {1, 2}) @@ (c :> {0, 1})
=============================================================================
