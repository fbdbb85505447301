------------------------- MODULE MCRequestPipeline --------------------------
(* Two PUTs of one id, one without an id and a DELETE, with one retry,      *)
(* against a breaker that opens on the second failure.  The PUT without an  *)
(* id does all that a GET can, and its body may fail besides.               *)
EXTENDS RequestPipeline

CONSTANTS p1, p2, i1

MCIdOf == [r \in Put |-> i1]
=============================================================================
