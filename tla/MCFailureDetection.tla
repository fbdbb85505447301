------------------------- MODULE MCFailureDetection --------------------------
(* Two nodes, a timeout of two ticks and a monitor that sleeps for one: a  *)
(* node may fall silent before or after a round of the same tick.          *)
EXTENDS FailureDetection

Symmetry == Permutations(Node)
=============================================================================
