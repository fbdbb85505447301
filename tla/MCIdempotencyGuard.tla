------------------------ MODULE MCIdempotencyGuard -------------------------
(* Four PUTs: three share an id, so that a leader, its successor after a    *)
(* lost entry and a duplicate meet; the fourth crowds the first id out of a *)
(* store of one entry.                                                      *)
EXTENDS IdempotencyGuard, TLC

CONSTANTS r1, r2, r3, r4, i1, i2

MCIdOf == [r \in Request |-> IF r = r4 THEN i2 ELSE i1]
=============================================================================
