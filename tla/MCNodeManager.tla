--------------------------- MODULE MCNodeManager ---------------------------
(* Up to five nodes on a small ring, one of them with two virtual nodes,    *)
(* and n0 of weight 0, with none.                                           *)
(* Key k2 has its replicas on n2 and n3 at first; n4 and n5 come to lie     *)
(* between it and them, while the node before all of these is n1.  Key k1   *)
(* is near the end of the ring, so that its chain wraps around.             *)
EXTENDS NodeManager, TLC

CONSTANTS n0, n1, n2, n3, n4, n5, k1, k2

MCVnodes ==
  (n1 :> <<6, 2>>) @@ (n2 :> <<11>>) @@ (n3 :> <<13>>) @@ (n4 :> <<9>>) @@ (n5 :> <<8>>)
    @@ (n0 :> <<>>)

\* All keys just before n4: when it joins it becomes the owner of all.
MCCloseHash == [k \in Key |-> 7]

KeySymmetry == Permutations(Key)

MCKeyHash == [k \in Key |-> IF k = k1 THEN 12 ELSE 7]

\* Evaluated once, before the first state.
ASSUME TablesTyped ==
  /\ Replicas \in [SUBSET Placeable -> [Key -> SUBSET Placeable]]
  /\ Nearer \in [Key -> SUBSET (Placeable \X Placeable)]
=============================================================================
