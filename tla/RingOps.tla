------------------------------- MODULE RingOps -------------------------------
(***************************************************************************)
(* What a consistent-hash ring means, without lists or bisection: a ring   *)
(* is a function from the occupied positions to the nodes that own them,   *)
(* and a key belongs to the node of the first position clockwise after its *)
(* hash.  HashRing shows that the lists of consistent_hash.py compute      *)
(* these operators; NodeManager is written with them.                      *)
(***************************************************************************)
EXTENDS Integers, Sequences, FiniteSets

(* Going clockwise from h, position p is met before position q; h itself is *)
(* met last (bisect_right).                                                 *)
Before(h, p, q) == IF (p > h) = (q > h) THEN p < q ELSE p > h

FirstAfter(h, P) == CHOOSE p \in P : \A q \in P \ {p} : Before(h, p, q)

LastBefore(h, P) == CHOOSE p \in P : \A q \in P \ {p} : Before(h, q, p)

Members(ring) == {ring[p] : p \in DOMAIN ring}

PositionsOf(ring, n) == {p \in DOMAIN ring : ring[p] = n}

OwnerOf(ring, h) == ring[FirstAfter(h, DOMAIN ring)]

(* Node m is met before node n going clockwise from h.                      *)
Closer(ring, h, m, n) ==
  Before(h, FirstAfter(h, PositionsOf(ring, m)), FirstAfter(h, PositionsOf(ring, n)))

(* The nodes that hold the replicas of a key with hash h: the first rf      *)
(* distinct ones met.                                                       *)
ReplicasOf(ring, h, rf) ==
  {n \in Members(ring) :
     Cardinality({m \in Members(ring) \ {n} : Closer(ring, h, m, n)}) < rf}

(* The j-th of a set of numbers, in their order.                            *)
Nth(S, j) == CHOOSE i \in S : Cardinality({h \in S : h <= i}) = j

(* The source nodes of the migrations that insertion of n at the positions  *)
(* vnodes, one after the other, plans: for each, the owner of the position  *)
(* met last before it, unless that is n itself or there is none.            *)
SourcesFor(ring, n, vnodes) ==
  LET Earlier(i) == DOMAIN ring \union {vnodes[j] : j \in 1 .. i-1}
      Source(i)  == LET prev == LastBefore(vnodes[i], Earlier(i))
                    IN  IF Earlier(i) # {} /\ prev \in DOMAIN ring THEN ring[prev] ELSE n
      planned    == {i \in DOMAIN vnodes : Source(i) # n}
  IN  [j \in 1 .. Cardinality(planned) |-> Source(Nth(planned, j))]

=============================================================================
