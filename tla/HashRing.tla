------------------------------ MODULE HashRing ------------------------------
(***************************************************************************)
(* ConsistentHashRing of dcache/algorithm/consistent_hash.py: the sorted   *)
(* list of positions, the map from positions to nodes, the nodes and the   *)
(* positions each of them holds, with add_node and remove_node as steps    *)
(* and the lookups as operators.  Whether a node is online changes nothing *)
(* on the ring: NodeManager keeps that flag.                               *)
(*                                                                         *)
(* The MD5 hash is an arbitrary function chosen in the initial state: two  *)
(* virtual nodes may fall on one position, and then _find_unique_hash      *)
(* probes upwards, past the end of the hash space if it must.              *)
(***************************************************************************)
EXTENDS RingOps, SequencesExt

CONSTANTS
  Node,               \* node ids
  Space,              \* number of hash values, 2^32 in the code
  VnodesPerWeight,    \* vnodes_per_weight
  MaxWeight,          \* bound of the weights
  Weights,            \* the weights each node may be added with
  BadWeight,          \* any weight that range() does not take: "2", 1.5, None
  ReplicationFactor,  \* replication_factor
  SkewThreshold,      \* skew_threshold, in thousandths: 300 in the code
  Epsilon,            \* deficits up to this are nothing, in thousandths: 1
  PlanSize            \* what one plan is taken to move, in thousandths: 10

ASSUME RingAssumption ==
  /\ Space \in Nat \ {0}
  /\ VnodesPerWeight \in Nat \ {0}
  /\ MaxWeight \in Nat
  /\ Weights \in [Node -> SUBSET (0 .. MaxWeight)]
  /\ BadWeight \notin Nat
  /\ ReplicationFactor \in Nat \ {0}
  /\ SkewThreshold \in Nat /\ Epsilon \in Nat /\ PlanSize \in Nat \ {0}

MaxVnodes == VnodesPerWeight * MaxWeight

VnodeIndex(n) == {i \in 1 .. MaxVnodes : \E w \in Weights[n] : i <= VnodesPerWeight * w}

HashValue == 0 .. Space - 1

VARIABLES
  hash,         \* hash[n][i]: _hash_func of the name of n's i-th virtual node
  ring_keys,    \* _ring_keys
  ring_map,     \* _ring_map: position -> node id
  nodes,        \* _nodes: node id -> its weight (is_online is in NodeManager)
  node_vnodes   \* _node_vnodes: node id -> positions, in insertion order

vars == <<hash, ring_keys, ring_map, nodes, node_vnodes>>

Init ==
  /\ hash \in [Node -> [1..MaxVnodes -> HashValue]]
  /\ \A n \in Node : \A i \in 1..MaxVnodes \ VnodeIndex(n) : hash[n][i] = 0   \* never used
  /\ ring_keys = <<>>
  /\ ring_map = <<>>
  /\ nodes = <<>>
  /\ node_vnodes = <<>>

-----------------------------------------------------------------------------
(* bisect on a sorted list: how many elements lie at or before, or before x *)

BisectRight(keys, x) == Cardinality({i \in DOMAIN keys : keys[i] <= x})
BisectLeft(keys, x)  == Cardinality({i \in DOMAIN keys : keys[i] < x})

\* A plausible slip: the list is not kept sorted.
InsortAtEnd(keys, x) == Append(keys, x)

Insort(keys, x) == InsertAt(keys, BisectRight(keys, x) + 1, x)

(* get_node: the head of the walk that starts after h and wraps.            *)
StartIndex(keys, h) ==
  IF BisectRight(keys, h) = Len(keys) THEN 1 ELSE BisectRight(keys, h) + 1

\* A plausible slip: bisect_left, so that a key on a position stays with it.
GetNodeBisectLeft(keys, map, h) ==
  map[keys[IF BisectLeft(keys, h) = Len(keys) THEN 1 ELSE BisectLeft(keys, h) + 1]]

GetNode(keys, map, h) == map[keys[StartIndex(keys, h)]]

(* get_nodes_for_key: the positions in the order of the walk; the turns at  *)
(* which a node is met for the first time; the nodes met at the first       *)
(* replication_factor of them.                                              *)
Walk(keys, h) ==
  LET start == StartIndex(keys, h)
  IN  [i \in DOMAIN keys |-> IF start + i - 1 <= Len(keys) THEN keys[start + i - 1]
                                                          ELSE keys[start + i - 1 - Len(keys)]]

FirstMeetings(owners) == {i \in DOMAIN owners : \A j \in 1 .. i-1 : owners[j] # owners[i]}

GetNodesForKey(keys, map, h) ==
  LET walk   == Walk(keys, h)
      owners == [i \in DOMAIN walk |-> map[walk[i]]]
      turns  == FirstMeetings(owners)
      met    == Cardinality(turns)
  IN  [j \in 1 .. IF met < ReplicationFactor THEN met ELSE ReplicationFactor |->
         owners[Nth(turns, j)]]

-----------------------------------------------------------------------------
(* _find_unique_hash, called only for a position that is taken.             *)
\* A plausible slip: step over one occupied position without looking again.
FindUniqueHashOnce(map, h) == h + 1

FindUniqueHash(map, h) ==
  h + (CHOOSE d \in 1 .. Cardinality(DOMAIN map) + 1 :
         /\ h + d \notin DOMAIN map
         /\ \A e \in 1 .. d-1 : h + e \in DOMAIN map)

(* _compute_migration_for_insert, with new_hash already in the list: the    *)
(* sequence holds the plan's source node, or nothing.                       *)
MigrationForInsert(keys, map, new_hash, new_node) ==
  LET idx  == BisectLeft(keys, new_hash)
      prev == map[keys[IF idx = 0 THEN Len(keys) ELSE idx]]
  IN  IF Len(keys) <= 1 \/ prev = new_node THEN <<>> ELSE <<prev>>

\* d[x] = v, for a dict d.
With(d, x, v) == [y \in DOMAIN d \union {x} |-> IF y = x THEN v ELSE d[y]]

(* The loop of add_node over the hashes of the new node's virtual nodes,    *)
(* after each of its rounds.                                                *)
InsertVnode(r, vh, n) ==
  LET pos  == IF vh \in DOMAIN r.map THEN FindUniqueHash(r.map, vh) ELSE vh
      keys == Insort(r.keys, pos)
      map  == With(r.map, pos, n)
  IN  [keys    |-> keys,
       map     |-> map,
       vnodes  |-> Append(r.vnodes, pos),
       sources |-> r.sources \o MigrationForInsert(keys, map, pos, n)]

Insertion(n, weight) ==
  LET after[i \in 0 .. VnodesPerWeight * weight] ==
        IF i = 0 THEN [keys |-> ring_keys, map |-> ring_map, vnodes |-> <<>>, sources |-> <<>>]
                 ELSE InsertVnode(after[i-1], hash[n][i], n)
  IN  after

Inserted(n, weight) == Insertion(n, weight)[VnodesPerWeight * weight]

AddNode(n, weight) ==
  /\ n \notin DOMAIN nodes                     \* DuplicateNodeError
  /\ LET r == Inserted(n, weight)
     IN  /\ ring_keys' = r.keys
         /\ ring_map' = r.map
         /\ node_vnodes' = With(node_vnodes, n, r.vnodes)
  /\ nodes' = With(nodes, n, weight)
  /\ UNCHANGED hash

(* One round of the loop of remove_node: the position is popped from the    *)
(* list and deleted from the map, if the list still has it.                 *)
Pop(r, vh) ==
  LET idx == BisectLeft(r.keys, vh) + 1
  IN  IF idx <= Len(r.keys) /\ r.keys[idx] = vh
        THEN [keys |-> RemoveAt(r.keys, idx),
              map  |-> Restrict(r.map, DOMAIN r.map \ {vh})]
        ELSE r

Popping(n) ==
  LET after[i \in 0 .. Len(node_vnodes[n])] ==
        IF i = 0 THEN [keys |-> ring_keys, map |-> ring_map]
                 ELSE Pop(after[i-1], node_vnodes[n][i])
  IN  after

Popped(n) == Popping(n)[Len(node_vnodes[n])]

(* _generate_vnode_hashes raises: the node is in _nodes already, and has    *)
(* neither positions nor an entry for them.                                 *)
AddNodeHalfway(n) ==
  /\ n \notin DOMAIN nodes
  /\ nodes' = With(nodes, n, BadWeight)
  /\ UNCHANGED <<hash, ring_keys, ring_map, node_vnodes>>

RemoveNode(n) ==
  /\ n \in DOMAIN node_vnodes
  /\ LET r == Popped(n)
     IN  /\ ring_keys' = r.keys
         /\ ring_map' = r.map
  /\ nodes' = Restrict(nodes, DOMAIN nodes \ {n})
  /\ node_vnodes' = Restrict(node_vnodes, DOMAIN node_vnodes \ {n})
  /\ UNCHANGED hash

(* The node that was added halfway: remove_node takes it from _nodes before *)
(* it raises, since _node_vnodes lacks it.                                  *)
RemoveNodeHalfway(n) ==
  /\ n \in DOMAIN nodes \ DOMAIN node_vnodes
  /\ nodes' = Restrict(nodes, DOMAIN nodes \ {n})
  /\ UNCHANGED <<hash, ring_keys, ring_map, node_vnodes>>

Next ==
  \E n \in Node :
    \/ \E w \in Weights[n] : AddNode(n, w)
    \/ AddNodeHalfway(n)
    \/ RemoveNode(n)
    \/ RemoveNodeHalfway(n)

Spec == Init /\ [][Next]_vars

-----------------------------------------------------------------------------
(* compute_load_distribution, in units of 1/Space: the stretch before each  *)
(* position goes to its owner, the one across zero to the first position.   *)
\* A plausible slip: the stretch before a position goes to its predecessor.
StretchAfter(i) ==
  IF i = Len(ring_keys) THEN (Space - ring_keys[i]) + ring_keys[1]
                        ELSE ring_keys[i+1] - ring_keys[i]

Stretch(i) ==
  IF i = 1 THEN (Space - ring_keys[Len(ring_keys)]) + ring_keys[1]
           ELSE ring_keys[i] - ring_keys[i-1]

\* node_ranges[n] after each round of the loop over the list.
NodeRange(n) ==
  LET after[i \in 0 .. Len(ring_keys)] ==
        IF i = 0 THEN 0
                 ELSE after[i-1] + IF ring_map[ring_keys[i]] = n THEN Stretch(i) ELSE 0
  IN  after

Share(n) == NodeRange(n)[Len(ring_keys)]

-----------------------------------------------------------------------------
(* compute_rebalance_plan, for the online nodes "on", all with a number for *)
(* a weight.  Shares and expected shares are counted in units of one        *)
(* Whole(on)-th of the hash space, so that the quotients are exact.         *)
TotalWeight(on) == MapThenSumSet(LAMBDA n : nodes[n], on)

Whole(on)       == Space * TotalWeight(on)
Actual(n, on)   == Share(n) * TotalWeight(on)
Expected(n, on) == nodes[n] * Space

Overloaded(n, on) ==
  /\ Actual(n, on) # 0
  /\ 1000 * (Actual(n, on) - Expected(n, on)) > SkewThreshold * Expected(n, on)

\* A plausible slip: a fraction of one virtual node counts as none.
VnodesRoundedDown(n, on) ==
  (Len(node_vnodes[n]) * (1000 * Actual(n, on) - (1000 + SkewThreshold) * Expected(n, on)))
    \div (1000 * Actual(n, on))

VnodesToMove(n, on) ==
  Max({1, (Len(node_vnodes[n]) * (1000 * Actual(n, on) - (1000 + SkewThreshold) * Expected(n, on)))
            \div (1000 * Actual(n, on))})

Deficit(n, on) == Expected(n, on) - Actual(n, on)

Underloaded(on) == {n \in on : 1000 * Deficit(n, on) > Epsilon * Whole(on)}

\* sort is stable, so that nodes with equal deficits come in any order.
Neediest(on) ==
  {seq \in SetToSeqs(Underloaded(on)) :
     \A i, j \in DOMAIN seq : i < j => Deficit(seq[i], on) >= Deficit(seq[j], on)}

\* How many plans name a target before it is popped.
PlansUntilFull(n, on) ==
  ((1000 * Deficit(n, on) - Epsilon * Whole(on)) + PlanSize * Whole(on) - 1)
    \div (PlanSize * Whole(on))

(* The targets of the plans for an overloaded node.                         *)
PlansFrom(n, on, needy) ==
  LET targets == FlattenSeq([i \in DOMAIN needy |-> [c \in 1 .. PlansUntilFull(needy[i], on) |-> needy[i]]])
  IN  SubSeq(targets, 1, Min({VnodesToMove(n, on), Len(node_vnodes[n]), Len(targets)}))

-----------------------------------------------------------------------------
TypeOK ==
  /\ hash \in [Node -> [1..MaxVnodes -> HashValue]]
  /\ ring_keys \in Seq(Nat)
  /\ DOMAIN ring_map \subseteq Nat /\ Members(ring_map) \subseteq Node
  /\ DOMAIN nodes \subseteq Node
  /\ \A n \in DOMAIN nodes : nodes[n] \in Weights[n] \union {BadWeight}

(* The list and the maps describe one ring, whatever collisions probing     *)
(* resolved, in whatever order nodes came and went, and also when an        *)
(* addition failed halfway: the list is sorted without duplicates, the map  *)
(* has exactly its positions, each node owns as many as its weight calls    *)
(* for, and one with a bad weight owns none and leaves nothing behind       *)
(* (consistent_hash.py:71-106, 135-163).  The variables have their types.   *)
RingConsistent ==
  /\ TypeOK
  /\ \A i, j \in DOMAIN ring_keys : i < j => ring_keys[i] < ring_keys[j]
  /\ ToSet(ring_keys) = DOMAIN ring_map
  /\ Members(ring_map) \subseteq DOMAIN node_vnodes
  /\ DOMAIN node_vnodes = {n \in DOMAIN nodes : nodes[n] # BadWeight}
  /\ \A n \in DOMAIN node_vnodes :
       /\ ToSet(node_vnodes[n]) = PositionsOf(ring_map, n)
       /\ Len(node_vnodes[n]) = Cardinality(PositionsOf(ring_map, n))
       /\ Len(node_vnodes[n]) = VnodesPerWeight * nodes[n]

(* get_node finds the first position strictly after the key's hash, around  *)
(* zero if need be (consistent_hash.py:170-178).                            *)
LookupIsSuccessor ==
  ring_keys # <<>> =>
    \A h \in HashValue : GetNode(ring_keys, ring_map, h) = OwnerOf(ring_map, h)

(* get_nodes_for_key returns the replication_factor nearest distinct nodes, *)
(* nearest first, or all nodes when there are fewer                         *)
(* (consistent_hash.py:180-198).                                            *)
ChainIsReplicas ==
  \A h \in HashValue :
    LET chain == GetNodesForKey(ring_keys, ring_map, h)
    IN  /\ ToSet(chain) = ReplicasOf(ring_map, h, ReplicationFactor)
        /\ \A i, j \in DOMAIN chain : i < j => Closer(ring_map, h, chain[i], chain[j])

(* Each plan of add_node names the owner of the position before the new one *)
(* (consistent_hash.py:108-133), seen on the ring as it was at that moment. *)
PlansNamePredecessors ==
  \A n \in Node \ DOMAIN nodes : \A w \in Weights[n] :
    LET r == Inserted(n, w)
    IN  r.sources = SourcesFor(ring_map, n, r.vnodes)

(* The lists compute what RingOps says of the map alone: NodeManager, which *)
(* is written with RingOps, sees the ring of this module                    *)
(* (consistent_hash.py:108-133, 170-198).                                   *)
ListsMeanRingOps == LookupIsSuccessor /\ ChainIsReplicas /\ PlansNamePredecessors

InSpace == \A p \in DOMAIN ring_map : p <= Space

(* The share the load distribution gives a node is the part of the hash     *)
(* space whose keys get_node sends there (consistent_hash.py:216-235), as   *)
(* long as probing has not left the hash space by more than one position.   *)
ShareIsOwnership ==
  ring_keys # <<>> /\ InSpace =>
    \A n \in DOMAIN nodes :
      Share(n) = Cardinality({h \in HashValue : GetNode(ring_keys, ring_map, h) = n})

\* What the online nodes may all lack unnoticed is no more than what makes n
\* overloaded.
ThresholdShows(n, on) == Cardinality(on) * (Epsilon * Whole(on)) <= SkewThreshold * Expected(n, on)

(* Whichever nodes are online, one with more than its share by the          *)
(* threshold has something planned away from it, to online nodes below      *)
(* their shares; it cannot be that all are above, since the shares of the   *)
(* offline ones are missing (consistent_hash.py:237-294).  As the plans     *)
(* move no position, this is so again in the next round.  A node whose      *)
(* share is so small that the threshold drowns in the 0.001 which each      *)
(* target may lack unnoticed is left out: nothing may be planned for it.    *)
OverloadIsPlanned ==
  ring_keys # <<>> /\ InSpace =>
    \A on \in SUBSET DOMAIN node_vnodes : \A n \in on :
      Cardinality(on) >= 2 /\ Overloaded(n, on) /\ ThresholdShows(n, on) =>
        \A needy \in Neediest(on) :
          LET plans == PlansFrom(n, on, needy)
          IN  /\ plans # <<>>
              /\ \A i \in DOMAIN plans : ~ Overloaded(plans[i], on) /\ plans[i] # n

Chain(h) == GetNodesForKey(ring_keys, ring_map, h)

\* Without n, the chain c goes on in d: who stood behind n moves up by one.
GoesOnIn(c, d, n) ==
  \A i \in DOMAIN c : c[i] # n =>
    LET j == Cardinality({k \in 1 .. i : c[k] # n}) IN j \in DOMAIN d /\ d[j] = c[i]

(* A node that joins or leaves moves no key between two other nodes, and    *)
(* when one leaves, what remains of a key's chain stays at its front: the   *)
(* next replica becomes the primary (consistent_hash.py:71-100, 135-198).   *)
ChainsShift ==
  [][\A h \in HashValue :
       /\ \A n \in DOMAIN nodes \ DOMAIN nodes' : GoesOnIn(Chain(h), Chain(h)', n)
       /\ \A n \in DOMAIN nodes' \ DOMAIN nodes : GoesOnIn(Chain(h)', Chain(h), n)]_vars
=============================================================================
