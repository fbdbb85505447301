------------------------- MODULE NodeManagerProofs -------------------------
(***************************************************************************)
(* Proofs about NodeManager, for any cluster, any placement of virtual     *)
(* nodes and keys, any replication factor, any number of joins, failed     *)
(* joins, removals, failures and restarts, and any number of migrations at *)
(* a time.                                                                 *)
(***************************************************************************)
EXTENDS NodeManager, FiniteSetTheorems, SequenceTheorems, TLAPS

-----------------------------------------------------------------------------
(* The nodes that the ring's walk can meet are members.                     *)
LEMMA OnRingNodes == TypeOK => OnRing \subseteq nodes /\ OnRing \in SUBSET Placeable
BY DEF TypeOK, OnRing

(* The ring of a set of members names members only.                         *)
LEMMA RingOwners ==
  ASSUME NEW S \in SUBSET Node, NEW p \in PositionsIn(S)
  PROVE  Ring(S)[p] \in S
<1>1. \E m \in S : p \in PositionsIn({m})
      BY DEF PositionsIn
<1>2. (CHOOSE n \in S : p \in PositionsIn({n})) \in S
      BY <1>1
<1> QED BY <1>2 DEF Ring

(* The replicas of a key are members (consistent_hash.py:180-198).          *)
LEMMA ReplicasAreMembers ==
  ASSUME NEW S \in SUBSET Placeable, NEW k \in Key
  PROVE  Replicas[S][k] \subseteq S
<1>1. Members(Ring(S)) \subseteq S
  <2>1. DOMAIN Ring(S) = PositionsIn(S)
        BY DEF Ring
  <2> QED BY <2>1, RingOwners DEF Members, Placeable
<1>2. Replicas[S][k] = ReplicasOf(Ring(S), KeyHash[k], ReplicationFactor)
      BY DEF Replicas
<1> QED BY <1>1, <1>2 DEF ReplicasOf

(* The plans of an insertion name nodes as their sources.                   *)
LEMMA SourcesAreNodes ==
  ASSUME NEW S \in SUBSET Node, NEW n \in Node
  PROVE  SourcesFor(Ring(S), n, Vnodes[n]) \in Seq(Node)
<1> DEFINE ring       == Ring(S)
           vnodes     == Vnodes[n]
           Earlier(i) == DOMAIN ring \union {vnodes[j] : j \in 1 .. i-1}
           Source(i)  == LET prev == LastBefore(vnodes[i], Earlier(i))
                         IN  IF Earlier(i) # {} /\ prev \in DOMAIN ring THEN ring[prev] ELSE n
           planned    == {i \in DOMAIN vnodes : Source(i) # n}
           sources    == [j \in 1 .. Cardinality(planned) |-> Source(Nth(planned, j))]
<1>1. sources = SourcesFor(Ring(S), n, Vnodes[n])
      BY DEF SourcesFor
<1>2. ASSUME NEW i PROVE Source(i) \in Node
  <2>1. DOMAIN ring = PositionsIn(S)
        BY DEF Ring
  <2>2. \A p \in DOMAIN ring : ring[p] \in Node
        BY <2>1, RingOwners
  <2> HIDE DEF ring, Earlier
  <2> QED BY <2>2
<1>3. Cardinality(planned) \in Nat
  <2>1. IsFiniteSet(DOMAIN vnodes)
    <3>1. vnodes \in Seq(Nat)
          BY PlacementAssumption
    <3>2. Len(vnodes) \in Nat /\ DOMAIN vnodes = 1 .. Len(vnodes)
          BY <3>1, LenProperties
    <3> QED BY <3>2, FS_Interval
  <2>2. planned \subseteq DOMAIN vnodes
        OBVIOUS
  <2> HIDE DEF planned, vnodes
  <2> QED BY <2>1, <2>2, FS_Subset, FS_CardinalityType
<1> HIDE DEF Source, planned, ring
<1>4. \A j \in 1 .. Cardinality(planned) : sources[j] \in Node
      BY <1>2
<1>5. sources \in Seq(Node)
      BY <1>3, <1>4, IsASeq
<1> QED BY <1>1, <1>5

-----------------------------------------------------------------------------
(* What a migration is going to copy: values that some node holds, each for *)
(* a member of the ring (manager.py:185-205, 469-476).                      *)
LEMMA SnapshotItems ==
  ASSUME TypeOK, NEW task \in Task, NEW todo \in Snapshots(task), NEW i \in todo
  PROVE  /\ i \in CopyItem
         /\ i.target \in nodes
         /\ \E n \in Node : i.value = shard_data[n][i.key] /\ i.value # NoValue
<1>1. CASE task.kind = "drain"
  <2>1. PICK f \in Fallbacks(task.source) : todo = DrainItems(task.source, f)
        BY <1>1 DEF Snapshots
  <2>2. f \subseteq online
        BY DEF Fallbacks
  <2>3. PICK k \in HeldBy(task.source), t \in Node :
          /\ i = Item(k, task.source, t)
          /\ t \in online
        BY <2>1, <2>2 DEF DrainItems, First, TypeOK
  <2>4. task.source \in Node /\ k \in Key /\ shard_data[task.source][k] # NoValue
        BY <2>3 DEF Task, HeldBy
  <2> QED BY <2>3, <2>4 DEF Item, CopyItem, TypeOK
<1>2. CASE task.kind # "drain"
  <2>1. PICK k \in HeldBy(task.source) :
          /\ task.target \in Owner(k)
          /\ i = Item(k, task.source, task.target)
        BY <1>2 DEF Snapshots, MigrationItems
  <2>2. /\ task.source \in Node /\ task.target \in Node
        /\ k \in Key /\ shard_data[task.source][k] # NoValue
        BY <2>1 DEF Task, HeldBy
  <2> QED BY <2>1, <2>2 DEF Item, CopyItem, Owner, First, OnRing, TypeOK
<1> QED BY <1>1, <1>2

(* Copying a batch leaves each entry of each shard as it was or makes it    *)
(* the value of an item of the batch (manager.py:213-214, 483-484).         *)
LEMMA StoredEntries ==
  ASSUME TypeOK, NEW batch \in SUBSET CopyItem
  PROVE  /\ Stored(batch) \in [Node -> [Key -> Value]]
         /\ \A n \in Node, k \in Key :
              \/ Stored(batch)[n][k] = shard_data[n][k]
              \/ \E i \in batch : /\ i.target = n /\ i.key = k
                                  /\ Stored(batch)[n][k] = i.value
<1>1. ASSUME NEW n \in Node, NEW k \in Key
      PROVE  \/ Stored(batch)[n][k] = shard_data[n][k]
             \/ \E i \in batch : /\ i.target = n /\ i.key = k
                                 /\ Stored(batch)[n][k] = i.value
  <2>1. CASE \E i \in batch : i.target = n /\ i.key = k
    <3> DEFINE c == CHOOSE i \in batch : i.target = n /\ i.key = k
    <3>1. c \in batch /\ c.target = n /\ c.key = k
          BY <2>1
    <3>2. Stored(batch)[n][k] = c.value
          BY <2>1 DEF Stored
    <3> QED BY <3>1, <3>2
  <2>2. CASE ~(\E i \in batch : i.target = n /\ i.key = k)
        BY <2>2 DEF Stored
  <2> QED BY <2>1, <2>2
<1>2. \A n \in Node, k \in Key : Stored(batch)[n][k] \in Value
      BY <1>1 DEF TypeOK, CopyItem
<1>3. Stored(batch) = [n \in Node |-> [k \in Key |-> Stored(batch)[n][k]]]
      BY DEF Stored
<1>4. Stored(batch) \in [Node -> [Key -> Value]]
      BY <1>2, <1>3
<1> QED BY <1>1, <1>4

(* A batch is made of items that are still to be copied, for one node.      *)
LEMMA BatchItems ==
  ASSUME NEW todo, NEW current, NEW t \in NextTargets(todo, current),
         NEW batch \in Batches(todo, t)
  PROVE  /\ batch \subseteq todo
         /\ \E i \in todo : t = i.target
BY DEF NextTargets, Batches

-----------------------------------------------------------------------------
(* Copying a batch stores values and leaves a task with less to copy.       *)
LEMMA CopyTyped ==
  ASSUME TypeOK, NEW s \in Slot, NEW task, NEW todo \in SUBSET CopyItem,
         task.kind \in {"drain", "migrate"}, task.source \in Node,
         CopyNext(s, task, todo)
  PROVE  /\ shard_data' \in [Node -> [Key -> Value]]
         /\ running' \in [Slot -> {Idle} \union RunningTask]
<1>1. PICK t \in NextTargets(todo, task.target) : \E b \in Batches(todo, t) :
        /\ shard_data' = Stored(b)
        /\ running' = [running EXCEPT ![s] =
             [kind |-> task.kind, source |-> task.source, target |-> t, todo |-> todo \ b]]
      BY DEF CopyNext
<1>2. PICK batch \in Batches(todo, t) :
        /\ shard_data' = Stored(batch)
        /\ running' = [running EXCEPT ![s] =
             [kind |-> task.kind, source |-> task.source, target |-> t, todo |-> todo \ batch]]
      BY <1>1
<1>3. batch \subseteq CopyItem /\ t \in Node
      BY <1>1, <1>2, BatchItems DEF CopyItem
<1>4. [kind |-> task.kind, source |-> task.source, target |-> t, todo |-> todo \ batch]
        \in RunningTask
      BY <1>3 DEF RunningTask
<1> QED BY <1>2, <1>3, <1>4, StoredEntries DEF TypeOK

(* Every action keeps the types.                                            *)
LEMMA TypeInductive == TypeOK /\ [Next]_vars => TypeOK'
<1> SUFFICES ASSUME TypeOK, [Next]_vars
             PROVE  TypeOK'
    OBVIOUS
<1> USE DEF TypeOK
<1>1. ASSUME NEW k \in Key, Put(k)
      PROVE  TypeOK'
  <2> DEFINE v == written[k] + 1
  <2>1. v \in Value /\ written[k] \in Nat
        BY <1>1, ManagerAssumption DEF Put, Value
  <2>2. shard_data' \in [Node -> [Key -> Value]]
        BY <1>1, <2>1 DEF Put
  <2>3. local_cache' \in [Key -> Value]
        BY <1>1, <2>1 DEF Put
  <2>4. written' \in [Key -> Value] /\ last' \in [Key -> Value]
        BY <1>1, <2>1 DEF Put
  <2>5. exposed' \subseteq Key
        BY <1>1 DEF Put
  <2>6. UNCHANGED <<placement, tasks, spent>>
        BY <1>1 DEF Put
  <2> QED BY <2>2, <2>3, <2>4, <2>5, <2>6 DEF placement, tasks
<1>2. ASSUME NEW k \in Key, Delete(k)
      PROVE  TypeOK'
  <2>1. NoValue \in Value
        BY ManagerAssumption DEF NoValue, Value
  <2>2. shard_data' \in [Node -> [Key -> Value]]
        BY <1>2, <2>1 DEF Delete
  <2>3. local_cache' \in [Key -> Value] /\ last' \in [Key -> Value]
        BY <1>2, <2>1 DEF Delete
  <2>4. exposed' \subseteq Key
        BY <1>2 DEF Delete
  <2>5. UNCHANGED <<placement, tasks, written, spent>>
        BY <1>2 DEF Delete
  <2> QED BY <2>2, <2>3, <2>4, <2>5 DEF placement, tasks
<1>3. ASSUME NEW k \in Key, EvictCached(k)
      PROVE  TypeOK'
  <2>1. NoValue \in Value
        BY ManagerAssumption DEF NoValue, Value
  <2>2. local_cache' \in [Key -> Value]
        BY <1>3, <2>1 DEF EvictCached
  <2> QED BY <1>3, <2>2 DEF EvictCached, placement, tasks, history
<1>4. ASSUME NEW n \in Node, AddNode(n)
      PROVE  TypeOK'
  <2> DEFINE sources == SourcesFor(Ring(OnRing), n, Vnodes[n])
             plans   == [i \in DOMAIN sources |-> MigrationOf(sources[i], n)]
  <2>1. sources \in Seq(Node)
        BY SourcesAreNodes DEF OnRing
  <2>2. plans \in Seq(Task)
    <3> HIDE DEF sources
    <3>1. Len(sources) \in Nat /\ DOMAIN sources = 1 .. Len(sources)
          BY <2>1, LenProperties
    <3>2. \A i \in 1 .. Len(sources) : MigrationOf(sources[i], n) \in Task
          BY <2>1, <3>1, ElementOfSeq DEF MigrationOf, Task
    <3> QED BY <3>1, <3>2, IsASeq
  <2>3. queue' \in Seq(Task)
    <3>1. queue' = queue \o plans
          BY <1>4 DEF AddNode
    <3> HIDE DEF plans
    <3> QED BY <2>2, <3>1, ConcatProperties
  <2>4. /\ nodes' = nodes \union {n} /\ online' = online \union {n} /\ halfway' = halfway
        /\ topology' = [members |-> nodes', up |-> online', halfway |-> halfway']
        BY <1>4 DEF AddNode, PersistTopology
  <2>5. spent' \in [Bounded -> Nat]
        BY <1>4 DEF AddNode, Spend, Bounded
  <2>6. UNCHANGED <<draining, finalizers, unfinished, data, running, history>>
        BY <1>4 DEF AddNode
  <2> QED BY <2>3, <2>4, <2>5, <2>6 DEF data, history
<1>5. ASSUME NEW n \in Node, RemoveNode(n)
      PROVE  TypeOK'
  <2>1. queue' \in Seq(Task)
    <3>1. DrainOf(n) \in Task
          BY DEF DrainOf, Task
    <3> QED BY <1>5, <3>1, AppendProperties DEF RemoveNode
  <2>2. /\ online' = online \ {n} /\ draining' = draining \union {n}
        /\ unfinished' = unfinished \ {n}
        /\ topology' = [members |-> nodes', up |-> online', halfway |-> halfway']
        BY <1>5 DEF RemoveNode, PersistTopology
  <2>3. finalizers' \in [Node -> Nat]
        BY <1>5 DEF RemoveNode, ScheduleFinalizer
  <2>4. spent' \in [Bounded -> Nat]
        BY <1>5 DEF RemoveNode, Spend, Bounded
  <2>5. UNCHANGED <<nodes, halfway, data, running, history>>
        BY <1>5 DEF RemoveNode
  <2> QED BY <2>1, <2>2, <2>3, <2>4, <2>5 DEF data, history
<1>6. ASSUME NEW n \in Node, FailNode(n)
      PROVE  TypeOK'
  <2>1. spent' \in [Bounded -> Nat]
        BY <1>6 DEF FailNode, Spend, Bounded
  <2> QED BY <1>6, <2>1 DEF FailNode, data, tasks, history
<1>7. ASSUME NEW n \in Node, EndRemoval(n), UNCHANGED spent \/ Spend("deadlines", MaxDeadlines)
      PROVE  TypeOK'
  <2>0. /\ nodes' = nodes \ {n} /\ online' = online \ {n}
        /\ finalizers' = [finalizers EXCEPT ![n] = @ - 1] /\ finalizers[n] > 0
        BY <1>7 DEF EndRemoval, FinishRemoval, FinishRemovalFails, LeaveRing, FinalizerWaiting
  <2>1. /\ nodes' = nodes \ {n} /\ online' = online \ {n}
        /\ finalizers' \in [Node -> Nat]
    <3>1. finalizers[n] - 1 \in Nat
          BY <2>0
    <3> QED BY <2>0, <3>1
  <2>2. spent' \in [Bounded -> Nat]
        BY <1>7 DEF Spend, Bounded
  <2>3. CASE FinishRemoval(n)
    <3>1. shard_data' \in [Node -> [Key -> Value]]
          BY <2>3, ManagerAssumption DEF FinishRemoval, NoValue, Value
    <3>2. /\ draining' = draining \ {n} /\ unfinished' = unfinished \ {n}
          /\ n \notin halfway /\ halfway' = halfway
          /\ topology' = [members |-> nodes', up |-> online', halfway |-> halfway']
          BY <2>3 DEF FinishRemoval, PersistTopology
    <3>3. UNCHANGED <<local_cache, tasks, history>>
          BY <2>3 DEF FinishRemoval
    <3> QED BY <2>1, <2>2, <3>1, <3>2, <3>3 DEF tasks, history
  <2>4. CASE FinishRemovalFails(n)
    <3>1. /\ halfway' = halfway \ {n} /\ unfinished' = unfinished \union {n}
          /\ UNCHANGED <<draining, topology, data, tasks, history>>
          BY <2>4 DEF FinishRemovalFails
    <3> QED BY <2>1, <2>2, <3>1 DEF data, tasks, history
  <2> QED BY <1>7, <2>3, <2>4 DEF EndRemoval
<1>8. ASSUME NEW s \in Slot, StartTask(s)
      PROVE  TypeOK'
  <2>1. Head(queue) \in Task /\ queue' \in Seq(Task)
        BY <1>8, HeadTailProperties DEF StartTask
  <2>2. UNCHANGED <<placement, local_cache, history, spent>>
        BY <1>8 DEF StartTask
  <2>3. PICK todo \in Snapshots(Head(queue)) :
          \/ UNCHANGED <<running, shard_data>>
          \/ CopyNext(s, Head(queue), todo)
        BY <1>8 DEF StartTask
  <2>4. CASE UNCHANGED <<running, shard_data>>
        BY <2>1, <2>2, <2>4 DEF placement, history
  <2>5. CASE CopyNext(s, Head(queue), todo)
    <3>1. todo \subseteq CopyItem
          BY <2>1, SnapshotItems
    <3>2. /\ shard_data' \in [Node -> [Key -> Value]]
          /\ running' \in [Slot -> {Idle} \union RunningTask]
          BY <2>1, <2>5, <3>1, CopyTyped DEF Task
    <3> QED BY <2>1, <2>2, <3>2 DEF placement, history
  <2> QED BY <2>3, <2>4, <2>5
<1>9. ASSUME NEW s \in Slot, CopyBatch(s)
      PROVE  TypeOK'
  <2>1. running[s] \in RunningTask
        BY <1>9 DEF CopyBatch
  <2>2. /\ shard_data' \in [Node -> [Key -> Value]]
        /\ running' \in [Slot -> {Idle} \union RunningTask]
        BY <1>9, <2>1, CopyTyped DEF CopyBatch, RunningTask
  <2> QED BY <1>9, <2>2 DEF CopyBatch, placement, history
<1>10. ASSUME NEW s \in Slot, EndTask(s)
       PROVE  TypeOK'
       BY <1>10 DEF EndTask, placement, data, history
<1>11. ASSUME NEW s \in Node, NEW t \in Node, Rebalance(s, t)
       PROVE  TypeOK'
  <2>1. MigrationOf(s, t) \in Task
        BY DEF MigrationOf, Task
  <2>2. queue' \in Seq(Task)
        BY <1>11, <2>1, AppendProperties DEF Rebalance
  <2>3. spent' \in [Bounded -> Nat]
        BY <1>11 DEF Rebalance, Spend, Bounded
  <2> QED BY <1>11, <2>2, <2>3 DEF Rebalance, placement, data, history
<1>12. CASE Restart
  <2>1. NoValue \in Value
        BY ManagerAssumption DEF NoValue, Value
  <2>2. spent' \in [Bounded -> Nat]
        BY <1>12 DEF Restart, Spend, Bounded
  <2>3. /\ shard_data' \in [Node -> [Key -> Value]]
        /\ local_cache' \in [Key -> Value] /\ last' \in [Key -> Value]
        BY <1>12, <2>1 DEF Restart
  <2>4. queue' \in Seq(Task)
        BY <1>12 DEF Restart
  <2> QED BY <1>12, <2>2, <2>3, <2>4 DEF Restart
<1>13. ASSUME NEW n \in Node, AddNodeHalfway(n)
       PROVE  TypeOK'
  <2>1. /\ nodes' = nodes \union {n} /\ online' = online \union {n}
        /\ halfway' = halfway \union {n}
        /\ UNCHANGED <<draining, finalizers, topology, unfinished, data, tasks, history>>
        BY <1>13 DEF AddNodeHalfway
  <2>2. spent' \in [Bounded -> Nat]
        BY <1>13 DEF AddNodeHalfway, Spend, Bounded
  <2> QED BY <2>1, <2>2 DEF data, tasks, history
<1>14. CASE UNCHANGED vars
       BY <1>14 DEF vars, placement, data, tasks, history
<1> QED BY <1>1, <1>2, <1>3, <1>4, <1>5, <1>6, <1>7, <1>8, <1>9, <1>10, <1>11, <1>12, <1>13, <1>14
        DEF Next, ClientStep, MembershipStep, BackgroundStep, FinalizeRemoval, FinalizeAtDeadline

(* The types, for every cluster and every history of it.                    *)
THEOREM ManagerTypes == Spec => []TypeOK
<1>1. Init => TypeOK
  <2>1. NoValue \in Value
        BY ManagerAssumption DEF NoValue, Value
  <2> QED BY <2>1, ManagerAssumption DEF Init, TypeOK, Value
<1> QED BY <1>1, TypeInductive, PTL DEF Spec

-----------------------------------------------------------------------------
(* A draining node is attended to.                                          *)
LEMMA AttendedInductive == TypeOK /\ DrainingIsAttended /\ [Next]_vars => DrainingIsAttended'
<1> SUFFICES ASSUME TypeOK, DrainingIsAttended, [Next]_vars
             PROVE  DrainingIsAttended'
    OBVIOUS
<1> USE DEF DrainingIsAttended
<1>1. ASSUME UNCHANGED <<nodes, online, draining, unfinished, finalizers>>
      PROVE  DrainingIsAttended'
      BY <1>1
<1>2. ASSUME NEW n \in Node, AddNode(n) \/ AddNodeHalfway(n)
      PROVE  DrainingIsAttended'
      BY <1>2 DEF AddNode, AddNodeHalfway
<1>3. ASSUME NEW n \in Node, RemoveNode(n)
      PROVE  DrainingIsAttended'
  <2>1. /\ n \in nodes /\ nodes' = nodes /\ online' = online \ {n}
        /\ draining' = draining \union {n} /\ unfinished' = unfinished \ {n}
        /\ finalizers' = [finalizers EXCEPT ![n] = @ + 1]
        BY <1>3 DEF RemoveNode, ScheduleFinalizer
  <2> QED BY <2>1 DEF TypeOK
<1>4. ASSUME NEW n \in Node, FailNode(n)
      PROVE  DrainingIsAttended'
      BY <1>4 DEF FailNode
<1>5. ASSUME NEW n \in Node, EndRemoval(n)
      PROVE  DrainingIsAttended'
  <2>1. /\ nodes' = nodes \ {n} /\ online' = online \ {n}
        /\ finalizers' = [finalizers EXCEPT ![n] = @ - 1]
        /\ \/ draining' = draining \ {n} /\ unfinished' = unfinished \ {n}
           \/ draining' = draining /\ unfinished' = unfinished \union {n}
        BY <1>5 DEF EndRemoval, FinishRemoval, FinishRemovalFails, LeaveRing
  <2> QED BY <2>1 DEF TypeOK
<1>6. CASE Restart
      BY <1>6 DEF Restart
<1>7. CASE \/ ClientStep
           \/ \E s \in Slot : StartTask(s) \/ CopyBatch(s) \/ EndTask(s)
           \/ \E s, t \in Node : Rebalance(s, t)
      BY <1>1, <1>7 DEF ClientStep, Put, Delete, EvictCached, StartTask, CopyBatch, EndTask,
                        Rebalance, placement
<1>8. CASE UNCHANGED vars
      BY <1>1, <1>8 DEF vars, placement
<1> QED BY <1>2, <1>3, <1>4, <1>5, <1>6, <1>7, <1>8
        DEF Next, MembershipStep, BackgroundStep, FinalizeRemoval, FinalizeAtDeadline

(* Whatever the order of removals, additions, failures and restarts, a      *)
(* draining node is an offline member with a finalizer, unless its last     *)
(* finalizer ended with an error (manager.py:140-175).                      *)
THEOREM DrainingAttended == Spec => []DrainingIsAttended
<1>1. Init => DrainingIsAttended
      BY DEF Init, DrainingIsAttended
<1> QED BY <1>1, ManagerTypes, AttendedInductive, PTL DEF Spec

-----------------------------------------------------------------------------
(* Freshness.  The invariant behind it speaks of every copy of a key there  *)
(* is: in shards, in snapshots on their way to a shard, and in the cache.   *)
FreshCopies(k) ==
  /\ \A n \in Node : shard_data[n][k] \in {last[k], NoValue}
  /\ local_cache[k] \in {last[k], NoValue}
  /\ \A s \in Slot : \A i \in running[s].todo : i.key = k => i.value = last[k]

FreshData == \A k \in Key \ exposed : FreshCopies(k)

(* Copying spreads no old value.                                            *)
LEMMA CopyFresh ==
  ASSUME TypeOK, NEW k \in Key, FreshCopies(k), UNCHANGED <<local_cache, history>>,
         NEW s \in Slot, NEW task, NEW todo \in SUBSET CopyItem,
         \A i \in todo : i.key = k => i.value = last[k],
         CopyNext(s, task, todo)
  PROVE  FreshCopies(k)'
<1>1. PICK t \in NextTargets(todo, task.target) : \E b \in Batches(todo, t) :
        /\ shard_data' = Stored(b)
        /\ running' = [running EXCEPT ![s] =
             [kind |-> task.kind, source |-> task.source, target |-> t, todo |-> todo \ b]]
      BY DEF CopyNext
<1>2. PICK batch \in Batches(todo, t) :
        /\ shard_data' = Stored(batch)
        /\ running' = [running EXCEPT ![s] =
             [kind |-> task.kind, source |-> task.source, target |-> t, todo |-> todo \ batch]]
      BY <1>1
<1>3. batch \subseteq todo /\ batch \subseteq CopyItem
      BY BatchItems
<1>4. \A n \in Node : shard_data'[n][k] \in {last[k], NoValue}
      BY <1>2, <1>3, StoredEntries DEF FreshCopies
<1>5. \A r \in Slot : \A i \in running'[r].todo : i.key = k => i.value = last[k]
      BY <1>2 DEF FreshCopies, TypeOK
<1> QED BY <1>4, <1>5 DEF FreshCopies, history

(* A key that no step exposes stays fresh, whatever happens.                *)
LEMMA FreshInductive == TypeOK /\ FreshData /\ [Next]_vars => FreshData'
<1> SUFFICES ASSUME TypeOK, FreshData, [Next]_vars, NEW k \in Key, k \notin exposed'
             PROVE  FreshCopies(k)'
    BY DEF FreshData
<1>1. ASSUME UNCHANGED <<data, running, history>>
      PROVE  FreshCopies(k)'
      BY <1>1 DEF FreshData, FreshCopies, data, history
<1>2. ASSUME NEW j \in Key, Put(j)
      PROVE  FreshCopies(k)'
  <2> DEFINE reached == IF Served(j) # {} THEN Served(j) ELSE Owner(j)
  <2>1. /\ shard_data' = [n \in Node |->
             IF n \in reached THEN [shard_data[n] EXCEPT ![j] = written[j] + 1] ELSE shard_data[n]]
        /\ local_cache' = [local_cache EXCEPT ![j] = written[j] + 1]
        /\ last' = [last EXCEPT ![j] = written[j] + 1]
        /\ exposed' = IF OutOfReach(j, reached) THEN exposed \union {j} ELSE exposed
        /\ running' = running
        BY <1>2 DEF Put, tasks
  <2>2. k \notin exposed
        BY <2>1
  <2> HIDE DEF reached
  <2>3. CASE j = k
    <3>1. ~OutOfReach(k, reached)
          BY <2>1, <2>3
    <3> QED BY <2>1, <2>3, <3>1 DEF OutOfReach, FreshCopies, TypeOK
  <2>4. CASE j # k
        BY <2>1, <2>2, <2>4 DEF FreshData, FreshCopies, TypeOK
  <2> QED BY <2>3, <2>4
<1>3. ASSUME NEW j \in Key, Delete(j)
      PROVE  FreshCopies(k)'
  <2>1. /\ shard_data' = [n \in Node |->
             IF n \in Chain(j) THEN [shard_data[n] EXCEPT ![j] = NoValue] ELSE shard_data[n]]
        /\ local_cache' = [local_cache EXCEPT ![j] = NoValue]
        /\ last' = [last EXCEPT ![j] = NoValue]
        /\ exposed' = IF OutOfReach(j, Chain(j)) THEN exposed \union {j} ELSE exposed
        /\ running' = running
        BY <1>3 DEF Delete, tasks
  <2>2. k \notin exposed
        BY <2>1
  <2>3. CASE j = k
    <3>1. ~OutOfReach(k, Chain(k))
          BY <2>1, <2>3
    <3> QED BY <2>1, <2>3, <3>1 DEF OutOfReach, FreshCopies, TypeOK
  <2>4. CASE j # k
        BY <2>1, <2>2, <2>4 DEF FreshData, FreshCopies, TypeOK
  <2> QED BY <2>3, <2>4
<1>4. ASSUME NEW j \in Key, EvictCached(j)
      PROVE  FreshCopies(k)'
      BY <1>4 DEF EvictCached, FreshData, FreshCopies, TypeOK, tasks, history
<1>5. ASSUME NEW n \in Node,
             AddNode(n) \/ AddNodeHalfway(n) \/ RemoveNode(n) \/ FailNode(n)
      PROVE  FreshCopies(k)'
      BY <1>1, <1>5 DEF AddNode, AddNodeHalfway, RemoveNode, FailNode, tasks, data
<1>6. ASSUME NEW n \in Node, EndRemoval(n)
      PROVE  FreshCopies(k)'
  <2>1. CASE FinishRemoval(n)
        BY <2>1 DEF FinishRemoval, FreshData, FreshCopies, TypeOK, tasks, history
  <2>2. CASE FinishRemovalFails(n)
        BY <1>1, <2>2 DEF FinishRemovalFails, tasks
  <2> QED BY <1>6, <2>1, <2>2 DEF EndRemoval
<1>7. ASSUME NEW s \in Slot, StartTask(s)
      PROVE  FreshCopies(k)'
  <2>1. Head(queue) \in Task
        BY <1>7, HeadTailProperties DEF StartTask, TypeOK
  <2>2. UNCHANGED <<local_cache, history>> /\ FreshCopies(k)
        BY <1>7 DEF StartTask, history, FreshData
  <2>3. PICK todo \in Snapshots(Head(queue)) :
          \/ UNCHANGED <<running, shard_data>>
          \/ CopyNext(s, Head(queue), todo)
        BY <1>7 DEF StartTask
  <2>4. CASE UNCHANGED <<running, shard_data>>
        BY <1>1, <2>2, <2>4 DEF data
  <2>5. CASE CopyNext(s, Head(queue), todo)
    <3>1. todo \in SUBSET CopyItem /\ \A i \in todo : i.key = k => i.value = last[k]
          BY <2>1, <2>2, SnapshotItems DEF FreshCopies
    <3> QED BY <2>2, <2>5, <3>1, CopyFresh
  <2> QED BY <2>3, <2>4, <2>5
<1>8. ASSUME NEW s \in Slot, CopyBatch(s)
      PROVE  FreshCopies(k)'
  <2>1. running[s].todo \in SUBSET CopyItem
        BY <1>8 DEF CopyBatch, TypeOK, RunningTask
  <2>2. UNCHANGED <<local_cache, history>> /\ FreshCopies(k)
        BY <1>8 DEF CopyBatch, history, FreshData
  <2>3. \A i \in running[s].todo : i.key = k => i.value = last[k]
        BY <2>2 DEF FreshCopies
  <2> QED BY <1>8, <2>1, <2>2, <2>3, CopyFresh DEF CopyBatch
<1>9. ASSUME NEW s \in Slot, EndTask(s)
      PROVE  FreshCopies(k)'
      BY <1>9 DEF EndTask, FreshData, FreshCopies, TypeOK, Idle, data, history
<1>10. CASE Restart
       BY <1>10 DEF Restart, FreshCopies, Idle
<1>11. ASSUME NEW m \in Node, NEW n \in Node, Rebalance(m, n)
       PROVE  FreshCopies(k)'
       BY <1>1, <1>11 DEF Rebalance
<1>12. CASE UNCHANGED vars
       BY <1>1, <1>12 DEF vars, tasks
<1> QED BY <1>2, <1>3, <1>4, <1>5, <1>6, <1>7, <1>8, <1>9, <1>10, <1>11, <1>12
        DEF Next, ClientStep, MembershipStep, BackgroundStep, FinalizeRemoval, FinalizeAtDeadline

(* A GET returns no old and no deleted value of a key that was never        *)
(* written while an old copy was out of reach (manager.py:314-423).         *)
THEOREM FreshReads == Spec => []FreshUnlessExposed
<1>1. Init => FreshData
      BY DEF Init, FreshData, FreshCopies, Idle
<1>2. TypeOK /\ FreshData => FreshUnlessExposed
  <2> SUFFICES ASSUME TypeOK, NEW k \in Key, FreshCopies(k)
               PROVE  ReadResults(k) \subseteq {last[k], NoValue}
      BY DEF FreshData, FreshUnlessExposed
  <2>1. \A n \in Node : shard_data[n][k] \in {last[k], NoValue}
        BY DEF FreshCopies
  <2>2. Served(k) \subseteq Node /\ draining \subseteq Node
        BY ReplicasAreMembers, OnRingNodes DEF Served, Chain, TypeOK, Placeable
  <2> QED BY <2>1, <2>2 DEF ReadResults, First, FreshCopies
<1> QED BY <1>1, <1>2, ManagerTypes, FreshInductive, PTL DEF Spec

-----------------------------------------------------------------------------
(* No orphans.  Besides the shards the invariant watches the items on their *)
(* way: each is for a member of the ring.                                   *)
DataOnRing ==
  spent["deadlines"] = 0 =>
    /\ \A n \in Node \ (nodes \union unfinished) : \A k \in Key : shard_data[n][k] = NoValue
    /\ \A s \in Slot : \A i \in running[s].todo : i.target \in nodes

(* A task bound for members fills the shards of members (manager.py:478-486).*)
LEMMA CopyOnRing ==
  ASSUME TypeOK, DataOnRing, UNCHANGED <<nodes, unfinished, spent>>,
         NEW s \in Slot, NEW task, NEW todo \in SUBSET CopyItem,
         spent["deadlines"] = 0 => \A i \in todo : i.target \in nodes,
         CopyNext(s, task, todo)
  PROVE  DataOnRing'
<1> SUFFICES ASSUME spent["deadlines"] = 0
             PROVE  /\ \A n \in Node \ (nodes \union unfinished) :
                         \A k \in Key : shard_data'[n][k] = NoValue
                    /\ \A r \in Slot : \A i \in running'[r].todo : i.target \in nodes
    BY DEF DataOnRing
<1>1. PICK t \in NextTargets(todo, task.target) : \E b \in Batches(todo, t) :
        /\ shard_data' = Stored(b)
        /\ running' = [running EXCEPT ![s] =
             [kind |-> task.kind, source |-> task.source, target |-> t, todo |-> todo \ b]]
      BY DEF CopyNext
<1>2. PICK batch \in Batches(todo, t) :
        /\ shard_data' = Stored(batch)
        /\ running' = [running EXCEPT ![s] =
             [kind |-> task.kind, source |-> task.source, target |-> t, todo |-> todo \ batch]]
      BY <1>1
<1>3. batch \subseteq todo /\ batch \subseteq CopyItem
      BY BatchItems
<1>4. \A n \in Node \ (nodes \union unfinished) : \A k \in Key : shard_data'[n][k] = NoValue
      BY <1>2, <1>3, StoredEntries DEF DataOnRing
<1>5. \A r \in Slot : \A i \in running'[r].todo : i.target \in nodes
      BY <1>2 DEF DataOnRing, TypeOK
<1> QED BY <1>4, <1>5

(* No action puts data, or a copy on its way, on a node off the ring.       *)
LEMMA OnRingInductive == TypeOK /\ DataOnRing /\ [Next]_vars => DataOnRing'
<1> SUFFICES ASSUME TypeOK, DataOnRing, [Next]_vars
             PROVE  DataOnRing'
    OBVIOUS
<1>1. ASSUME UNCHANGED <<nodes, unfinished, shard_data, running, spent>>
      PROVE  DataOnRing'
      BY <1>1 DEF DataOnRing
<1>2. ASSUME NEW j \in Key, Put(j)
      PROVE  DataOnRing'
  <2> DEFINE reached == IF Served(j) # {} THEN Served(j) ELSE Owner(j)
  <2>1. /\ shard_data' = [n \in Node |->
             IF n \in reached THEN [shard_data[n] EXCEPT ![j] = written[j] + 1] ELSE shard_data[n]]
        /\ UNCHANGED <<nodes, unfinished, running, spent>>
        BY <1>2 DEF Put, placement, tasks
  <2>2. reached \subseteq nodes
        BY ReplicasAreMembers, OnRingNodes DEF Served, Chain, Owner, First
  <2> HIDE DEF reached
  <2> QED BY <2>1, <2>2 DEF DataOnRing
<1>3. ASSUME NEW j \in Key, Delete(j)
      PROVE  DataOnRing'
  <2>1. /\ shard_data' = [n \in Node |->
             IF n \in Chain(j) THEN [shard_data[n] EXCEPT ![j] = NoValue] ELSE shard_data[n]]
        /\ UNCHANGED <<nodes, unfinished, running, spent>>
        BY <1>3 DEF Delete, placement, tasks
  <2>2. Chain(j) \subseteq nodes
        BY ReplicasAreMembers, OnRingNodes DEF Chain
  <2> QED BY <2>1, <2>2 DEF DataOnRing
<1>4. ASSUME NEW n \in Node,
             AddNode(n) \/ AddNodeHalfway(n) \/ RemoveNode(n) \/ FailNode(n)
      PROVE  DataOnRing'
  <2>1. /\ nodes \subseteq nodes' /\ unfinished \subseteq unfinished' \union nodes
        /\ UNCHANGED <<shard_data, running>>
        BY <1>4 DEF AddNode, AddNodeHalfway, RemoveNode, FailNode, data, tasks
  <2>2. spent'["deadlines"] = spent["deadlines"]
        BY <1>4 DEF AddNode, AddNodeHalfway, RemoveNode, FailNode, Spend, TypeOK, Bounded
  <2> QED BY <2>1, <2>2 DEF DataOnRing
<1>5. ASSUME NEW n \in Node, FinalizeRemoval(n)
      PROVE  DataOnRing'
  <2>1. /\ nodes' = nodes \ {n} /\ EndRemoval(n)
        /\ UNCHANGED <<running, spent>>
        BY <1>5 DEF FinalizeRemoval, EndRemoval, FinishRemoval, FinishRemovalFails, LeaveRing, tasks
  <2>2. \A s \in Slot : running[s].todo = {}
        BY <1>5 DEF FinalizeRemoval, NoActiveMigration, Idle
  <2>3. CASE FinishRemoval(n)
    <3>1. /\ shard_data' = [shard_data EXCEPT ![n] = [k \in Key |-> NoValue]]
          /\ unfinished' = unfinished \ {n}
          BY <2>3 DEF FinishRemoval
    <3> QED BY <2>1, <2>2, <3>1 DEF DataOnRing, TypeOK
  <2>4. CASE FinishRemovalFails(n)
    <3>1. shard_data' = shard_data /\ unfinished' = unfinished \union {n}
          BY <2>4 DEF FinishRemovalFails, data
    <3> QED BY <2>1, <2>2, <3>1 DEF DataOnRing
  <2> QED BY <2>1, <2>3, <2>4 DEF EndRemoval
<1>6. ASSUME NEW n \in Node, FinalizeAtDeadline(n)
      PROVE  DataOnRing'
  <2>1. spent'["deadlines"] = spent["deadlines"] + 1 /\ spent["deadlines"] \in Nat
        BY <1>6 DEF FinalizeAtDeadline, Spend, TypeOK, Bounded
  <2> QED BY <2>1 DEF DataOnRing
<1>7. ASSUME NEW s \in Slot, StartTask(s)
      PROVE  DataOnRing'
  <2>1. Head(queue) \in Task
        BY <1>7, HeadTailProperties DEF StartTask, TypeOK
  <2>2. UNCHANGED <<nodes, unfinished, spent>>
        BY <1>7 DEF StartTask, placement
  <2>3. PICK todo \in Snapshots(Head(queue)) :
          \/ UNCHANGED <<running, shard_data>>
          \/ CopyNext(s, Head(queue), todo)
        BY <1>7 DEF StartTask
  <2>4. CASE UNCHANGED <<running, shard_data>>
        BY <1>1, <2>2, <2>4
  <2>5. CASE CopyNext(s, Head(queue), todo)
    <3>1. todo \in SUBSET CopyItem /\ \A i \in todo : i.target \in nodes
          BY <2>1, SnapshotItems
    <3> QED BY <2>2, <2>5, <3>1, CopyOnRing
  <2> QED BY <2>3, <2>4, <2>5
<1>8. ASSUME NEW s \in Slot, CopyBatch(s)
      PROVE  DataOnRing'
  <2>1. running[s].todo \in SUBSET CopyItem
        BY <1>8 DEF CopyBatch, TypeOK, RunningTask
  <2>2. UNCHANGED <<nodes, unfinished, spent>>
        BY <1>8 DEF CopyBatch, placement
  <2>3. spent["deadlines"] = 0 => \A i \in running[s].todo : i.target \in nodes
        BY DEF DataOnRing
  <2> QED BY <1>8, <2>1, <2>2, <2>3, CopyOnRing DEF CopyBatch
<1>9. ASSUME NEW s \in Slot, EndTask(s)
      PROVE  DataOnRing'
      BY <1>9 DEF EndTask, DataOnRing, TypeOK, Idle, data, placement
<1>10. CASE Restart
       BY <1>10 DEF Restart, DataOnRing, Idle
<1>11. ASSUME NEW m \in Node, NEW n \in Node, Rebalance(m, n)
       PROVE  DataOnRing'
  <2>1. spent'["deadlines"] = spent["deadlines"]
        BY <1>11 DEF Rebalance, Spend, TypeOK, Bounded
  <2> QED BY <1>11, <2>1 DEF Rebalance, DataOnRing, placement, data
<1>12. CASE UNCHANGED vars \/ \E k \in Key : EvictCached(k)
       BY <1>1, <1>12 DEF vars, EvictCached, placement, data, tasks
<1> QED BY <1>2, <1>3, <1>4, <1>5, <1>6, <1>7, <1>8, <1>9, <1>10, <1>11, <1>12
        DEF Next, ClientStep, MembershipStep, BackgroundStep

(* While every removal ends within its deadline, no shard is filled for a   *)
(* node that has left, and none is kept but by a finalizer that failed      *)
(* (manager.py:163-173, 249-265).                                           *)
THEOREM NoOrphans == Spec => []NoOrphanData
<1>1. Init => DataOnRing
      BY DEF Init, DataOnRing, Idle
<1>2. DataOnRing => NoOrphanData
      BY DEF DataOnRing, NoOrphanData
<1> QED BY <1>1, <1>2, ManagerTypes, OnRingInductive, PTL DEF Spec

-----------------------------------------------------------------------------
(* Nothing stored is lost.  First, what the walk around the ring means: a   *)
(* clockwise walk meets the positions in one order.                         *)
LEMMA WalkOrdersPositions ==
  ASSUME NEW h \in Nat
  PROVE  /\ \A p \in Nat : ~Before(h, p, p)
         /\ \A p, q \in Nat : p # q => Before(h, p, q) \/ Before(h, q, p)
         /\ \A p, q, r \in Nat : Before(h, p, q) /\ Before(h, q, r) => Before(h, p, r)
BY DEF Before

(* A set of positions has a least one.                                      *)
LEMMA LeastExists ==
  ASSUME NEW P \in SUBSET Nat, P # {}
  PROVE  \E p \in P : \A q \in P : p <= q
<1>1. PICK p \in P : \A q \in P : ~(<<q, p>> \in OpToRel(<, Nat))
      BY NatLessThanWellFounded, WFMin
<1>2. \A q \in P : ~(q < p)
      BY <1>1 DEF OpToRel
<1> QED BY <1>2

(* FirstAfter is what it is called, wherever there is a position to meet    *)
(* (consistent_hash.py:151-166).                                            *)
LEMMA FirstAfterIsFirst ==
  ASSUME NEW h \in Nat, NEW P \in SUBSET Nat, P # {}
  PROVE  /\ FirstAfter(h, P) \in P
         /\ \A q \in P \ {FirstAfter(h, P)} : Before(h, FirstAfter(h, P), q)
<1> DEFINE beyond == {q \in P : q > h}
<1>1. \E p \in P : \A q \in P \ {p} : Before(h, p, q)
  <2>1. CASE beyond # {}
    <3>1. PICK p \in beyond : \A q \in beyond : p <= q
          BY <2>1, LeastExists
    <3> QED BY <3>1 DEF Before
  <2>2. CASE beyond = {}
    <3>1. PICK p \in P : \A q \in P : p <= q
          BY LeastExists
    <3>2. \A q \in P : ~(q > h)
          BY <2>2
    <3> QED BY <3>1, <3>2 DEF Before
  <2> QED BY <2>1, <2>2
<1> QED BY <1>1 DEF FirstAfter

(* A node with positions is on the ring somewhere.                          *)
LEMMA NodePositions ==
  ASSUME NEW n \in Placeable
  PROVE  PositionsIn({n}) \in SUBSET Nat /\ PositionsIn({n}) # {}
<1>1. Vnodes[n] \in Seq(Nat) /\ Vnodes[n] # <<>>
      BY PlacementAssumption DEF Placeable
<1>2. PositionsIn({n}) = {Vnodes[n][i] : i \in DOMAIN Vnodes[n]}
      BY DEF PositionsIn
<1>3. Len(Vnodes[n]) \in Nat /\ DOMAIN Vnodes[n] = 1 .. Len(Vnodes[n]) /\ Len(Vnodes[n]) # 0
      BY <1>1, LenProperties, EmptySeq
<1>4. 1 \in DOMAIN Vnodes[n]
      BY <1>3
<1>5. \A i \in DOMAIN Vnodes[n] : Vnodes[n][i] \in Nat
      BY <1>1, <1>3, ElementOfSeq
<1> QED BY <1>2, <1>4, <1>5

(* A member of the ring has its own positions there and no others.          *)
LEMMA RingPositions ==
  ASSUME NEW S \in SUBSET Node, NEW n \in S
  PROVE  PositionsOf(Ring(S), n) = PositionsIn({n})
<1>1. DOMAIN Ring(S) = PositionsIn(S) /\ PositionsIn({n}) \subseteq PositionsIn(S)
      BY DEF Ring, PositionsIn
<1>2. ASSUME NEW p \in PositionsIn(S)
      PROVE  Ring(S)[p] = n <=> p \in PositionsIn({n})
  <2> DEFINE owner == CHOOSE m \in S : p \in PositionsIn({m})
  <2>1. \E m \in S : p \in PositionsIn({m})
        BY DEF PositionsIn
  <2>2. owner \in S /\ p \in PositionsIn({owner})
        BY <2>1
  <2>3. Ring(S)[p] = owner
        BY DEF Ring
  <2> HIDE DEF owner
  <2> QED BY <2>2, <2>3, PlacementAssumption
<1> QED BY <1>1, <1>2 DEF PositionsOf

(* Every member of the ring is met on the walk, and nobody else.            *)
LEMMA RingMembers ==
  ASSUME NEW S \in SUBSET Placeable
  PROVE  Members(Ring(S)) = S
<1>1. DOMAIN Ring(S) = PositionsIn(S)
      BY DEF Ring
<1>2. Members(Ring(S)) \subseteq S
      BY <1>1, RingOwners DEF Members, Placeable
<1>3. ASSUME NEW n \in S
      PROVE  n \in Members(Ring(S))
  <2>1. PositionsOf(Ring(S), n) # {}
        BY RingPositions, NodePositions DEF Placeable
  <2>2. PICK p \in DOMAIN Ring(S) : Ring(S)[p] = n
        BY <2>1 DEF PositionsOf
  <2> QED BY <2>2 DEF Members
<1> QED BY <1>2, <1>3

-----------------------------------------------------------------------------
(* Where the walk from the key's hash first meets node n.                   *)
Met(k, n) == FirstAfter(KeyHash[k], PositionsIn({n}))

(* The nodes are met at different positions, and in the order of Nearer.    *)
LEMMA NearerIsMetBefore ==
  ASSUME NEW k \in Key
  PROVE  /\ KeyHash[k] \in Nat
         /\ \A n \in Placeable : Met(k, n) \in Nat
         /\ \A m, n \in Placeable : m # n => Met(k, m) # Met(k, n)
         /\ \A m, n \in Placeable : <<m, n>> \in Nearer[k] <=> Before(KeyHash[k], Met(k, m), Met(k, n))
<1>1. KeyHash[k] \in Nat
      BY PlacementAssumption
<1>2. \A n \in Placeable : Met(k, n) \in Nat /\ Met(k, n) \in PositionsIn({n})
      BY <1>1, NodePositions, FirstAfterIsFirst DEF Met
<1>3. \A m, n \in Placeable : m # n => Met(k, m) # Met(k, n)
      BY <1>2, PlacementAssumption DEF Placeable
<1>4. ASSUME NEW m \in Placeable, NEW n \in Placeable
      PROVE  <<m, n>> \in Nearer[k] <=> Before(KeyHash[k], Met(k, m), Met(k, n))
  <2>1. <<m, n>> \in Nearer[k] <=> Closer(Ring(Placeable), KeyHash[k], m, n)
        BY DEF Nearer
  <2>2. PositionsOf(Ring(Placeable), m) = PositionsIn({m}) /\ PositionsOf(Ring(Placeable), n) = PositionsIn({n})
        BY RingPositions DEF Placeable
  <2> QED BY <2>1, <2>2 DEF Closer, Met
<1> QED BY <1>1, <1>2, <1>3, <1>4

(* The nodes of S that the walk meets before node m.                        *)
Ahead(k, m, S) == {x \in S \ {m} : <<x, m>> \in Nearer[k]}

(* The replicas of a key are the members with fewer than ReplicationFactor  *)
(* members ahead of them (consistent_hash.py:180-198).                      *)
LEMMA ChainIsNearest ==
  ASSUME NEW S \in SUBSET Placeable, NEW k \in Key
  PROVE  Replicas[S][k] = {m \in S : Cardinality(Ahead(k, m, S)) < ReplicationFactor}
<1>1. ASSUME NEW x \in S, NEW m \in S
      PROVE  Closer(Ring(S), KeyHash[k], x, m) <=> <<x, m>> \in Nearer[k]
  <2>1. x \in Placeable /\ m \in Placeable /\ S \in SUBSET Node
        BY DEF Placeable
  <2>2. PositionsOf(Ring(S), x) = PositionsIn({x}) /\ PositionsOf(Ring(S), m) = PositionsIn({m})
        BY <2>1, RingPositions
  <2>3. <<x, m>> \in Nearer[k] <=> Before(KeyHash[k], Met(k, x), Met(k, m))
        BY <2>1, NearerIsMetBefore
  <2> QED BY <2>2, <2>3 DEF Closer, Met
<1>2. ASSUME NEW m \in S
      PROVE  {x \in S \ {m} : Closer(Ring(S), KeyHash[k], x, m)} = Ahead(k, m, S)
      BY <1>1 DEF Ahead
<1>3. Replicas[S][k] = ReplicasOf(Ring(S), KeyHash[k], ReplicationFactor)
      BY DEF Replicas
<1>4. ReplicasOf(Ring(S), KeyHash[k], ReplicationFactor)
        = {m \in S : Cardinality({x \in S \ {m} : Closer(Ring(S), KeyHash[k], x, m)})
                       < ReplicationFactor}
      BY RingMembers DEF ReplicasOf
<1> QED BY <1>2, <1>3, <1>4

(* Of any nodes there is one the walk meets first.                          *)
LEMMA FirstExists ==
  ASSUME NEW k \in Key, NEW S \in SUBSET Placeable, S # {}
  PROVE  \E m \in S : /\ First(k, S) = {m}
                      /\ Ahead(k, m, S) = {}
                      /\ \A x \in S \ {m} : <<m, x>> \in Nearer[k]
<1> DEFINE h == KeyHash[k]
           P == {Met(k, n) : n \in S}
<1>1. h \in Nat /\ P \in SUBSET Nat /\ P # {}
      BY NearerIsMetBefore
<1>2. /\ FirstAfter(h, P) \in P
      /\ \A q \in P \ {FirstAfter(h, P)} : Before(h, FirstAfter(h, P), q)
      BY <1>1, FirstAfterIsFirst
<1>3. PICK m \in S : FirstAfter(h, P) = Met(k, m)
      BY <1>2
<1>4. \A x \in S \ {m} : Before(h, Met(k, m), Met(k, x))
      BY <1>2, <1>3, NearerIsMetBefore
<1>5. \A x \in S \ {m} : ~Before(h, Met(k, x), Met(k, m))
      BY <1>1, <1>4, WalkOrdersPositions, NearerIsMetBefore
<1>6. \A x \in S \ {m} : <<m, x>> \in Nearer[k] /\ <<x, m>> \notin Nearer[k]
      BY <1>4, <1>5, NearerIsMetBefore
<1> QED BY <1>6 DEF First, Ahead

(* How the nodes ahead of m change in number with the members.              *)
LEMMA AheadCounts ==
  ASSUME NEW k \in Key, NEW S \in SUBSET Node, NEW m \in Node, NEW n \in Node
  PROVE  /\ Cardinality(Ahead(k, m, S)) \in Nat
         /\ Cardinality(Ahead(k, m, S \ {n})) \in Nat
         /\ Cardinality(Ahead(k, m, S \union {n})) \in Nat
         /\ Cardinality(Ahead(k, m, S \ {n})) <= Cardinality(Ahead(k, m, S))
         /\ Cardinality(Ahead(k, m, S \union {n})) <= Cardinality(Ahead(k, m, S)) + 1
         /\ Cardinality(Ahead(k, m, S)) <= Cardinality(Ahead(k, m, S \ {n})) + 1
<1>1. ASSUME NEW T \in SUBSET Node
      PROVE  IsFiniteSet(Ahead(k, m, T)) /\ Cardinality(Ahead(k, m, T)) \in Nat
      BY PlacementAssumption, FS_Subset, FS_CardinalityType DEF Ahead
<1>2. ASSUME NEW T \in SUBSET Node
      PROVE  Cardinality(Ahead(k, m, T \union {n})) <= Cardinality(Ahead(k, m, T)) + 1
  <2>1. Ahead(k, m, T \union {n}) \subseteq Ahead(k, m, T) \union {n}
        BY DEF Ahead
  <2>2. /\ IsFiniteSet(Ahead(k, m, T) \union {n})
        /\ Cardinality(Ahead(k, m, T) \union {n}) <= Cardinality(Ahead(k, m, T)) + 1
        BY <1>1, FS_AddElement
  <2>3. Cardinality(Ahead(k, m, T \union {n})) <= Cardinality(Ahead(k, m, T) \union {n})
        BY <2>1, <2>2, FS_Subset
  <2>4. Cardinality(Ahead(k, m, T) \union {n}) \in Nat
        BY <2>2, FS_CardinalityType
  <2>5. Cardinality(Ahead(k, m, T \union {n})) \in Nat
        BY <1>1
  <2> QED BY <1>1, <2>2, <2>3, <2>4, <2>5
<1>3. ASSUME NEW T \in SUBSET Node, NEW U \in SUBSET T
      PROVE  Cardinality(Ahead(k, m, U)) <= Cardinality(Ahead(k, m, T))
  <2>1. Ahead(k, m, U) \subseteq Ahead(k, m, T)
        BY DEF Ahead
  <2> QED BY <1>1, <2>1, FS_Subset
<1>4. Cardinality(Ahead(k, m, S)) <= Cardinality(Ahead(k, m, (S \ {n}) \union {n}))
      BY <1>3
<1> QED BY <1>1, <1>2, <1>3, <1>4

-----------------------------------------------------------------------------
(* The nodes on their way out: those with an entry in _draining_nodes, but  *)
(* for the ones whose removal ended with an error and left the entry there. *)
Leaving == draining \ unfinished

(* The premise of the theorem.  One node is drained at a time and another   *)
(* member with positions stays; a node is not removed again while its       *)
(* removal is under way; no node falls silent, no restart and no removal    *)
(* past its deadline empties a shard that was not copied; and the nodes     *)
(* that ever joined are fewer than the replicas of a key, since a node that *)
(* joins may take the place of a replica without its data                   *)
(* (manager.py:95-132).  The number of failed joins, removals, rebalances,  *)
(* writes and deletions is free.                                            *)
Orderly ==
  /\ \A m, n \in Leaving : m = n
  /\ Leaving # {} => OnRing \ Leaving # {}
  /\ \A n \in Node : finalizers[n] <= 1
  /\ spent["failures"] = 0 /\ spent["restarts"] = 0 /\ spent["deadlines"] = 0
  /\ spent["joins"] < ReplicationFactor

Holds(k, m) == shard_data[m][k] # NoValue

(* Only nodes that joined have come between key and copy.                   *)
Near(k, m, S) == Cardinality(Ahead(k, m, S)) <= spent["joins"]

(* The drain of n has still to take its snapshot, or a task has an item of  *)
(* the key for a node that is near when n is gone.                          *)
Carried(k, n) ==
  \/ \E i \in DOMAIN queue : queue[i] = DrainOf(n)
  \/ \E s \in Slot : \E i \in running[s].todo :
       /\ i.key = k
       /\ i.target \in OnRing \ {n}
       /\ Near(k, i.target, OnRing \ {n})

CopyStays(k) == \E m \in OnRing : Holds(k, m) /\ Near(k, m, OnRing)

(* While n drains, a copy that will be near without n can be read now, or   *)
(* n itself has the copy and it is on its way.                              *)
CopyOutlives(k, n) ==
  \E m \in OnRing \ {n} : /\ Holds(k, m) /\ Near(k, m, OnRing \ {n})
                          /\ Near(k, m, OnRing) \/ Holds(k, n)

CopyMoves(k, n) == Holds(k, n) /\ Near(k, n, OnRing) /\ Carried(k, n)

CopyKept(k) ==
  IF Leaving = {} THEN CopyStays(k)
                   ELSE \A n \in Leaving : CopyOutlives(k, n) \/ CopyMoves(k, n)

CopiesKept == \A k \in Key : last[k] # NoValue => CopyKept(k)

(* Every member is online or leaving, drains and finalizers belong to nodes *)
(* that leave, and what is carried is a value.                              *)
DrainsInOrder ==
  /\ nodes = online \union Leaving
  /\ \A n \in Node : finalizers[n] > 0 => n \in Leaving
  /\ \A i \in DOMAIN queue : queue[i].kind = "drain" => queue[i].source \in Leaving
  /\ \A s \in Slot : running[s].kind = "drain" => running[s].source \in Leaving
  /\ \A s \in Slot : \A i \in running[s].todo : i.value # NoValue

(* A migration that copies its next batch stores it, drops nothing that is  *)
(* left, and takes nothing from a shard (manager.py:206-216, 478-486).      *)
LEMMA CopyKeeps ==
  ASSUME TypeOK, NEW s \in Slot, NEW task, NEW todo \in SUBSET CopyItem,
         \A i \in todo : i.value # NoValue,
         CopyNext(s, task, todo)
  PROVE  /\ \A n \in Node, k \in Key : Holds(k, n) => shard_data'[n][k] # NoValue
         /\ \A i \in todo : \/ i \in running'[s].todo
                            \/ shard_data'[i.target][i.key] # NoValue
         /\ \A r \in Slot \ {s} : running'[r] = running[r]
         /\ running'[s].kind = task.kind /\ running'[s].source = task.source
         /\ running'[s].todo \subseteq todo
<1>1. PICK t \in NextTargets(todo, task.target) : \E b \in Batches(todo, t) :
        /\ shard_data' = Stored(b)
        /\ running' = [running EXCEPT ![s] =
             [kind |-> task.kind, source |-> task.source, target |-> t, todo |-> todo \ b]]
      BY DEF CopyNext
<1>2. PICK batch \in Batches(todo, t) :
        /\ shard_data' = Stored(batch)
        /\ running' = [running EXCEPT ![s] =
             [kind |-> task.kind, source |-> task.source, target |-> t, todo |-> todo \ batch]]
      BY <1>1
<1>3. batch \subseteq todo /\ batch \subseteq CopyItem
      BY BatchItems
<1>4. \A n \in Node, k \in Key : Holds(k, n) => shard_data'[n][k] # NoValue
      BY <1>2, <1>3, StoredEntries DEF Holds
<1>5. running'[s] = [kind |-> task.kind, source |-> task.source, target |-> t, todo |-> todo \ batch]
      BY <1>2 DEF TypeOK
<1>6. \A r \in Slot \ {s} : running'[r] = running[r]
      BY <1>2 DEF TypeOK
<1>7. ASSUME NEW i \in batch
      PROVE  shard_data'[i.target][i.key] # NoValue
  <2> DEFINE c == CHOOSE j \in batch : j.target = i.target /\ j.key = i.key
  <2>1. c \in batch
        OBVIOUS
  <2>2. i.target \in Node /\ i.key \in Key
        BY <1>3 DEF CopyItem
  <2>3. Stored(batch)[i.target][i.key] = c.value
        BY <2>2 DEF Stored
  <2> HIDE DEF c
  <2> QED BY <1>2, <1>3, <2>1, <2>3
<1> QED BY <1>3, <1>4, <1>5, <1>6, <1>7

(* What the drain of n will copy of a key it holds nearby: the copy goes to *)
(* the member that comes first without n (manager.py:185-205).              *)
LEMMA DrainTakesKey ==
  ASSUME TypeOK, DrainsInOrder, ReplicationFactor >= 2, online \intersect Leaving = {},
         NEW n \in Node, Leaving = {n}, OnRing \ {n} # {},
         NEW k \in Key, Holds(k, n), NEW todo \in Snapshots(DrainOf(n))
  PROVE  \E i \in todo : /\ i.key = k
                         /\ i.target \in OnRing \ {n}
                         /\ Ahead(k, i.target, OnRing \ {n}) = {}
<1>1. OnRing \ {n} \subseteq online /\ OnRing \ {n} \in SUBSET Placeable
      BY OnRingNodes DEF DrainsInOrder
<1>2. PICK m \in OnRing \ {n} : /\ First(k, OnRing \ {n}) = {m}
                                /\ Ahead(k, m, OnRing \ {n}) = {}
      BY <1>1, FirstExists
<1>3. m \in Chain(k)
  <2>1. Cardinality(Ahead(k, m, OnRing \ {n})) = 0
        BY <1>2, FS_EmptySet
  <2>2. /\ Cardinality(Ahead(k, m, OnRing)) <= Cardinality(Ahead(k, m, OnRing \ {n})) + 1
        /\ Cardinality(Ahead(k, m, OnRing)) \in Nat
        BY <1>1, OnRingNodes, AheadCounts DEF Placeable
  <2>3. Cardinality(Ahead(k, m, OnRing)) < ReplicationFactor
        BY <2>1, <2>2, ManagerAssumption
  <2>4. OnRing \in SUBSET Placeable /\ m \in OnRing
        BY OnRingNodes
  <2> QED BY <2>3, <2>4, ChainIsNearest DEF Chain
<1> DEFINE candidates == (Chain(k) \intersect online) \ {n}
<1>4. m \in candidates /\ candidates \subseteq OnRing \ {n}
      BY <1>1, <1>3, OnRingNodes, ReplicasAreMembers DEF Chain
<1>5. m \in First(k, candidates)
      BY <1>2, <1>4 DEF First
<1>6. PICK f : todo = DrainItems(n, f)
      BY DEF Snapshots, DrainOf
<1>7. Item(k, n, m) \in todo
  <2>1. k \in HeldBy(n)
        BY DEF HeldBy, Holds
  <2>2. {Item(k, n, t) : t \in First(k, candidates)} \subseteq DrainItems(n, f)
    <3> HIDE DEF Item, First
    <3>1. candidates # {}
          BY <1>4
    <3> QED BY <2>1, <3>1 DEF DrainItems
  <2> QED BY <1>5, <1>6, <2>2
<1> QED BY <1>2, <1>7 DEF Item

(* No step of an orderly run upsets the drains.                             *)
LEMMA DrainsInductive ==
  TypeOK /\ DrainingIsAttended /\ DrainsInOrder /\ Orderly /\ Orderly' /\ [Next]_vars => DrainsInOrder'
<1> SUFFICES ASSUME TypeOK, DrainingIsAttended, DrainsInOrder, Orderly, Orderly', [Next]_vars
             PROVE  DrainsInOrder'
    OBVIOUS
<1> USE DEF Leaving
<1>1. ASSUME UNCHANGED <<nodes, online, draining, unfinished, finalizers, queue, running>>
      PROVE  DrainsInOrder'
      BY <1>1 DEF DrainsInOrder
<1>2. ASSUME NEW n \in Node, AddNode(n)
      PROVE  DrainsInOrder'
  <2> DEFINE sources == SourcesFor(Ring(OnRing), n, Vnodes[n])
             plans   == [i \in DOMAIN sources |-> MigrationOf(sources[i], n)]
  <2>1. sources \in Seq(Node)
        BY OnRingNodes, SourcesAreNodes DEF Placeable
  <2>2. plans \in Seq(Task) /\ \A i \in DOMAIN plans : plans[i].kind = "migrate"
    <3> HIDE DEF sources
    <3>1. Len(sources) \in Nat /\ DOMAIN sources = 1 .. Len(sources)
          BY <2>1, LenProperties
    <3>2. \A i \in 1 .. Len(sources) : MigrationOf(sources[i], n) \in Task
          BY <2>1, <3>1, ElementOfSeq DEF MigrationOf, Task
    <3> QED BY <3>1, <3>2, IsASeq DEF MigrationOf
  <2>3. queue' = queue \o plans
        BY <1>2 DEF AddNode
  <2>4. /\ nodes' = nodes \union {n} /\ online' = online \union {n}
        /\ UNCHANGED <<draining, unfinished, finalizers, running>>
        BY <1>2 DEF AddNode
  <2> HIDE DEF plans
  <2>5. ASSUME NEW i \in DOMAIN queue', queue'[i].kind = "drain"
        PROVE  queue'[i].source \in Leaving
    <3>1. /\ queue \in Seq(Task) /\ Len(queue) \in Nat /\ Len(plans) \in Nat
          /\ DOMAIN queue = 1 .. Len(queue) /\ DOMAIN plans = 1 .. Len(plans)
          BY <2>2, LenProperties DEF TypeOK
    <3>2. /\ i \in 1 .. Len(queue) + Len(plans)
          /\ queue'[i] = IF i <= Len(queue) THEN queue[i] ELSE plans[i - Len(queue)]
          BY <2>2, <2>3, <3>1, <2>5, ConcatProperties, LenProperties
    <3> QED BY <2>2, <2>5, <3>1, <3>2 DEF DrainsInOrder
  <2> QED BY <2>4, <2>5 DEF DrainsInOrder
<1>3. ASSUME NEW n \in Node, RemoveNode(n)
      PROVE  DrainsInOrder'
  <2>1. /\ n \in nodes /\ nodes' = nodes /\ online' = online \ {n}
        /\ draining' = draining \union {n} /\ unfinished' = unfinished \ {n}
        /\ finalizers' = [finalizers EXCEPT ![n] = @ + 1]
        /\ running' = running
        BY <1>3 DEF RemoveNode, ScheduleFinalizer
  <2>2. queue' = queue \/ queue' = Append(queue, DrainOf(n))
        BY <1>3 DEF RemoveNode
  <2>3. ASSUME NEW i \in DOMAIN queue', queue'[i].kind = "drain"
        PROVE  queue'[i].source \in Leaving'
    <3>1. /\ queue \in Seq(Task) /\ Len(queue) \in Nat /\ DOMAIN queue = 1 .. Len(queue)
          BY LenProperties DEF TypeOK
    <3>2. CASE queue' = queue
          BY <2>1, <2>3, <3>2 DEF DrainsInOrder
    <3>3. CASE queue' = Append(queue, DrainOf(n))
      <4>1. DrainOf(n) \in Task
            BY DEF DrainOf, Task
      <4>2. /\ i \in 1 .. Len(queue) + 1
            /\ queue'[i] = IF i <= Len(queue) THEN queue[i] ELSE DrainOf(n)
            BY <2>3, <3>1, <3>3, <4>1, AppendProperties, LenProperties
      <4> QED BY <2>1, <2>3, <3>1, <4>2 DEF DrainsInOrder, DrainOf
    <3> QED BY <2>2, <3>2, <3>3
  <2> QED BY <2>1, <2>3 DEF DrainsInOrder, TypeOK
<1>4. ASSUME NEW n \in Node, FailNode(n) \/ FinalizeAtDeadline(n)
      PROVE  FALSE
      BY <1>4 DEF FailNode, FinalizeAtDeadline, Spend, Orderly, TypeOK, Bounded
<1>5. ASSUME NEW n \in Node, FinalizeRemoval(n)
      PROVE  DrainsInOrder'
  <2>1. /\ nodes' = nodes \ {n} /\ online' = online \ {n}
        /\ finalizers' = [finalizers EXCEPT ![n] = @ - 1]
        /\ UNCHANGED <<queue, running>>
        BY <1>5 DEF FinalizeRemoval, EndRemoval, FinishRemoval, FinishRemovalFails, LeaveRing, tasks
  <2>4. Leaving' = Leaving \ {n}
        BY <1>5 DEF FinalizeRemoval, EndRemoval, FinishRemoval, FinishRemovalFails
  <2> HIDE DEF Leaving
  <2>2. queue = <<>> /\ \A s \in Slot : running[s] = Idle
        BY <1>5 DEF FinalizeRemoval, NoActiveMigration
  <2>3. \A m \in Node : finalizers'[m] > 0 => m \in Leaving'
        BY <2>1, <2>4 DEF DrainsInOrder, Orderly, TypeOK
  <2> QED BY <2>1, <2>2, <2>3, <2>4 DEF DrainsInOrder, Idle
<1>6. ASSUME NEW s \in Slot, StartTask(s)
      PROVE  DrainsInOrder'
  <2> DEFINE head == Head(queue)
  <2>1. PICK task \in Task : task = head
        BY <1>6, HeadTailProperties DEF StartTask, TypeOK
  <2>2. /\ UNCHANGED <<nodes, online, draining, unfinished, finalizers>> /\ queue # <<>>
        /\ queue' = Tail(queue)
        BY <1>6 DEF StartTask, placement
  <2>3. task = queue[1] /\ 1 \in DOMAIN queue
        BY <2>1, <2>2, HeadTailProperties, LenProperties, EmptySeq DEF TypeOK
  <2>4. \A i \in DOMAIN queue' : queue'[i].kind = "drain" => queue'[i].source \in Leaving
    <3>1. \A i \in DOMAIN queue' : i + 1 \in DOMAIN queue /\ queue'[i] = queue[i + 1]
          BY <2>2, HeadTailProperties, LenProperties DEF TypeOK
    <3> QED BY <3>1 DEF DrainsInOrder
  <2>5. PICK todo \in Snapshots(task) :
          \/ UNCHANGED <<running, shard_data>>
          \/ CopyNext(s, task, todo)
        BY <1>6, <2>1 DEF StartTask
  <2>6. CASE UNCHANGED <<running, shard_data>>
        BY <2>2, <2>4, <2>6 DEF DrainsInOrder
  <2>7. CASE CopyNext(s, task, todo)
    <3>1. todo \in SUBSET CopyItem /\ \A i \in todo : i.value # NoValue
          BY SnapshotItems
    <3>2. /\ \A r \in Slot \ {s} : running'[r] = running[r]
          /\ running'[s].kind = task.kind /\ running'[s].source = task.source
          /\ running'[s].todo \subseteq todo
          BY <2>7, <3>1, CopyKeeps
    <3>3. task.kind = "drain" => task.source \in Leaving
          BY <2>3 DEF DrainsInOrder
    <3> QED BY <2>2, <2>4, <3>1, <3>2, <3>3 DEF DrainsInOrder
  <2> QED BY <2>5, <2>6, <2>7
<1>7. ASSUME NEW s \in Slot, CopyBatch(s)
      PROVE  DrainsInOrder'
  <2>1. running[s].todo \in SUBSET CopyItem /\ \A i \in running[s].todo : i.value # NoValue
        BY <1>7 DEF CopyBatch, TypeOK, RunningTask, DrainsInOrder
  <2>2. UNCHANGED <<nodes, online, draining, unfinished, finalizers, queue>>
        BY <1>7 DEF CopyBatch, placement
  <2>3. /\ \A r \in Slot \ {s} : running'[r] = running[r]
        /\ running'[s].kind = running[s].kind /\ running'[s].source = running[s].source
        /\ running'[s].todo \subseteq running[s].todo
        BY <1>7, <2>1, CopyKeeps DEF CopyBatch
  <2> QED BY <2>1, <2>2, <2>3 DEF DrainsInOrder
<1>8. ASSUME NEW s \in Slot, EndTask(s)
      PROVE  DrainsInOrder'
      BY <1>8 DEF EndTask, DrainsInOrder, TypeOK, Idle, data, placement
<1>9. ASSUME NEW m \in Node, NEW n \in Node, Rebalance(m, n)
      PROVE  DrainsInOrder'
  <2>1. MigrationOf(m, n) \in Task /\ MigrationOf(m, n).kind = "migrate"
        BY DEF MigrationOf, Task
  <2>2. /\ queue' = Append(queue, MigrationOf(m, n))
        /\ UNCHANGED <<nodes, online, draining, unfinished, finalizers, running>>
        BY <1>9 DEF Rebalance, placement
  <2>3. ASSUME NEW i \in DOMAIN queue', queue'[i].kind = "drain"
        PROVE  queue'[i].source \in Leaving'
    <3>1. /\ queue \in Seq(Task) /\ Len(queue) \in Nat /\ DOMAIN queue = 1 .. Len(queue)
          BY LenProperties DEF TypeOK
    <3>2. /\ i \in 1 .. Len(queue) + 1
          /\ queue'[i] = IF i <= Len(queue) THEN queue[i] ELSE MigrationOf(m, n)
          BY <2>1, <2>2, <2>3, <3>1, AppendProperties, LenProperties
    <3> QED BY <2>1, <2>2, <2>3, <3>1, <3>2 DEF DrainsInOrder
  <2> QED BY <2>2, <2>3 DEF DrainsInOrder
<1>10. ASSUME Restart
       PROVE  FALSE
       BY <1>10 DEF Restart, Spend, Orderly, TypeOK, Bounded
<1>11. CASE ClientStep \/ UNCHANGED vars
       BY <1>1, <1>11 DEF ClientStep, Put, Delete, EvictCached, vars, placement, tasks
<1>12. ASSUME NEW n \in Node, AddNodeHalfway(n)
       PROVE  DrainsInOrder'
       BY <1>12 DEF AddNodeHalfway, DrainsInOrder, tasks
<1> QED BY <1>2, <1>3, <1>4, <1>5, <1>6, <1>7, <1>8, <1>9, <1>10, <1>11, <1>12
        DEF Next, MembershipStep, BackgroundStep

(* Nothing is lost by a step that keeps the membership and the shards'      *)
(* entries, and carries what was carried or has stored it.                  *)
LEMMA CopyKeptFrame ==
  ASSUME TypeOK, NEW k \in Key, CopyKept(k),
         UNCHANGED <<OnRing, Leaving>>, spent'["joins"] = spent["joins"],
         \A n \in Node : Holds(k, n) => Holds(k, n)',
         \A n \in Leaving : CopyMoves(k, n) => Carried(k, n)' \/ CopyOutlives(k, n)'
  PROVE  CopyKept(k)'
<1>1. \A m \in Node, S \in SUBSET Node : Near(k, m, S)' <=> Near(k, m, S)
      BY DEF Near, Ahead, Nearer
<1>2. OnRing \subseteq Node /\ Leaving \subseteq Node
      BY DEF TypeOK, OnRing, Leaving
<1>3. CopyStays(k) => CopyStays(k)'
      BY <1>1, <1>2 DEF CopyStays
<1>4. ASSUME NEW n \in Leaving, CopyOutlives(k, n)
      PROVE  CopyOutlives(k, n)'
      BY <1>1, <1>2, <1>4 DEF CopyOutlives
<1>5. ASSUME NEW n \in Leaving, CopyMoves(k, n), Carried(k, n)'
      PROVE  CopyMoves(k, n)'
      BY <1>1, <1>2, <1>5 DEF CopyMoves
<1> QED BY <1>3, <1>4, <1>5 DEF CopyKept

(* Every key that is stored keeps a copy that can be read, or one on its    *)
(* way to where it can be.                                                  *)
LEMMA CopiesInductive ==
  ASSUME ReplicationFactor >= 2
  PROVE  /\ TypeOK /\ DrainingIsAttended /\ DrainsInOrder /\ CopiesKept
         /\ Orderly /\ Orderly' /\ [Next]_vars
         => CopiesKept'
<1> SUFFICES ASSUME TypeOK, DrainingIsAttended, DrainsInOrder, CopiesKept, Orderly, Orderly',
                    [Next]_vars, NEW k \in Key, last'[k] # NoValue
             PROVE  CopyKept(k)'
    BY DEF CopiesKept
<1> /\ OnRing \in SUBSET Placeable /\ OnRing \in SUBSET Node /\ OnRing \subseteq nodes
    /\ Leaving \in SUBSET Node /\ spent["joins"] \in Nat
    BY OnRingNodes DEF TypeOK, Bounded, Placeable, Leaving
<1> ReplicationFactor \in Nat /\ spent["joins"] < ReplicationFactor
    BY ManagerAssumption DEF Orderly
<1>1. ASSUME UNCHANGED <<OnRing, Leaving, queue, running>>,
             spent'["joins"] = spent["joins"], last[k] # NoValue,
             \A n \in Node : Holds(k, n) => Holds(k, n)'
      PROVE  CopyKept(k)'
  <2>1. \A n \in Leaving : CopyMoves(k, n) => Carried(k, n)'
        BY <1>1 DEF CopyMoves, Carried, Near, Ahead, Nearer
  <2> QED BY <1>1, <2>1, CopyKeptFrame DEF CopiesKept
<1>2. ASSUME NEW j \in Key, Put(j)
      PROVE  CopyKept(k)'
  <2> DEFINE v == written[j] + 1
             reached == IF Served(j) # {} THEN Served(j) ELSE Owner(j)
  <2>1. /\ shard_data' = [n \in Node |->
              IF n \in reached THEN [shard_data[n] EXCEPT ![j] = v] ELSE shard_data[n]]
        /\ last' = [last EXCEPT ![j] = v]
        /\ OnRing # {}
        /\ UNCHANGED <<OnRing, Leaving, queue, running, spent>>
        BY <1>2 DEF Put, placement, tasks, OnRing, Leaving
  <2>2. v # NoValue
        BY DEF NoValue, TypeOK, Value
  <2> HIDE DEF v
  <2>3. CASE j # k
    <3>1. \A n \in Node : Holds(k, n) => Holds(k, n)'
          BY <2>1, <2>3 DEF Holds, TypeOK
    <3> QED BY <1>1, <2>1, <2>3, <3>1 DEF TypeOK
  <2>4. CASE j = k
    <3>1. Served(k) = Chain(k) /\ Chain(k) \subseteq OnRing
          BY ReplicasAreMembers DEF Served, Chain, DrainsInOrder, Leaving
    <3>2. \A m \in OnRing : Cardinality(Ahead(k, m, OnRing)) < ReplicationFactor => Holds(k, m)'
      <4>1. Chain(k) = {m \in OnRing : Cardinality(Ahead(k, m, OnRing)) < ReplicationFactor}
            BY ChainIsNearest DEF Chain
      <4>2. ASSUME NEW m \in Chain(k)
            PROVE  Holds(k, m)'
        <5>1. m \in reached /\ m \in Node
              BY <2>4, <3>1
        <5>2. shard_data'[m] = [shard_data[m] EXCEPT ![k] = v]
              BY <2>1, <2>4, <5>1
        <5> QED BY <2>2, <5>1, <5>2 DEF Holds, TypeOK
      <4> QED BY <4>1, <4>2
    <3>3. CASE Leaving = {}
      <4>1. PICK m \in OnRing : Ahead(k, m, OnRing) = {}
            BY <2>1, FirstExists
      <4>2. Cardinality(Ahead(k, m, OnRing)) = 0
            BY <4>1, FS_EmptySet
      <4>3. Holds(k, m)' /\ Near(k, m, OnRing)'
            BY <2>1, <3>2, <4>2 DEF Near, Ahead, Nearer
      <4> QED BY <2>1, <3>3, <4>3 DEF CopyKept, CopyStays
    <3>4. ASSUME NEW n \in Leaving
          PROVE  CopyOutlives(k, n)'
      <4>1. Leaving = {n} /\ OnRing \ {n} # {}
            BY DEF Orderly
      <4>2. PICK m \in OnRing \ {n} : /\ Ahead(k, m, OnRing \ {n}) = {}
                                      /\ \A x \in (OnRing \ {n}) \ {m} : <<m, x>> \in Nearer[k]
            BY <4>1, FirstExists
      <4>3. Cardinality(Ahead(k, m, OnRing \ {n})) = 0
            BY <4>2, FS_EmptySet
      <4>4. /\ Cardinality(Ahead(k, m, OnRing)) <= Cardinality(Ahead(k, m, OnRing \ {n})) + 1
            /\ Cardinality(Ahead(k, m, OnRing)) \in Nat
            BY AheadCounts
      <4>5. Holds(k, m)' /\ Near(k, m, OnRing \ {n})'
            BY <2>1, <3>2, <4>3, <4>4 DEF Near, Ahead, Nearer
      <4>6. CASE n \in Ahead(k, m, OnRing)
        <5>1. \A x \in OnRing \ {n} : <<x, n>> \notin Nearer[k]
          <6>1. <<n, m>> \in Nearer[k] /\ n # m /\ n \in OnRing
                BY <4>6 DEF Ahead
          <6>2. ASSUME NEW x \in OnRing \ {n}, <<x, n>> \in Nearer[k]
                PROVE  FALSE
            <7>1. x = m \/ <<m, x>> \in Nearer[k]
                  BY <4>2, <6>2
            <7>2. /\ KeyHash[k] \in Nat /\ Met(k, m) \in Nat /\ Met(k, n) \in Nat /\ Met(k, x) \in Nat
                  /\ Before(KeyHash[k], Met(k, n), Met(k, m))
                  /\ Before(KeyHash[k], Met(k, x), Met(k, n))
                  /\ x = m \/ Before(KeyHash[k], Met(k, m), Met(k, x))
                  BY <6>1, <6>2, <7>1, NearerIsMetBefore
            <7> QED BY <7>2, WalkOrdersPositions
          <6> QED BY <6>2
        <5>2. Ahead(k, n, OnRing) = {}
              BY <5>1 DEF Ahead
        <5>3. Cardinality(Ahead(k, n, OnRing)) = 0
              BY <5>2, FS_EmptySet
        <5>4. n \in OnRing
              BY <4>6 DEF Ahead
        <5>5. Holds(k, n)'
              BY <3>2, <5>3, <5>4
        <5> QED BY <2>1, <4>5, <5>5 DEF CopyOutlives
      <4>7. CASE n \notin Ahead(k, m, OnRing)
        <5>1. Ahead(k, m, OnRing) = Ahead(k, m, OnRing \ {n})
              BY <4>7 DEF Ahead
        <5>2. Near(k, m, OnRing)'
          <6>1. Cardinality(Ahead(k, m, OnRing)) = 0
                BY <4>3, <5>1
          <6> QED BY <2>1, <6>1 DEF Near, Ahead, Nearer
        <5> QED BY <2>1, <4>5, <5>2 DEF CopyOutlives
      <4> QED BY <4>6, <4>7
    <3> QED BY <2>1, <3>3, <3>4 DEF CopyKept
  <2> QED BY <2>3, <2>4
<1>3. ASSUME NEW j \in Key, Delete(j)
      PROVE  CopyKept(k)'
  <2>1. /\ shard_data' = [n \in Node |->
             IF n \in Chain(j) THEN [shard_data[n] EXCEPT ![j] = NoValue] ELSE shard_data[n]]
        /\ last' = [last EXCEPT ![j] = NoValue]
        /\ UNCHANGED <<OnRing, Leaving, queue, running, spent>>
        BY <1>3 DEF Delete, placement, tasks, OnRing, Leaving
  <2>2. j # k
        BY <2>1 DEF TypeOK
  <2>3. \A n \in Node : Holds(k, n) => Holds(k, n)'
        BY <2>1, <2>2 DEF Holds, TypeOK
  <2> QED BY <1>1, <2>1, <2>2, <2>3 DEF TypeOK
<1>4. ASSUME NEW n \in Node, FailNode(n) \/ FinalizeAtDeadline(n)
      PROVE  FALSE
      BY <1>4 DEF FailNode, FinalizeAtDeadline, Spend, Orderly, TypeOK, Bounded
<1>5. CASE Restart
  <2>1. FALSE
        BY <1>5 DEF Restart, Spend, Orderly, TypeOK, Bounded
  <2> QED BY <2>1
<1>6. ASSUME NEW n \in Node, AddNode(n)
      PROVE  CopyKept(k)'
  <2>1. /\ n \notin nodes /\ n \notin Leaving
        /\ last' = last /\ UNCHANGED <<Leaving, shard_data, running>>
        BY <1>6 DEF AddNode, data, history, Leaving, DrainingIsAttended
  <2>0. PICK joined \in SUBSET {n} : OnRing' = OnRing \union joined
    <3>1. UNCHANGED halfway /\ nodes' = nodes \union {n} /\ n \notin halfway
          BY <1>6, <2>1 DEF AddNode, TypeOK
    <3>2. OnRing' = OnRing \union ({n} \intersect Placeable)
          BY <3>1 DEF OnRing, Placeable
    <3> QED BY <3>2
  <2>2. spent'["joins"] = spent["joins"] + 1
        BY <1>6 DEF AddNode, Spend, TypeOK, Bounded
  <2>3. ASSUME NEW m \in Node, NEW S \in SUBSET Node, Near(k, m, S)
        PROVE  Near(k, m, S \union joined)'
    <3>1. /\ Cardinality(Ahead(k, m, S \union joined)) <= Cardinality(Ahead(k, m, S)) + 1
          /\ Cardinality(Ahead(k, m, S \union joined)) \in Nat
          /\ Cardinality(Ahead(k, m, S)) \in Nat
      <4>1. CASE joined = {}
        <5>1. S \union joined = S
              BY <4>1
        <5>2. Cardinality(Ahead(k, m, S)) \in Nat
              BY AheadCounts
        <5>3. Ahead(k, m, S \union joined) = Ahead(k, m, S)
              BY <5>1
        <5> HIDE DEF Ahead
        <5> QED BY <5>2, <5>3
      <4>2. CASE joined = {n}
        <5>1. /\ Cardinality(Ahead(k, m, S \union {n})) <= Cardinality(Ahead(k, m, S)) + 1
              /\ Cardinality(Ahead(k, m, S \union {n})) \in Nat
              /\ Cardinality(Ahead(k, m, S)) \in Nat
              BY AheadCounts
        <5> QED BY <4>2, <5>1
      <4> QED BY <4>1, <4>2
    <3>2. Ahead(k, m, S \union joined)' = Ahead(k, m, S \union joined)
          BY DEF Ahead, Nearer
    <3> QED BY <2>2, <2>3, <3>1, <3>2 DEF Near
  <2>4. last[k] # NoValue
        BY <2>1
  <2>5. CASE Leaving = {}
    <3>1. CopyStays(k)
          BY <2>4, <2>5 DEF CopiesKept, CopyKept
    <3>2. PICK m \in OnRing : Holds(k, m) /\ Near(k, m, OnRing)
          BY <3>1 DEF CopyStays
    <3>3. Holds(k, m)' /\ Near(k, m, OnRing \union joined)'
          BY <2>0, <2>1, <2>3, <3>2 DEF Holds
    <3> QED BY <2>0, <2>1, <2>5, <3>3 DEF CopyKept, CopyStays
  <2>6. ASSUME NEW d \in Leaving
        PROVE  CopyOutlives(k, d)' \/ CopyMoves(k, d)'
    <3>1. (OnRing \union joined) \ {d} = (OnRing \ {d}) \union joined
          BY <2>1
    <3>2. CopyOutlives(k, d) \/ CopyMoves(k, d)
          BY <2>4 DEF CopiesKept, CopyKept
    <3>3. CASE CopyOutlives(k, d)
      <4>1. PICK m \in OnRing \ {d} : /\ Holds(k, m) /\ Near(k, m, OnRing \ {d})
                                      /\ Near(k, m, OnRing) \/ Holds(k, d)
            BY <3>3 DEF CopyOutlives
      <4>2. /\ Holds(k, m)' /\ Near(k, m, (OnRing \ {d}) \union joined)'
            /\ Near(k, m, OnRing \union joined)' \/ Holds(k, d)'
            BY <2>0, <2>1, <2>3, <4>1 DEF Holds
      <4>3. m \in (OnRing \union joined) \ {d}
            BY <4>1
      <4> HIDE DEF Near, Holds
      <4> QED BY <2>0, <2>1, <3>1, <4>2, <4>3 DEF CopyOutlives
    <3>4. CASE CopyMoves(k, d)
      <4>1. Holds(k, d)' /\ Near(k, d, OnRing \union joined)'
            BY <2>0, <2>1, <2>3, <3>4 DEF CopyMoves, Holds
      <4>2. Carried(k, d)
            BY <3>4 DEF CopyMoves
      <4>3. CASE \E i \in DOMAIN queue : queue[i] = DrainOf(d)
        <5> DEFINE sources == SourcesFor(Ring(OnRing), n, Vnodes[n])
                   plans   == [i \in DOMAIN sources |-> MigrationOf(sources[i], n)]
        <5>1. plans \in Seq(Task)
          <6>1. sources \in Seq(Node)
                BY SourcesAreNodes
          <6> HIDE DEF sources
          <6>2. Len(sources) \in Nat /\ DOMAIN sources = 1 .. Len(sources)
                BY <6>1, LenProperties
          <6>3. \A i \in 1 .. Len(sources) : MigrationOf(sources[i], n) \in Task
                BY <6>1, <6>2, ElementOfSeq DEF MigrationOf, Task
          <6> QED BY <6>2, <6>3, IsASeq
        <5>2. queue' = queue \o plans
              BY <1>6 DEF AddNode
        <5> HIDE DEF plans
        <5>3. PICK i \in DOMAIN queue : queue[i] = DrainOf(d)
              BY <4>3
        <5>4. i \in DOMAIN queue' /\ queue'[i] = queue[i]
              BY <5>1, <5>2, <5>3, ConcatProperties, LenProperties DEF TypeOK
        <5>5. Carried(k, d)'
              BY <5>3, <5>4 DEF Carried, DrainOf
        <5> QED BY <2>0, <2>1, <4>1, <5>5 DEF CopyMoves
      <4>4. CASE \E s \in Slot : \E i \in running[s].todo :
                   /\ i.key = k
                   /\ i.target \in OnRing \ {d}
                   /\ Near(k, i.target, OnRing \ {d})
        <5>0. PICK s \in Slot : \E i \in running[s].todo :
               /\ i.key = k
               /\ i.target \in OnRing \ {d}
               /\ Near(k, i.target, OnRing \ {d})
              BY <4>4
        <5>1. PICK i \in running[s].todo :
               /\ i.key = k
               /\ i.target \in OnRing \ {d}
               /\ Near(k, i.target, OnRing \ {d})
              BY <5>0
        <5>2. Near(k, i.target, (OnRing \ {d}) \union joined)'
          <6>1. (OnRing' \ {d}) \union joined = (OnRing \ {d}) \union joined
                BY <2>0, <2>1, <3>1
          <6>2. i.target \in Node /\ OnRing \ {d} \in SUBSET Node
                BY <5>1
          <6> QED BY <2>3, <5>1, <6>1, <6>2
        <5>3. i \in running'[s].todo /\ i.target \in (OnRing \ {d}) \union joined
              BY <2>1, <5>1
        <5> HIDE DEF Near
        <5>4. Carried(k, d)'
              BY <2>0, <2>1, <3>1, <5>1, <5>2, <5>3 DEF Carried
        <5> QED BY <2>0, <2>1, <4>1, <5>4 DEF CopyMoves
      <4> QED BY <4>2, <4>3, <4>4 DEF Carried
    <3> QED BY <3>2, <3>3, <3>4
  <2> QED BY <2>1, <2>5, <2>6 DEF CopyKept
<1>7. ASSUME NEW n \in Node, RemoveNode(n)
      PROVE  CopyKept(k)'
  <2>1. /\ OnRing' = OnRing /\ Leaving' = Leaving \union {n}
        /\ finalizers' = [finalizers EXCEPT ![n] = @ + 1]
        /\ last' = last /\ UNCHANGED <<shard_data, running>>
        /\ queue' = IF DrainActive(n) THEN queue ELSE Append(queue, DrainOf(n))
        BY <1>7 DEF RemoveNode, ScheduleFinalizer, data, history, OnRing, Leaving
  <2>2. spent'["joins"] = spent["joins"]
        BY <1>7 DEF RemoveNode, Spend, TypeOK, Bounded
  <2>3. n \notin Leaving
    <3>1. finalizers'[n] <= 1
          BY DEF Orderly
    <3>2. finalizers[n] = 0
          BY <2>1, <3>1 DEF TypeOK
    <3> QED BY <3>2 DEF DrainingIsAttended, Leaving
  <2>4. Leaving = {}
        BY <2>1, <2>3 DEF Orderly
  <2>5. \A m \in Node, S \in SUBSET Node : Near(k, m, S)' <=> Near(k, m, S)
        BY <2>2 DEF Near, Ahead, Nearer
  <2>6. PICK m \in OnRing : Holds(k, m) /\ Near(k, m, OnRing)
        BY <2>1, <2>4 DEF CopiesKept, CopyKept, CopyStays
  <2>7. CASE m = n
    <3>1. ~DrainActive(n)
          BY <2>3, <2>4 DEF DrainActive, DrainsInOrder, DrainOf
    <3>2. queue' = Append(queue, DrainOf(n))
          BY <2>1, <3>1
    <3>3. Len(queue) + 1 \in DOMAIN queue' /\ queue'[Len(queue) + 1] = DrainOf(n)
      <4>1. DrainOf(n) \in Task
            BY DEF DrainOf, Task
      <4> QED BY <3>2, <4>1, AppendProperties, LenProperties DEF TypeOK
    <3>4. Carried(k, n)'
          BY <3>3 DEF Carried, DrainOf
    <3>5. CopyMoves(k, n)'
          BY <2>1, <2>5, <2>6, <2>7, <3>4 DEF CopyMoves, Holds
    <3> QED BY <2>1, <2>4, <3>5 DEF CopyKept
  <2>8. CASE m # n
    <3>1. Near(k, m, OnRing \ {n})
      <4>1. /\ Cardinality(Ahead(k, m, OnRing \ {n})) <= Cardinality(Ahead(k, m, OnRing))
            /\ Cardinality(Ahead(k, m, OnRing \ {n})) \in Nat
            /\ Cardinality(Ahead(k, m, OnRing)) \in Nat
            BY AheadCounts
      <4> QED BY <2>6, <4>1 DEF Near
    <3>2. CopyOutlives(k, n)'
          BY <2>1, <2>5, <2>6, <2>8, <3>1 DEF CopyOutlives, Holds
    <3> QED BY <2>1, <2>4, <3>2 DEF CopyKept
  <2> QED BY <2>7, <2>8
<1>8. ASSUME NEW n \in Node, FinalizeRemoval(n)
      PROVE  CopyKept(k)'
  <2>1. /\ finalizers[n] > 0 /\ last' = last /\ spent' = spent
        BY <1>8 DEF FinalizeRemoval, EndRemoval, FinishRemoval, FinishRemovalFails, LeaveRing,
                    FinalizerWaiting, history
  <2>8. \A m \in Node \ {n} : shard_data'[m] = shard_data[m]
        BY <1>8 DEF FinalizeRemoval, EndRemoval, FinishRemoval, FinishRemovalFails, data, TypeOK
  <2>9. OnRing' = OnRing \ {n} /\ Leaving' = Leaving \ {n}
    <3>1. /\ nodes' = nodes \ {n}
          /\ IF n \in halfway THEN halfway' = halfway \ {n} ELSE halfway' = halfway
          BY <1>8 DEF FinalizeRemoval, EndRemoval, FinishRemoval, FinishRemovalFails, LeaveRing
    <3>2. OnRing' = OnRing \ {n}
          BY <3>1 DEF OnRing, Placeable
    <3>3. Leaving' = Leaving \ {n}
          BY <1>8 DEF FinalizeRemoval, EndRemoval, FinishRemoval, FinishRemovalFails, Leaving
    <3> QED BY <3>2, <3>3
  <2>2. queue = <<>> /\ \A s \in Slot : running[s] = Idle
        BY <1>8 DEF FinalizeRemoval, NoActiveMigration
  <2>3. Leaving = {n}
        BY <2>1 DEF DrainsInOrder, Orderly
  <2>4. ~Carried(k, n)
        BY <2>2 DEF Carried, Idle
  <2>5. CopyOutlives(k, n)
        BY <2>1, <2>3, <2>4 DEF CopiesKept, CopyKept, CopyMoves
  <2>6. PICK m \in OnRing \ {n} : Holds(k, m) /\ Near(k, m, OnRing \ {n})
        BY <2>5 DEF CopyOutlives
  <2>7. Holds(k, m)' /\ Near(k, m, OnRing \ {n})'
    <3>1. Holds(k, m)'
          BY <2>6, <2>8 DEF Holds
    <3>2. (OnRing \ {n})' = OnRing \ {n}
          BY <2>9
    <3> QED BY <2>1, <2>6, <3>1, <3>2 DEF Near, Ahead, Nearer
  <2> QED BY <2>3, <2>7, <2>9 DEF CopyKept, CopyStays
<1>9. ASSUME NEW s \in Slot, StartTask(s)
      PROVE  CopyKept(k)'
  <2>1. PICK task \in Task : task = Head(queue)
        BY <1>9, HeadTailProperties DEF StartTask, TypeOK
  <2>2. /\ UNCHANGED <<OnRing, Leaving, last, spent>> /\ queue # <<>> /\ running[s] = Idle
        /\ queue' = Tail(queue)
        BY <1>9 DEF StartTask, placement, history, OnRing, Leaving
  <2>3. PICK todo \in Snapshots(task) :
          \/ todo = {} /\ UNCHANGED <<running, shard_data>>
          \/ CopyNext(s, task, todo)
        BY <1>9, <2>1 DEF StartTask
  <2>4. todo \in SUBSET CopyItem /\ \A i \in todo : i.value # NoValue
        BY SnapshotItems
  <2>5. /\ \A n \in Node : Holds(k, n) => Holds(k, n)'
        /\ \A i \in todo : \/ i \in running'[s].todo
                           \/ shard_data'[i.target][i.key] # NoValue
        /\ \A r \in Slot \ {s} : running'[r] = running[r]
        BY <2>3, <2>4, CopyKeeps DEF Holds
  <2>6. ASSUME NEW n \in Leaving, CopyMoves(k, n)
        PROVE  Carried(k, n)' \/ CopyOutlives(k, n)'
    <3>1. Carried(k, n) /\ Holds(k, n) /\ n \in Node /\ Leaving = {n} /\ OnRing \ {n} # {}
          BY <2>6 DEF CopyMoves, Orderly
    <3>2. \A m \in Node, S \in SUBSET Node : Near(k, m, S)' <=> Near(k, m, S)
          BY <2>2 DEF Near, Ahead, Nearer
    <3>3. CASE task = DrainOf(n)
      <4>1. PICK i \in todo : /\ i.key = k
                              /\ i.target \in OnRing \ {n}
                              /\ Ahead(k, i.target, OnRing \ {n}) = {}
        <5>1. online \intersect Leaving = {}
              BY DEF DrainingIsAttended, Leaving
        <5>2. todo \in Snapshots(DrainOf(n))
              BY <3>3
        <5> QED BY <3>1, <5>1, <5>2, DrainTakesKey
      <4>2. Cardinality(Ahead(k, i.target, OnRing \ {n})) = 0
            BY <4>1, FS_EmptySet
      <4>3. Near(k, i.target, OnRing \ {n}) /\ i.target \in Node
            BY <4>1, <4>2 DEF Near
      <4>4. CASE i \in running'[s].todo
            BY <2>2, <3>2, <4>1, <4>3, <4>4 DEF Carried
      <4>5. CASE shard_data'[i.target][i.key] # NoValue
            BY <2>2, <2>5, <3>1, <3>2, <4>1, <4>3, <4>5 DEF CopyOutlives, Holds
      <4> QED BY <2>5, <4>4, <4>5
    <3>4. CASE task # DrainOf(n) /\ \E i \in DOMAIN queue : queue[i] = DrainOf(n)
      <4>1. PICK i \in DOMAIN queue : queue[i] = DrainOf(n)
            BY <3>4
      <4>2. i \in Nat /\ i > 1 /\ i - 1 \in DOMAIN queue' /\ queue'[i - 1] = queue[i]
            BY <2>1, <2>2, <3>4, <4>1, HeadTailProperties, LenProperties DEF TypeOK
      <4> QED BY <4>1, <4>2 DEF Carried, DrainOf
    <3>5. CASE \E r \in Slot : \E i \in running[r].todo :
                 /\ i.key = k
                 /\ i.target \in OnRing \ {n}
                 /\ Near(k, i.target, OnRing \ {n})
      <4>0. PICK r \in Slot : \E i \in running[r].todo :
             /\ i.key = k
             /\ i.target \in OnRing \ {n}
             /\ Near(k, i.target, OnRing \ {n})
            BY <3>5
      <4>1. PICK i \in running[r].todo :
             /\ i.key = k
             /\ i.target \in OnRing \ {n}
             /\ Near(k, i.target, OnRing \ {n})
            BY <4>0
      <4>2. r # s
            BY <2>2, <4>1 DEF Idle
      <4>3. i \in running'[r].todo /\ i.target \in Node
            BY <2>5, <4>1, <4>2
      <4> QED BY <2>2, <3>2, <4>1, <4>3 DEF Carried
    <3> QED BY <3>1, <3>3, <3>4, <3>5 DEF Carried
  <2> QED BY <2>2, <2>5, <2>6, CopyKeptFrame DEF CopiesKept
<1>10. ASSUME NEW s \in Slot, CopyBatch(s)
       PROVE  CopyKept(k)'
  <2>1. running[s].todo \in SUBSET CopyItem /\ \A i \in running[s].todo : i.value # NoValue
        BY <1>10 DEF CopyBatch, TypeOK, RunningTask, DrainsInOrder
  <2>2. UNCHANGED <<OnRing, Leaving, queue, last, spent>>
        BY <1>10 DEF CopyBatch, placement, history, OnRing, Leaving
  <2>3. /\ \A n \in Node : Holds(k, n) => Holds(k, n)'
        /\ \A i \in running[s].todo : \/ i \in running'[s].todo
                                      \/ shard_data'[i.target][i.key] # NoValue
        /\ \A r \in Slot \ {s} : running'[r] = running[r]
        BY <1>10, <2>1, CopyKeeps DEF CopyBatch, Holds
  <2>4. ASSUME NEW n \in Leaving, CopyMoves(k, n)
        PROVE  Carried(k, n)' \/ CopyOutlives(k, n)'
    <3>1. Carried(k, n) /\ Holds(k, n) /\ n \in Node
          BY <2>4 DEF CopyMoves
    <3>2. \A m \in Node, S \in SUBSET Node : Near(k, m, S)' <=> Near(k, m, S)
          BY <2>2 DEF Near, Ahead, Nearer
    <3>3. CASE \E i \in DOMAIN queue : queue[i] = DrainOf(n)
          BY <2>2, <3>3 DEF Carried, DrainOf
    <3>4. CASE \E r \in Slot : \E i \in running[r].todo :
                 /\ i.key = k
                 /\ i.target \in OnRing \ {n}
                 /\ Near(k, i.target, OnRing \ {n})
      <4>0. PICK r \in Slot : \E i \in running[r].todo :
             /\ i.key = k
             /\ i.target \in OnRing \ {n}
             /\ Near(k, i.target, OnRing \ {n})
            BY <3>4
      <4>1. PICK i \in running[r].todo :
             /\ i.key = k
             /\ i.target \in OnRing \ {n}
             /\ Near(k, i.target, OnRing \ {n})
            BY <4>0
      <4>2. CASE i \in running'[r].todo
            BY <2>2, <3>2, <4>1, <4>2 DEF Carried
      <4>3. CASE shard_data'[i.target][i.key] # NoValue
            BY <2>2, <2>3, <3>1, <3>2, <4>1, <4>3 DEF CopyOutlives, Holds
      <4> QED BY <2>3, <4>1, <4>2, <4>3
    <3> QED BY <3>1, <3>3, <3>4 DEF Carried
  <2> QED BY <2>2, <2>3, <2>4, CopyKeptFrame DEF CopiesKept
<1>11. ASSUME NEW s \in Slot, EndTask(s)
       PROVE  CopyKept(k)'
  <2>1. /\ UNCHANGED <<OnRing, Leaving, queue, last, spent, shard_data>>
        /\ running[s].todo = {} /\ \A r \in Slot \ {s} : running'[r] = running[r]
        BY <1>11 DEF EndTask, placement, history, data, TypeOK, OnRing, Leaving
  <2>2. \A n \in Leaving : Carried(k, n) => Carried(k, n)'
        BY <2>1 DEF Carried, Near, Ahead, Nearer
  <2>3. \A n \in Node : Holds(k, n) => Holds(k, n)'
        BY <2>1 DEF Holds
  <2> QED BY <2>1, <2>2, <2>3, CopyKeptFrame DEF CopiesKept, CopyMoves
<1>12. ASSUME NEW m \in Node, NEW n \in Node, Rebalance(m, n)
       PROVE  CopyKept(k)'
  <2>1. /\ UNCHANGED <<OnRing, Leaving, running, last, shard_data>>
        /\ queue' = Append(queue, MigrationOf(m, n))
        BY <1>12 DEF Rebalance, placement, history, data, OnRing, Leaving
  <2>2. spent'["joins"] = spent["joins"]
        BY <1>12 DEF Rebalance, Spend, TypeOK, Bounded
  <2>3. ASSUME NEW i \in DOMAIN queue
        PROVE  i \in DOMAIN queue' /\ queue'[i] = queue[i]
    <3>1. MigrationOf(m, n) \in Task
          BY DEF MigrationOf, Task
    <3> QED BY <2>1, <3>1, AppendProperties, LenProperties DEF TypeOK
  <2>4. \A d \in Leaving : Carried(k, d) => Carried(k, d)'
        BY <2>1, <2>2, <2>3 DEF Carried, DrainOf, Near, Ahead, Nearer
  <2>5. \A d \in Node : Holds(k, d) => Holds(k, d)'
        BY <2>1 DEF Holds
  <2> QED BY <2>1, <2>2, <2>4, <2>5, CopyKeptFrame DEF CopiesKept, CopyMoves
<1>13. ASSUME UNCHANGED vars \/ \E j \in Key : EvictCached(j)
       PROVE  CopyKept(k)'
  <2>1. UNCHANGED <<OnRing, Leaving, queue, running, spent, last, shard_data>>
        BY <1>13 DEF vars, EvictCached, placement, data, tasks, history, OnRing, Leaving
  <2> QED BY <1>1, <2>1 DEF Holds
<1>14. ASSUME NEW n \in Node, AddNodeHalfway(n)
       PROVE  CopyKept(k)'
  <2>1. UNCHANGED <<Leaving, queue, running, last, shard_data>>
        BY <1>14 DEF AddNodeHalfway, data, tasks, history, Leaving
  <2>2. OnRing' = OnRing
        BY <1>14 DEF AddNodeHalfway, OnRing, Placeable
  <2>3. spent'["joins"] = spent["joins"]
        BY <1>14 DEF AddNodeHalfway, Spend, TypeOK, Bounded
  <2> QED BY <1>1, <2>1, <2>2, <2>3 DEF Holds
<1> QED BY <1>2, <1>3, <1>4, <1>5, <1>6, <1>7, <1>8, <1>9, <1>10, <1>11, <1>12, <1>13,
        <1>14
        DEF Next, ClientStep, MembershipStep, BackgroundStep

(* A key stored and not deleted can be read at any moment, without the      *)
(* local cache, in every orderly run: through drains, rebalances and fewer  *)
(* joins than replicas (tests/integration_test.py:195, 208;                 *)
(* manager.py:134-265).                                                     *)
THEOREM StoredReads ==
  ASSUME ReplicationFactor >= 2
  PROVE  Spec /\ []Orderly => []StoredIsReadable
<1>1. Init => DrainsInOrder /\ CopiesKept
      BY DEF Init, DrainsInOrder, CopiesKept, Idle, Leaving
<1>2. TypeOK /\ DrainingIsAttended /\ DrainsInOrder /\ CopiesKept /\ Orderly => StoredIsReadable
  <2> SUFFICES ASSUME TypeOK, DrainingIsAttended, DrainsInOrder, CopiesKept, Orderly,
                      NEW k \in Key, last[k] # NoValue
               PROVE  NoValue \notin ReadResults(k)
      BY DEF StoredIsReadable
  <2> DEFINE holders == {n \in Served(k) : shard_data[n][k] # NoValue}
             leaving == {n \in draining : shard_data[n][k] # NoValue}
  <2>1. Served(k) = {m \in OnRing : Cardinality(Ahead(k, m, OnRing)) < ReplicationFactor}
    <3>1. OnRing \in SUBSET Placeable /\ OnRing \subseteq nodes
          BY OnRingNodes
    <3>2. Served(k) = Chain(k)
          BY <3>1, ReplicasAreMembers DEF Served, Chain, DrainsInOrder, Leaving
    <3> QED BY <3>1, <3>2, ChainIsNearest DEF Chain
  <2>2. \A m \in OnRing : Near(k, m, OnRing) => m \in Served(k)
    <3>1. \A m \in OnRing : Cardinality(Ahead(k, m, OnRing)) \in Nat
          BY OnRingNodes, AheadCounts DEF Placeable
    <3> QED BY <2>1, <3>1, ManagerAssumption DEF Near, Orderly, TypeOK, Bounded
  <2>3. holders # {} \/ leaving # {}
    <3>1. CopyKept(k)
          BY DEF CopiesKept
    <3>2. CASE Leaving = {}
          BY <2>2, <3>1, <3>2 DEF CopyKept, CopyStays, Holds
    <3>3. ASSUME NEW n \in Leaving
          PROVE  holders # {} \/ leaving # {}
          BY <2>2, <3>1 DEF CopyKept, CopyOutlives, CopyMoves, Holds, Leaving
    <3> QED BY <3>2, <3>3
  <2> QED BY <2>3 DEF ReadResults, First
<1> QED BY <1>1, <1>2, ManagerTypes, DrainingAttended, DrainsInductive, CopiesInductive, PTL DEF Spec
=============================================================================
