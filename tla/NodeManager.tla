---------------------------- MODULE NodeManager ----------------------------
(***************************************************************************)
(* NodeManager of dcache/node_manager/manager.py: the shards of every      *)
(* cache node, held in one process, the local cache behind them, and the   *)
(* handlers and background tasks that move data when nodes join, leave or  *)
(* fail.                                                                   *)
(*                                                                         *)
(* The process is one asyncio event loop and every lock of the manager     *)
(* guards a body that does not suspend, so a handler runs from start to    *)
(* end as one step.  A migration suspends in sleep(0) after each batch it  *)
(* copies from a snapshot taken at its start (manager.py:216, 486); the    *)
(* coroutine that finishes a removal polls until no migration is active    *)
(* (manager.py:249-265).  Those are the interleavings.                     *)
(*                                                                         *)
(* A value is the number of the PUT that wrote it.  Positions on the ring  *)
(* do not collide here; HashRing is about collisions.  A node of weight 0  *)
(* has no position, and neither has one whose weight is no whole number:   *)
(* its join fails halfway, with the node in _nodes and online.             *)
(***************************************************************************)
EXTENDS RingOps

CONSTANTS
  Node,                  \* cache node ids
  Key,                   \* cache keys
  Vnodes,                \* Vnodes[n]: the ring positions of node n, a sequence
  KeyHash,               \* KeyHash[k]: the hash of key k
  ReplicationFactor,     \* replication_factor
  MigrationConcurrency,  \* permits of _migration_semaphore
  BatchSize,             \* items copied between two suspensions, 100 in the code
  InitialNodes,          \* members when the run starts
  MaxVersion,            \* bound on the PUTs of one key
  MaxJoins,              \* bound on add_node calls that succeed
  MaxHalfway,            \* bound on those that fail halfway
  MaxRemovals,           \* bound on remove_node calls
  MaxDraining,           \* bound on nodes draining at the same time
  MaxFailures,           \* bound on heartbeat timeouts
  MaxRestarts,           \* bound on restarts of the process
  MaxDeadlines,          \* bound on removals that outlast their 120 s deadline
  MaxRebalances          \* bound on plans of the rebalance loop

NoValue == 0
Value == 0 .. MaxVersion
Slot == 1 .. MigrationConcurrency

PositionsIn(S) == UNION {{Vnodes[n][i] : i \in DOMAIN Vnodes[n]} : n \in S}

ASSUME ManagerAssumption ==
  /\ ReplicationFactor \in Nat \ {0}
  /\ MigrationConcurrency \in Nat \ {0}
  /\ BatchSize \in Nat \ {0}
  /\ MaxVersion \in Nat
  /\ InitialNodes \subseteq Node

ASSUME PlacementAssumption ==
  /\ IsFiniteSet(Node)
  /\ \A n \in Node : Vnodes[n] \in Seq(Nat)
  /\ \A m, n \in Node : m # n => PositionsIn({m}) \intersect PositionsIn({n}) = {}
  /\ KeyHash \in [Key -> Nat]

VARIABLES
  nodes,        \* members of _ring._nodes
  online,       \* those with is_online
  halfway,      \* those with a bad weight and no entry in _node_vnodes
  draining,     \* _draining_nodes
  shard_data,   \* _shard_data, NoValue where a shard lacks the key
  local_cache,  \* _fault.local_cache
  queue,        \* _active_migrations that wait for the semaphore, in order
  running,      \* those that hold it: what is left of their snapshots
  finalizers,   \* how many _finalize_removal coroutines wait, per node
  topology,     \* members, online ones and bad weights as last persisted
  written,      \* ghost: how many PUTs of each key
  last,         \* ghost: the value a GET should return
  exposed,      \* ghost: keys written while an old copy was out of reach
  unfinished,   \* ghost: nodes whose last finalizer ended with an error
  spent         \* how much of each bound is used up

placement == <<nodes, online, halfway, draining, finalizers, topology, unfinished>>
data      == <<shard_data, local_cache>>
tasks     == <<queue, running>>
history   == <<written, last, exposed>>
vars      == <<placement, data, tasks, history, spent>>

Bounded ==
  {"joins", "halfway", "removals", "failures", "restarts", "deadlines", "rebalances"}

Idle == [kind |-> "idle", todo |-> {}]

DrainOf(n)        == [kind |-> "drain", source |-> n, target |-> n]
MigrationOf(s, t) == [kind |-> "migrate", source |-> s, target |-> t]

Init ==
  /\ nodes = InitialNodes
  /\ online = InitialNodes
  /\ halfway = {} /\ unfinished = {}
  /\ draining = {}
  /\ shard_data = [n \in Node |-> [k \in Key |-> NoValue]]
  /\ local_cache = [k \in Key |-> NoValue]
  /\ queue = <<>>
  /\ running = [s \in Slot |-> Idle]
  /\ finalizers = [n \in Node |-> 0]
  /\ topology = [members |-> InitialNodes, up |-> InitialNodes, halfway |-> {}]
  /\ written = [k \in Key |-> 0]
  /\ last = [k \in Key |-> NoValue]
  /\ exposed = {}
  /\ spent = [what \in Bounded |-> 0]

-----------------------------------------------------------------------------
(* The ring as the other methods see it.                                    *)

Placeable == {n \in Node : Vnodes[n] # <<>>}

\* The members that have positions.
OnRing == (nodes \ halfway) \intersect Placeable

Ring(S) == [p \in PositionsIn(S) |-> CHOOSE n \in S : p \in PositionsIn({n})]

\* get_nodes_for_key, for each set of nodes with positions.
Replicas ==
  [S \in SUBSET Placeable |-> [k \in Key |-> ReplicasOf(Ring(S), KeyHash[k], ReplicationFactor)]]

Chain(k) == Replicas[OnRing][k]

\* Which of two nodes comes first on the walk from the key's hash.
Nearer ==
  [k \in Key |->
     {e \in Placeable \X Placeable : Closer(Ring(Placeable), KeyHash[k], e[1], e[2])}]

\* The one node of S that comes first; none when S is empty.
First(k, S) == {n \in S : \A m \in S \ {n} : <<n, m>> \in Nearer[k]}

Owner(k) == First(k, OnRing)                  \* get_node

\* read_key and write_key pass over a node that is offline and not draining.
Served(k) == {n \in Chain(k) : n \in online \union draining}

-----------------------------------------------------------------------------
(* read_key changes nothing here; the values it may return:                 *)
ReadResults(k) ==
  LET holders == {n \in Served(k) : shard_data[n][k] # NoValue}
      leaving == {n \in draining : shard_data[n][k] # NoValue}
  IN  IF holders # {} THEN {shard_data[n][k] : n \in First(k, holders)}
      ELSE IF leaving # {} THEN {shard_data[n][k] : n \in leaving}
      ELSE {local_cache[k]}

\* An old copy the step does not reach: in a snapshot or on another node.
OutOfReach(k, reached) ==
  \/ \E s \in Slot : \E i \in running[s].todo : i.key = k
  \/ \E n \in Node \ reached : shard_data[n][k] # NoValue

(* handle_put and write_key: with no position on the ring the answer is 503;*)
(* with no replica served the value goes to the offline owner, and the      *)
(* client is told it was stored.                                            *)
Put(k) ==
  /\ OnRing # {}
  /\ written[k] < MaxVersion
  /\ LET v       == written[k] + 1
         reached == IF Served(k) # {} THEN Served(k) ELSE Owner(k)
     IN  /\ shard_data' = [n \in Node |->
              IF n \in reached THEN [shard_data[n] EXCEPT ![k] = v] ELSE shard_data[n]]
         /\ local_cache' = [local_cache EXCEPT ![k] = v]
         /\ written' = [written EXCEPT ![k] = v]
         /\ last' = [last EXCEPT ![k] = v]
         /\ exposed' = IF OutOfReach(k, reached) THEN exposed \union {k} ELSE exposed
  /\ UNCHANGED <<placement, tasks, spent>>

\* A plausible slip: the local cache keeps the deleted value.
DeleteKeepingCache(k) ==
  /\ OnRing # {}
  /\ shard_data' = [n \in Node |->
       IF n \in Chain(k) THEN [shard_data[n] EXCEPT ![k] = NoValue] ELSE shard_data[n]]
  /\ last' = [last EXCEPT ![k] = NoValue]
  /\ exposed' = IF OutOfReach(k, Chain(k)) THEN exposed \union {k} ELSE exposed
  /\ UNCHANGED <<placement, local_cache, tasks, written, spent>>

(* handle_delete and delete_key, which reaches the chain's offline nodes    *)
(* too.                                                                     *)
Delete(k) ==
  /\ OnRing # {}
  /\ shard_data' = [n \in Node |->
       IF n \in Chain(k) THEN [shard_data[n] EXCEPT ![k] = NoValue] ELSE shard_data[n]]
  /\ local_cache' = [local_cache EXCEPT ![k] = NoValue]
  /\ last' = [last EXCEPT ![k] = NoValue]
  /\ exposed' = IF OutOfReach(k, Chain(k)) THEN exposed \union {k} ELSE exposed
  /\ UNCHANGED <<placement, tasks, written, spent>>

\* The local cache drops an entry: its TTL of 300 s, or its size.
EvictCached(k) ==
  /\ local_cache[k] # NoValue
  /\ local_cache' = [local_cache EXCEPT ![k] = NoValue]
  /\ UNCHANGED <<placement, shard_data, tasks, history, spent>>

-----------------------------------------------------------------------------
(* Membership: the handlers behind /cluster/nodes and the heartbeat monitor.*)

Spend(what, bound) ==
  /\ spent[what] < bound
  /\ spent' = [spent EXCEPT ![what] = @ + 1]

PersistTopology == topology' = [members |-> nodes', up |-> online', halfway |-> halfway']

(* add_node: one migration per plan of the ring, each a task of its own     *)
(* (manager.py:95-132, 434-454).                                            *)
AddNode(n) ==
  /\ n \notin nodes                            \* DuplicateNodeError
  /\ Spend("joins", MaxJoins)
  /\ nodes' = nodes \union {n}
  /\ online' = online \union {n}
  /\ LET sources == SourcesFor(Ring(OnRing), n, Vnodes[n])
     IN  queue' = queue \o [i \in DOMAIN sources |-> MigrationOf(sources[i], n)]
  /\ UNCHANGED <<halfway, draining, finalizers, unfinished, data, running, history>>
  /\ PersistTopology

(* ring.add_node raises once the node is in _nodes, and the handler ends    *)
(* there (consistent_hash.py:75-77, manager.py:106).                        *)
AddNodeHalfway(n) ==
  /\ n \notin nodes
  /\ Spend("halfway", MaxHalfway)
  /\ nodes' = nodes \union {n}
  /\ online' = online \union {n}
  /\ halfway' = halfway \union {n}
  /\ UNCHANGED <<draining, finalizers, topology, unfinished, data, tasks, history>>

DrainActive(n) ==
  \/ \E i \in DOMAIN queue : queue[i] = DrainOf(n)
  \/ \E s \in Slot : running[s].kind = "drain" /\ running[s].source = n

\* A plausible slip: the coroutine is defined and never scheduled.
NoFinalizer(n) == UNCHANGED finalizers

ScheduleFinalizer(n) == finalizers' = [finalizers EXCEPT ![n] = @ + 1]

(* remove_node: start the drain, unless one of this node is active, and the *)
(* coroutine that will finish the removal; nothing rejects a second call    *)
(* for a node that is draining already (manager.py:134-175).                *)
RemoveNode(n) ==
  /\ n \in nodes                               \* NodeNotFoundError
  /\ Spend("removals", MaxRemovals)
  /\ Cardinality(draining \union {n}) <= MaxDraining
  /\ draining' = draining \union {n}
  /\ online' = online \ {n}
  /\ queue' = IF DrainActive(n) THEN queue ELSE Append(queue, DrainOf(n))
  /\ ScheduleFinalizer(n)
  /\ unfinished' = unfinished \ {n}
  /\ UNCHANGED <<nodes, halfway, data, running, history>>
  /\ PersistTopology

(* _heartbeat_monitor finds a node silent for 15 s; nothing ever sets it    *)
(* online again (manager.py:546-563).  One that was added again under an    *)
(* entry left in _draining_nodes is passed over.                            *)
FailNode(n) ==
  /\ n \in online \ draining
  /\ Spend("failures", MaxFailures)
  /\ online' = online \ {n}
  /\ UNCHANGED <<nodes, halfway, draining, finalizers, topology, unfinished>>
  /\ UNCHANGED <<data, tasks, history>>

FinalizerWaiting(n) == finalizers[n] > 0

\* ring.remove_node: whatever comes of it, the node is no member any more.
LeaveRing(n) ==
  /\ FinalizerWaiting(n)
  /\ finalizers' = [finalizers EXCEPT ![n] = @ - 1]
  /\ nodes' = nodes \ {n}
  /\ online' = online \ {n}

(* What _finalize_removal does once it stops waiting (manager.py:163-170).  *)
FinishRemoval(n) ==
  /\ n \notin halfway
  /\ LeaveRing(n)
  /\ draining' = draining \ {n}
  /\ shard_data' = [shard_data EXCEPT ![n] = [k \in Key |-> NoValue]]
  /\ unfinished' = unfinished \ {n}
  /\ UNCHANGED <<halfway, local_cache, tasks, history>>
  /\ PersistTopology

(* Without an entry in _node_vnodes ring.remove_node raises at its end, and *)
(* the finalizer with it (consistent_hash.py:162-163, manager.py:172-173).  *)
FinishRemovalFails(n) ==
  /\ n \in halfway
  /\ LeaveRing(n)
  /\ halfway' = halfway \ {n}
  /\ unfinished' = unfinished \union {n}
  /\ UNCHANGED <<draining, topology, data, tasks, history>>

EndRemoval(n) == FinishRemoval(n) \/ FinishRemovalFails(n)

\* A plausible slip: only migrations that have started count as active.
NoRunningMigration == \A s \in Slot : running[s] = Idle

NoActiveMigration == queue = <<>> /\ \A s \in Slot : running[s] = Idle

\* A plausible slip: a removal waits for the drain of its own node only.
FinalizeAfterOwnDrain(n) ==
  /\ ~DrainActive(n)
  /\ EndRemoval(n)
  /\ UNCHANGED spent

FinalizeRemoval(n) ==
  /\ NoActiveMigration
  /\ EndRemoval(n)
  /\ UNCHANGED spent

FinalizeAtDeadline(n) ==
  /\ ~NoActiveMigration
  /\ EndRemoval(n)
  /\ Spend("deadlines", MaxDeadlines)

-----------------------------------------------------------------------------
(* The background tasks.                                                    *)

Item(k, n, target) == [key |-> k, value |-> shard_data[n][k], target |-> target]

HeldBy(n) == {k \in Key : shard_data[n][k] # NoValue}

(* _execute_migration takes those of the source's items that the new node   *)
(* owns now (manager.py:469-476).                                           *)
MigrationItems(task) ==
  {Item(k, task.source, task.target) : k \in {j \in HeldBy(task.source) : task.target \in Owner(j)}}

(* _execute_drain takes all of them, each for the first online node of its  *)
(* chain, or for one fixed online node if the chain has none, be it one     *)
(* without positions; with nobody online they are counted and left behind   *)
(* (manager.py:185-205).                                                    *)
DrainItems(n, fallback) ==
  LET candidates(k) == (Chain(k) \intersect online) \ {n}
      targets(k) == IF candidates(k) # {} THEN First(k, candidates(k)) ELSE fallback
  IN  UNION {{Item(k, n, t) : t \in targets(k)} : k \in HeldBy(n)}

Fallbacks(n) ==
  IF online \ {n} = {} THEN {{}} ELSE {{f} : f \in online \ {n}}

Snapshots(task) ==
  IF task.kind = "drain"
    THEN {DrainItems(task.source, f) : f \in Fallbacks(task.source)}
    ELSE {MigrationItems(task)}

(* One plan of _run_rebalance, which copies like the migrations of a join.  *)
(* Which online node has too much of the hash space and which has too       *)
(* little is HashRing's business; here any two, the first with positions.   *)
Rebalance(s, t) ==
  /\ {s, t} \subseteq online /\ s # t
  /\ s \in OnRing
  /\ Spend("rebalances", MaxRebalances)
  /\ queue' = Append(queue, MigrationOf(s, t))
  /\ UNCHANGED <<placement, data, running, history>>

(* A batch: BatchSize items for one target, or all of them when fewer are   *)
(* left; a target is served to the end before the next one.                 *)
NextTargets(todo, current) ==
  LET targets == {i.target : i \in todo}
  IN  IF current \in targets THEN {current} ELSE targets

Batches(todo, t) ==
  LET due == {i \in todo : i.target = t}
  IN  {batch \in SUBSET due :
         Cardinality(batch) = IF Cardinality(due) < BatchSize THEN Cardinality(due)
                                                              ELSE BatchSize}

Stored(batch) ==
  [n \in Node |-> [k \in Key |->
     IF \E i \in batch : i.target = n /\ i.key = k
       THEN (CHOOSE i \in batch : i.target = n /\ i.key = k).value
       ELSE shard_data[n][k]]]

\* The task in slot s stores its next batch and suspends in sleep(0).
CopyNext(s, task, todo) ==
  \E t \in NextTargets(todo, task.target) : \E batch \in Batches(todo, t) :
    /\ shard_data' = Stored(batch)
    /\ running' = [running EXCEPT ![s] =
         [kind |-> task.kind, source |-> task.source, target |-> t, todo |-> todo \ batch]]

(* A task passes the semaphore, takes its snapshot and runs up to the       *)
(* sleep(0) after its first batch; with nothing to copy, to its end.        *)
StartTask(s) ==
  /\ queue # <<>>
  /\ running[s] = Idle
  /\ \A t \in 1 .. s-1 : running[t] # Idle
  /\ queue' = Tail(queue)
  /\ \E todo \in Snapshots(Head(queue)) :
       \/ todo = {} /\ UNCHANGED <<running, shard_data>>
       \/ CopyNext(s, Head(queue), todo)
  /\ UNCHANGED <<placement, local_cache, history, spent>>

CopyBatch(s) ==
  /\ running[s] # Idle
  /\ CopyNext(s, running[s], running[s].todo)
  /\ UNCHANGED <<placement, local_cache, queue, history, spent>>

\* The task leaves _active_migrations and releases the semaphore.
EndTask(s) ==
  /\ running[s] # Idle
  /\ running[s].todo = {}
  /\ running' = [running EXCEPT ![s] = Idle]
  /\ UNCHANGED <<placement, data, queue, history, spent>>

-----------------------------------------------------------------------------
(* The process stops, by a crash or by stop(), and starts again from the    *)
(* persisted topology: shards, cache, tasks and finalizers are gone, and    *)
(* pending migrations are counted, not resumed (manager.py:71-93, 597-636). *)
(* A bad weight raises again, before the node can be set offline.           *)
Restart ==
  /\ Spend("restarts", MaxRestarts)
  /\ nodes' = topology.members
  /\ halfway' = topology.halfway
  /\ online' = topology.up \union topology.halfway
  /\ draining' = {} /\ unfinished' = {}
  /\ shard_data' = [n \in Node |-> [k \in Key |-> NoValue]]
  /\ local_cache' = [k \in Key |-> NoValue]
  /\ queue' = <<>>
  /\ running' = [s \in Slot |-> Idle]
  /\ finalizers' = [n \in Node |-> 0]
  /\ last' = [k \in Key |-> NoValue]
  /\ exposed' = {}
  /\ UNCHANGED <<topology, written>>

ClientStep == \E k \in Key : Put(k) \/ Delete(k) \/ EvictCached(k)

MembershipStep ==
  \E n \in Node : AddNode(n) \/ AddNodeHalfway(n) \/ RemoveNode(n) \/ FailNode(n)

BackgroundStep ==
  \/ \E s \in Slot : StartTask(s) \/ CopyBatch(s) \/ EndTask(s)
  \/ \E n \in Node : FinalizeRemoval(n) \/ FinalizeAtDeadline(n)
  \/ \E s, t \in Node : Rebalance(s, t)

Next == ClientStep \/ MembershipStep \/ BackgroundStep \/ Restart

Spec == Init /\ [][Next]_vars

(* The event loop runs every task that is ready, in turn, and a finalizer   *)
(* looks again every 0.1 s.                                                 *)
Fairness ==
  /\ \A s \in Slot : WF_vars(StartTask(s)) /\ WF_vars(CopyBatch(s) \/ EndTask(s))
  /\ \A n \in Node : WF_vars(FinalizeRemoval(n))

FairSpec == Spec /\ Fairness

-----------------------------------------------------------------------------
Task == [kind : {"drain", "migrate"}, source : Node, target : Node]

CopyItem == [key : Key, value : Value, target : Node]

RunningTask ==
  [kind : {"drain", "migrate"}, source : Node, target : Node, todo : SUBSET CopyItem]

TypeOK ==
  /\ nodes \subseteq Node /\ online \union halfway \subseteq nodes
  /\ draining \union unfinished \subseteq Node
  /\ shard_data \in [Node -> [Key -> Value]]
  /\ local_cache \in [Key -> Value]
  /\ queue \in Seq(Task)
  /\ running \in [Slot -> {Idle} \union RunningTask]
  /\ finalizers \in [Node -> Nat]
  /\ topology \in [members : SUBSET Node, up : SUBSET Node, halfway : SUBSET Node]
  /\ topology.up \union topology.halfway \subseteq topology.members
  /\ written \in [Key -> Value] /\ last \in [Key -> Value]
  /\ exposed \subseteq Key
  /\ spent \in [Bounded -> Nat]

(* A draining node is an offline member of the ring and a finalizer waits   *)
(* to take it off, however removals, re-additions, time-outs and restarts   *)
(* follow each other.  Only a node whose join and then whose removal failed *)
(* halfway stays in _draining_nodes, until it is removed once more          *)
(* (manager.py:140-175).                                                    *)
DrainingIsAttended ==
  \A n \in draining \ unfinished : n \in nodes \ online /\ finalizers[n] > 0

(* A GET never returns an old or a deleted value of a key, in the middle of *)
(* joins, failed joins, drains and failures, unless the key was once        *)
(* written while an old copy lay where the write did not reach it: in the   *)
(* snapshot of a running migration or on a node outside the replicas        *)
(* written (manager.py:314-423, 185-216, 469-486).                          *)
FreshUnlessExposed ==
  \A k \in Key \ exposed : ReadResults(k) \subseteq {last[k], NoValue}

(* No data is kept for a node that is off the ring (manager.py:163-169): no *)
(* migration fills the shard of a node after its removal, as long as        *)
(* removals end within their deadline.  A removal that fails keeps the      *)
(* shard.                                                                   *)
NoOrphanData ==
  spent["deadlines"] = 0 =>
    \A n \in Node \ (nodes \union unfinished) : \A k \in Key : shard_data[n][k] = NoValue

(* A key stored and not deleted can be read at any moment, during a removal *)
(* and after it, without the help of the local cache                        *)
(* (tests/integration_test.py:195, 208).                                    *)
StoredIsReadable ==
  OnRing # {} => \A k \in Key : last[k] # NoValue => NoValue \notin ReadResults(k)

(* Once no node is draining and no migration is active, a GET returns what  *)
(* the last PUT stored (tests/integration_test.py:481-483).                 *)
SettledReads ==
  OnRing # {} /\ draining = {} /\ NoActiveMigration =>
    \A k \in Key : last[k] # NoValue => ReadResults(k) \subseteq {last[k], NoValue}

(* A node that was taken offline to be drained leaves the ring, even if its *)
(* finalizer fails there, unless the process ends before                    *)
(* (manager.py:134-175).                                                    *)
RemovalCompletes ==
  \A n \in Node, ends \in 0 .. MaxRestarts :
    n \in draining \ online /\ spent["restarts"] = ends
      ~> n \notin nodes \/ spent["restarts"] > ends
=============================================================================
