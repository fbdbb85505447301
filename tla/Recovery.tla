------------------------------- MODULE Recovery -------------------------------
(***************************************************************************)
(* What survives a restart: NodeManager of dcache/node_manager/manager.py  *)
(* seen through the calls its handlers and tasks make to the MetadataStore,*)
(* and the start and stop of DistributedCacheServer (dcache/main.py).      *)
(*                                                                         *)
(* A handler changes the ring and then makes its calls one after the       *)
(* other; the process may end between two of them, or within one.  No      *)
(* other handler runs in between, since none of them suspends there.  What *)
(* the shards hold and how long migrations and removals take is the        *)
(* business of NodeManager; here they end at any time.                     *)
(*                                                                         *)
(* A join fails halfway if the weight is not a whole number: the node is   *)
(* in _nodes by then, and online, and no call is made for it.              *)
(***************************************************************************)
EXTENDS Integers, Sequences, FiniteSets, SequencesExt

CONSTANTS
  Node,          \* cache node ids
  Migration,     \* ids of migrations, a new one for every plan
  None,          \* no value
  Torn,          \* a truncated file
  FileNames,     \* for ids that turn into one name in a file, one of them
  MaxFaults,     \* bound on calls of the store that fail
  MaxJoins,      \* bound on add_node calls
  MaxRemovals,   \* bound on remove_node calls
  MaxEnds        \* bound on ends of the process

\* What the topology record says of the ring.
RingRecord ==
  {t \in [members : SUBSET Node, up : SUBSET Node, halfway : SUBSET Node] :
     t.up \union t.halfway \subseteq t.members}

ASSUME RecoveryAssumption ==
  /\ IsFiniteSet(Migration)
  /\ FileNames \subseteq [Node -> Node]
  /\ {None, Torn} \intersect (Node \union RingRecord) = {}
  /\ {None, Torn} \intersect {"pending", "ended"} = {} /\ None # Torn

VARIABLES
  backend, file, ldb, json, last, home, faults,
  plyvel,       \* whether that module can be imported
  alive,        \* the server has started and not stopped
  members,      \* members of _ring._nodes
  up,           \* those with is_online
  halfway,      \* those with a bad weight and no entry in _node_vnodes
  finalizers,   \* how many _finalize_removal coroutines wait, per node
  active,       \* the keys of _active_migrations
  script,       \* the calls the running handler has yet to make
  cut,          \* ghost: migrations that were active when the process ended
  disturbed,    \* ghost: nodes with a handler cut short, or removed twice at a time
  unrecorded,   \* ghost: nodes that came or went without a topology written since
  spent         \* how much of each bound is used up

Topology     == <<"topology", "current">>
NodeKey(n)   == <<"node", n>>
DrainKey(n)  == <<"drain", n>>
MigrationKey(m) == <<"migration", m>>

TaskKeys == {DrainKey(n) : n \in Node} \union {MigrationKey(m) : m \in Migration}

Record == {Topology} \union {NodeKey(n) : n \in Node} \union TaskKeys

INSTANCE MetadataStore

store  == <<backend, file, ldb, json, last, home, faults>>
ring   == <<members, up, halfway>>
memory == <<ring, finalizers, active>>
ghosts == <<cut, disturbed, unrecorded>>
vars   == <<store, plyvel, alive, memory, script, ghosts, spent>>

Spend(what, bound) ==
  /\ spent[what] < bound
  /\ spent' = [spent EXCEPT ![what] = @ + 1]

PutCall(k, v) == [op |-> "put", key |-> k, value |-> v]
DeleteCall(k) == [op |-> "delete", key |-> k, value |-> None]

\* The keys of nodes and drains end in an id; all others have their own file.
FilesOf(name) ==
  [k \in Record |-> IF k[1] \in {"node", "drain"} THEN <<k[1], name[k[2]]>> ELSE k]

Usual == IF plyvel THEN "leveldb" ELSE "json"

Init ==
  /\ plyvel \in BOOLEAN
  /\ StoreInit
  /\ \E name \in FileNames : file = FilesOf(name)
  /\ backend = Usual
  /\ alive = FALSE
  /\ members = {} /\ up = {} /\ halfway = {} /\ active = {} /\ script = <<>>
  /\ finalizers = [n \in Node |-> 0]
  /\ cut = {} /\ disturbed = {} /\ unrecorded = {}
  /\ spent = [what \in {"joins", "removals", "ends"} |-> 0]

-----------------------------------------------------------------------------
(* The handlers and tasks; one starts when no other is running.             *)

Ready == alive /\ script = <<>>

\* A plausible slip: the topology is taken before the ring has changed.
TopologyOfBefore == PutCall(Topology, [members |-> members, up |-> up, halfway |-> halfway])

PersistTopology == PutCall(Topology, [members |-> members', up |-> up', halfway |-> halfway'])

Begin(calls) ==
  /\ Ready
  /\ script' = calls
  /\ UNCHANGED <<store, plyvel, alive, cut>>

\* _start_migration of every plan: the record, then the task.
PendingCalls(ms) ==
  LET order == SetToSeq(ms) IN [i \in DOMAIN order |-> PutCall(MigrationKey(order[i]), "pending")]

NewMigrations == {m \in Migration : last[MigrationKey(m)] = None}

\* ring.add_node has put the node on the ring, with plans if others are there.
JoinRing(n) ==
  /\ n \notin members                          \* DuplicateNodeError
  /\ Spend("joins", MaxJoins)
  /\ members' = members \union {n}
  /\ up' = up \union {n}
  /\ UNCHANGED <<halfway, finalizers, disturbed>>
  /\ unrecorded' = unrecorded \ {n}

\* A plausible slip: the migrations are scheduled before they are recorded.
AddNodeSchedulingFirst(n) ==
  /\ JoinRing(n)
  /\ \E ms \in SUBSET NewMigrations :
       /\ members \ halfway = {} => ms = {}
       /\ active' = active \union {MigrationKey(m) : m \in ms}
       /\ Begin(<<PutCall(NodeKey(n), n), PersistTopology>> \o PendingCalls(ms))

AddNode(n) ==
  /\ JoinRing(n)
  /\ \E ms \in SUBSET NewMigrations :
       /\ members \ halfway = {} => ms = {}
       /\ Begin(<<PutCall(NodeKey(n), n), PersistTopology>> \o PendingCalls(ms))
  /\ UNCHANGED active

(* ring.add_node raises once the node is in _nodes: nothing is recorded     *)
(* before the next topology.                                                *)
AddNodeHalfway(n) ==
  /\ n \notin members
  /\ Spend("joins", MaxJoins)
  /\ members' = members \union {n}
  /\ up' = up \union {n}
  /\ halfway' = halfway \union {n}
  /\ unrecorded' = unrecorded \union {n}
  /\ Begin(<<>>)
  /\ UNCHANGED <<finalizers, active, disturbed>>

\* A plausible slip: the record of a removed node stays.
RemovalKeepingRecord(n) == <<PersistTopology>>

RemovalCalls(n) == <<DeleteCall(NodeKey(n)), PersistTopology>>

\* One drain of a node at a time, but a finalizer for each call.
RemoveNode(n) ==
  /\ n \in members                             \* NodeNotFoundError
  /\ Spend("removals", MaxRemovals)
  /\ UNCHANGED <<members, halfway>>
  /\ up' = up \ {n}
  /\ finalizers' = [finalizers EXCEPT ![n] = @ + 1]
  /\ active' = active \union {DrainKey(n)}
  /\ Begin(RemovalCalls(n))
  /\ disturbed' = IF finalizers[n] > 0 THEN disturbed \union {n} ELSE disturbed
  /\ unrecorded' = unrecorded \ {n}

LeaveRing(n) ==
  /\ finalizers[n] > 0
  /\ finalizers' = [finalizers EXCEPT ![n] = @ - 1]
  /\ members' = members \ {n}
  /\ up' = up \ {n}
  /\ UNCHANGED <<active, disturbed, spent>>

FinalizeRemoval(n) ==
  /\ n \notin halfway
  /\ LeaveRing(n)
  /\ UNCHANGED halfway
  /\ Begin(<<PersistTopology>>)
  /\ unrecorded' = unrecorded \ {n}

(* Without an entry in _node_vnodes ring.remove_node raises, once the node  *)
(* has left _nodes, and the finalizer ends before it writes the topology    *)
(* (consistent_hash.py:162-163, manager.py:172).                            *)
FinalizeRemovalFails(n) ==
  /\ n \in halfway
  /\ LeaveRing(n)
  /\ halfway' = halfway \ {n}
  /\ Begin(<<>>)
  /\ unrecorded' = unrecorded \union {n}

\* The heartbeat monitor tells the store nothing; whom it passes over is the
\* business of FailureDetection.
FailNode(n) ==
  /\ n \in up
  /\ up' = up \ {n}
  /\ Begin(<<>>)
  /\ UNCHANGED <<members, halfway, finalizers, active, disturbed, unrecorded, spent>>

\* _run_rebalance, when it has plans: they go from one online node to another.
Rebalance ==
  /\ Cardinality(up) > 1 /\ members \ halfway # {}
  /\ \E ms \in SUBSET NewMigrations : ms # {} /\ Begin(PendingCalls(ms))
  /\ UNCHANGED <<memory, disturbed, unrecorded, spent>>

\* A migration or a drain ends; "ended" is its "completed" or "failed".
EndMigration(m) ==
  /\ m \in active
  /\ Begin(<<PutCall(m, "ended")>>)
  /\ UNCHANGED <<memory, disturbed, unrecorded, spent>>

\* A task is scheduled after its first record and forgotten after its last.
ActiveAfter(call) ==
  IF call.key \notin TaskKeys THEN active
  ELSE IF call.value = "pending" THEN active \union {call.key}
  ELSE active \ {call.key}

\* The next call of the handler.
CallStore ==
  /\ script # <<>>
  /\ LET call == Head(script)
     IN  /\ IF call.op = "put" THEN Put(call.key, call.value) ELSE Delete(call.key)
         /\ active' = ActiveAfter(call)
         /\ unrecorded' = IF call.key = Topology THEN {} ELSE unrecorded
  /\ script' = Tail(script)
  /\ UNCHANGED <<plyvel, alive, ring, finalizers, cut, disturbed, spent>>

-----------------------------------------------------------------------------
(* The process ends: by stop, which cancels the migrations and leaves their *)
(* records alone, by a crash between two calls, or within one.              *)

TopologyIn(value) ==
  IF value = None THEN [members |-> {}, up |-> {}, halfway |-> {}] ELSE value

\* The nodes a handler changed that the last topology does not tell of.
Unwritten ==
  LET old == TopologyIn(last[Topology])
  IN  {n \in Node \ unrecorded : (n \in members) # (n \in old.members) \/ (n \in up) # (n \in old.up)}

Down ==
  /\ alive
  /\ Spend("ends", MaxEnds)
  /\ alive' = FALSE
  /\ members' = {} /\ up' = {} /\ halfway' = {} /\ active' = {} /\ script' = <<>>
  /\ unrecorded' = {}
  /\ finalizers' = [n \in Node |-> 0]
  /\ cut' = cut \union active
  /\ UNCHANGED plyvel

Stop ==
  /\ script = <<>>
  /\ Down
  /\ UNCHANGED <<store, disturbed>>

Crash ==
  /\ script # <<>>
  /\ disturbed' = disturbed \union Unwritten
  /\ \/ UNCHANGED store
     \/ Head(script).op = "put" /\ TornPut(Head(script).key, Head(script).value)
  /\ Down

ComeUp(topology) ==
  /\ alive' = TRUE
  /\ members' = topology.members
  /\ halfway' = topology.halfway
  /\ up' = topology.up \union topology.halfway

\* A plausible slip: an empty store is taken for a broken one.
StartFromSome(found) ==
  IF found \in {Torn, None} THEN UNCHANGED <<alive, ring>> ELSE ComeUp(found)

\* start, once recover_topology has found this; json.loads raises on a torn
\* file, and so does start.  A node with a bad weight fails halfway again, before
\* it can be set offline.
StartFrom(found) == IF found = Torn THEN UNCHANGED <<alive, ring>> ELSE ComeUp(TopologyIn(found))

\* Where LevelDB cannot be opened or read, the file is read; where that
\* cannot be read either, the server starts with an empty ring.
Start ==
  /\ ~alive
  /\ \/ /\ backend' = Usual /\ Works
        /\ StartFrom(IF plyvel THEN ldb[Topology] ELSE FallbackGet(Topology))
     \/ /\ plyvel /\ Fails /\ backend' \in {"leveldb", "json"}
        /\ StartFrom(FallbackGet(Topology))
     \/ /\ Fails /\ backend' \in {Usual, "json"}
        /\ StartFrom(None)
  /\ UNCHANGED <<file, ldb, json, last, home, plyvel, finalizers, active, script, ghosts, spent>>

Next ==
  \/ \E n \in Node :
       \/ AddNode(n) \/ AddNodeHalfway(n)
       \/ RemoveNode(n) \/ FinalizeRemoval(n) \/ FinalizeRemovalFails(n) \/ FailNode(n)
  \/ Rebalance
  \/ \E m \in active : EndMigration(m)
  \/ CallStore \/ Stop \/ Crash \/ Start

Spec == Init /\ [][Next]_vars

(* Whoever looks after the server starts it again.                          *)
FairSpec == Spec /\ WF_vars(Start)

-----------------------------------------------------------------------------
TypeOK ==
  /\ backend \in {"leveldb", "json"} /\ plyvel \in BOOLEAN /\ alive \in BOOLEAN
  /\ file \in [Record -> Record]
  /\ \A k \in Record : json[file[k]] = Torn => "json" \notin home[k]
  /\ up \union halfway \subseteq members /\ members \subseteq Node
  /\ finalizers \in [Node -> Nat]
  /\ active \subseteq Record /\ cut \subseteq Record
  /\ \A i \in DOMAIN script : script[i].key \in Record
  /\ ~alive => script = <<>>

(* What the store holds is the ring: between two handlers, and so after a   *)
(* restart at any point, its members are those of the topology, with the    *)
(* same bad weights, and the topology says online of every node that is, or *)
(* has a bad weight for it; a node the heartbeat monitor failed since comes *)
(* back online with the restart.  Only a join or a removal that failed      *)
(* halfway changes the ring without a topology, until any handler writes    *)
(* the next (manager.py:106-121, 172, 569-587, 597-625, DEPLOY.md:195).     *)
RingIsPersisted ==
  Ready /\ faults = 0 =>
    LET topology == TopologyIn(Get(Topology))
    IN  /\ members \ unrecorded = topology.members \ unrecorded
        /\ halfway \ unrecorded = topology.halfway \ unrecorded
        /\ up \subseteq topology.up \union topology.halfway \union unrecorded

(* The record of a node and the topology agree: an online node has its      *)
(* record, unless its join failed halfway, and a record its member.  The    *)
(* exceptions are nodes with a handler cut between the two calls, and those *)
(* a second finalizer took off that had been added again; and where the     *)
(* files are open, a record another one has replaced in its file            *)
(* (manager.py:106-121, 150-151, 569-577, metadata_store.py:188).  The      *)
(* variables have their types.                                              *)
RecordsAgree ==
  /\ TypeOK
  /\ Ready /\ faults = 0 =>
       LET topology == TopologyIn(Get(Topology))
       IN  \A n \in Node \ disturbed : Kept(NodeKey(n)) =>
             /\ n \in topology.up \ topology.halfway => Get(NodeKey(n)) = n
             /\ Get(NodeKey(n)) = n => n \in topology.members

\* load_pending_migrations, which does not look into the files.
PendingMigrations ==
  IF backend = "leveldb" THEN {k \in TaskKeys : ldb[k] = "pending"} ELSE {}

(* A migration is found pending in LevelDB exactly if it is active, or was  *)
(* when the process ended: none that ended is taken for an interrupted one, *)
(* and none interrupted is missing (manager.py:437-452, 488-523, 627).      *)
PendingIsInterrupted ==
  Ready /\ faults = 0 /\ plyvel =>
    PendingMigrations = {k \in active \union cut : k[1] = "migration"}

(* A server that is down comes up again, unless its topology is a file that *)
(* was truncated in the middle of a write (metadata_store.py:103-107,       *)
(* 191-192, main.py:99-106).                                                *)
ComesUpAgain == ~alive ~> alive \/ FallbackGet(Topology) = Torn
=============================================================================
