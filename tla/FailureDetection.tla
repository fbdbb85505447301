--------------------------- MODULE FailureDetection ---------------------------
(***************************************************************************)
(* How NodeManager of dcache/node_manager/manager.py finds out that a cache*)
(* node is gone, and whom it tells: the heartbeats, the monitor that looks *)
(* at them every five seconds, the GETs that find a primary offline, and   *)
(* the FaultToleranceManager of dcache/fault_tolerance/manager.py that     *)
(* marks the node and keeps a history.                                     *)
(*                                                                         *)
(* Time passes in ticks.  The monitor runs when its sleep ends: the loop   *)
(* is not blocked for long, and the clock waits for it.  The body of the   *)
(* monitor runs from start to end as one step, since the alert callback of *)
(* the server only logs (main.py:93-97); so do the handlers here, whose    *)
(* suspensions are in NodeManager.                                         *)
(*                                                                         *)
(* A join fails halfway if the weight is not a whole number: the node is in*)
(* _nodes by then, and online, but has no position (HashRing), and         *)
(* NodeManager.add_node ends before it does anything else.                 *)
(***************************************************************************)
EXTENDS Integers, FiniteSets, Sequences, SequencesExt

CONSTANTS
  Node,           \* node ids
  Timeout,        \* _heartbeat_timeout, in ticks
  Period,         \* the sleep of _heartbeat_monitor, in ticks
  MaxHistory,     \* _max_history
  MaxFinalizers   \* bound on the removals under way at a time

ASSUME DetectionAssumption ==
  /\ IsFiniteSet(Node)
  /\ Timeout \in Nat /\ Period \in Nat \ {0}
  /\ MaxHistory \in Nat /\ MaxHistory >= Cardinality(Node)
  /\ MaxFinalizers \in Nat

VARIABLES
  members,      \* members of _ring._nodes
  online,       \* those with is_online
  halfway,      \* those with a bad weight and no entry in _node_vnodes
  draining,     \* _draining_nodes
  finalizers,   \* how many _finalize_removal coroutines wait, per node
  topology,     \* members, online ones and bad weights as last persisted
  silence,      \* _node_heartbeats: ticks since the last heartbeat
  slept,        \* ticks since the monitor last ran
  failed,       \* _failed_nodes of the ReplicaManager
  recorded,     \* _fault_recorded
  history,      \* _fault_history
  strays,       \* ghost: nodes that beat while gone or going, or left online
  unfinished    \* ghost: draining nodes that a finalizer failed to take out

ring   == <<members, online, halfway, draining, finalizers, topology>>
watch  == <<silence, slept>>
fault  == <<failed, recorded, history>>
ghosts == <<strays, unfinished>>
vars   == <<ring, watch, fault, ghosts>>

Longest == Timeout + Period + 1           \* longer silences are not told apart

Event == [node : Node, reason : {"heartbeat", "takeover"}]

Init ==
  /\ members = {} /\ online = {} /\ halfway = {} /\ draining = {}
  /\ finalizers = [n \in Node |-> 0]
  /\ topology = [members |-> {}, up |-> {}, halfway |-> {}]
  /\ silence = [n \in {} |-> 0]
  /\ slept = 0
  /\ failed = {} /\ recorded = {}
  /\ history = <<>>
  /\ strays = {} /\ unfinished = {}

-----------------------------------------------------------------------------
Watched == DOMAIN silence

(* A node that was added again under an entry left in _draining_nodes is    *)
(* online.                                                                  *)
Leaving == draining \ online

Beat(n) == [m \in Watched \union {n} |-> IF m = n THEN 0 ELSE silence[m]]

Tick ==
  /\ slept < Period
  /\ slept' = slept + 1
  /\ silence' = [n \in Watched |-> IF silence[n] < Longest THEN silence[n] + 1 ELSE Longest]
  /\ UNCHANGED <<ring, fault, ghosts>>

\* update_heartbeat: for any id, whether the ring has it or not.
Heartbeat(n) ==
  /\ silence' = Beat(n)
  /\ strays' = IF n \in members \ Leaving THEN strays ELSE strays \union {n}
  /\ UNCHANGED <<ring, slept, fault, unfinished>>

\* A plausible slip: the wrong end of the history is cut off.
HistoryKeepingOldest(events) ==
  LET all == history \o events
  IN  IF Len(all) > MaxHistory THEN SubSeq(all, 1, MaxHistory) ELSE all

\* handle_node_failure and _record_fault, for one event after the other.
HistoryWith(events) ==
  LET all == history \o events
  IN  IF Len(all) > MaxHistory THEN SubSeq(all, Len(all) - MaxHistory + 1, Len(all)) ELSE all

\* A plausible slip: one round of the monitor is waited for in addition.
OverdueLater == {n \in Watched : silence[n] > Timeout + Period} \ draining

Overdue == {n \in Watched : silence[n] > Timeout} \ draining

\* A plausible slip: the round ends after its first report.
MonitorReportingOne ==
  /\ slept = Period
  /\ slept' = 0
  /\ online' = online \ Overdue
  /\ IF Overdue = {}
     THEN UNCHANGED <<failed, history>>
     ELSE \E n \in Overdue :
            /\ failed' = failed \union {n}
            /\ history' = HistoryWith(<<[node |-> n, reason |-> "heartbeat"]>>)
  /\ UNCHANGED <<members, halfway, draining, finalizers, topology, silence, recorded, ghosts>>

(* _heartbeat_monitor reports who is overdue, each time anew, members or    *)
(* not; one that drains is passed over.                                     *)
Monitor ==
  /\ slept = Period
  /\ slept' = 0
  /\ online' = online \ Overdue
  /\ failed' = failed \union Overdue
  /\ \E order \in SetToSeqs(Overdue) :
       history' = HistoryWith([i \in DOMAIN order |-> [node |-> order[i], reason |-> "heartbeat"]])
  /\ UNCHANGED <<members, halfway, draining, finalizers, topology, silence, recorded, ghosts>>

(* A GET finds its primary offline and the value on another node            *)
(* (_record_read_fault_if_needed); a node without a position is no primary. *)
Takeover(n) ==
  /\ n \in members \ (online \union draining \union halfway)
  /\ n \notin recorded
  /\ recorded' = recorded \union {n}
  /\ failed' = failed \union {n}
  /\ history' = HistoryWith(<<[node |-> n, reason |-> "takeover"]>>)
  /\ UNCHANGED <<ring, watch, ghosts>>

-----------------------------------------------------------------------------
(* What membership does to the watch.                                       *)

PersistTopology == topology' = [members |-> members', up |-> online', halfway |-> halfway']

AddNode(n) ==
  /\ n \notin members
  /\ members' = members \union {n}
  /\ online' = online \union {n}
  /\ silence' = Beat(n)
  /\ UNCHANGED <<halfway, draining, finalizers, slept, fault, ghosts>>
  /\ PersistTopology

(* ring.add_node raises once the node is in _nodes: no heartbeat is entered *)
(* for it and no topology written.                                          *)
AddNodeHalfway(n) ==
  /\ n \notin members
  /\ members' = members \union {n}
  /\ online' = online \union {n}
  /\ halfway' = halfway \union {n}
  /\ UNCHANGED <<draining, finalizers, topology, watch, fault, ghosts>>

\* A plausible slip: the watch goes on.
StillWatched(n) == silence

Unwatched(n) == [m \in Watched \ {n} |-> silence[m]]

RemoveNode(n) ==
  /\ n \in members
  /\ FoldFunction(+, 0, finalizers) < MaxFinalizers
  /\ draining' = draining \union {n}
  /\ UNCHANGED <<members, halfway>>
  /\ online' = online \ {n}
  /\ finalizers' = [finalizers EXCEPT ![n] = @ + 1]
  /\ silence' = Unwatched(n)
  /\ PersistTopology
  /\ UNCHANGED <<slept, fault, ghosts>>

\* ring.remove_node, as far as the watch is concerned: it goes on.
LeaveRing(n) ==
  /\ finalizers[n] > 0
  /\ finalizers' = [finalizers EXCEPT ![n] = @ - 1]
  /\ members' = members \ {n}
  /\ online' = online \ {n}
  /\ strays' = IF n \in members \ Leaving THEN strays \union {n} ELSE strays
  /\ UNCHANGED <<watch, fault>>

\* _finalize_removal; a second one can hit a node that was added again.
FinalizeRemoval(n) ==
  /\ n \notin halfway
  /\ LeaveRing(n)
  /\ draining' = draining \ {n}
  /\ unfinished' = unfinished \ {n}
  /\ UNCHANGED halfway
  /\ PersistTopology

(* A node without an entry in _node_vnodes leaves _nodes before             *)
(* ring.remove_node raises; the finalizer ends there                        *)
(* (consistent_hash.py:162-163, manager.py:172).                            *)
FinalizeRemovalFails(n) ==
  /\ n \in halfway
  /\ LeaveRing(n)
  /\ halfway' = halfway \ {n}
  /\ unfinished' = unfinished \union ({n} \intersect draining)
  /\ UNCHANGED <<draining, topology>>

(* The process ends and starts again: only the nodes recovered as online    *)
(* are watched (manager.py:597-636).  One with a bad weight fails halfway   *)
(* again, before it is watched or set offline.                              *)
Restart ==
  /\ members' = topology.members
  /\ halfway' = topology.halfway
  /\ online' = topology.up \union topology.halfway
  /\ draining' = {}
  /\ finalizers' = [n \in Node |-> 0]
  /\ silence' = [n \in topology.up \ topology.halfway |-> 0]
  /\ slept' = 0
  /\ failed' = {} /\ recorded' = {}
  /\ history' = <<>>
  /\ strays' = {} /\ unfinished' = {}
  /\ UNCHANGED topology

Next ==
  \/ \E n \in Node :
       \/ Heartbeat(n) \/ Takeover(n)
       \/ AddNode(n) \/ AddNodeHalfway(n)
       \/ RemoveNode(n) \/ FinalizeRemoval(n) \/ FinalizeRemovalFails(n)
  \/ Tick \/ Monitor \/ Restart

Spec == Init /\ [][Next]_vars

-----------------------------------------------------------------------------
TypeOK ==
  /\ online \union halfway \subseteq members /\ members \subseteq Node
  /\ unfinished \subseteq draining /\ draining \subseteq Node
  /\ finalizers \in [Node -> Nat]
  /\ topology.up \union topology.halfway \subseteq topology.members
  /\ topology.members \subseteq Node
  /\ silence \in [Watched -> 0 .. Longest] /\ Watched \subseteq Node
  /\ slept \in 0 .. Period
  /\ failed \subseteq Node /\ recorded \subseteq failed
  /\ history \in Seq(Event) /\ Len(history) <= MaxHistory

(* An online node that falls silent is offline after the timeout and one    *)
(* more round of the monitor, however joins, removals, late heartbeats and  *)
(* restarts follow each other (manager.py:546-563).  Two kinds of node are  *)
(* missed: one whose join failed halfway, unless it beats while it is a     *)
(* member, and one added again while the entry that its failed removal left *)
(* in _draining_nodes is still there (manager.py:106-111, 172, 552).        *)
SilentNodesFound ==
  \A n \in online \ unfinished :
    \/ n \in Watched /\ silence[n] <= Timeout + Period
    \/ n \in halfway /\ (n \notin Watched \/ n \in strays)

(* A node that is passed over by reads and writes without draining was      *)
(* reported to the fault manager, unless the store has it as offline: then  *)
(* it may have been so when the process started (manager.py:559-563,        *)
(* 615-620).                                                                *)
OfflineWasReported ==
  members \ (online \union draining) \subseteq failed \union (topology.members \ topology.up)

(* The monitor watches no node that has left, or that is leaving, unless a  *)
(* late heartbeat or a second finalizer brought it back (manager.py:149,    *)
(* 283-284, 551-563).                                                       *)
OnlyStraysOutlive == Watched \ (members \ Leaving) \subseteq strays

(* A node that fails is on record at that moment, however often strays and  *)
(* other nodes have filled the history (fault_tolerance/manager.py:141-158, *)
(* 242-245).                                                                *)
NewFailureOnRecord ==
  [][\A n \in failed' \ failed : \E i \in DOMAIN history' : history'[i].node = n]_vars
=============================================================================
