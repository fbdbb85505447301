------------------------ MODULE FailureDetectionProofs ------------------------
(***************************************************************************)
(* What the heartbeats, the monitor and the fault history promise for any  *)
(* nodes, timeout, period and length of the history.  The invariant adds   *)
(* to the properties where each kind of node may be (an entry of           *)
(* _draining_nodes for a node off the ring, or online, is one that a       *)
(* finalizer failed to clear), and replaces the bound on silence by one    *)
(* that grows while the monitor sleeps.                                    *)
(***************************************************************************)
EXTENDS FailureDetection, FiniteSetTheorems, SequenceTheorems, TLAPS

Places ==
  /\ members \subseteq Node /\ online \subseteq members /\ halfway \subseteq members
  /\ unfinished \subseteq draining /\ draining \subseteq Node
  /\ draining \ unfinished \subseteq members \ online
  /\ topology.up \union topology.halfway \subseteq topology.members
  /\ topology.members \subseteq Node

Watching ==
  /\ Watched \subseteq Node
  /\ silence \in [Watched -> 0 .. Longest]
  /\ slept \in 0 .. Period
  /\ \A n \in online \ unfinished :
       \/ n \in Watched /\ silence[n] <= Timeout + slept
       \/ n \in halfway /\ (n \notin Watched \/ n \in strays)

DetectionInv == Places /\ Watching /\ OfflineWasReported /\ OnlyStraysOutlive

LEMMA InvInitially == Init => DetectionInv
BY DetectionAssumption
DEF Init, DetectionInv, Places, Watching, Watched, OfflineWasReported, OnlyStraysOutlive, Leaving

LEMMA InvTick == DetectionInv /\ Tick => DetectionInv'
<1> SUFFICES ASSUME DetectionInv, Tick PROVE DetectionInv'
  OBVIOUS
<1> USE DetectionAssumption DEF DetectionInv
<1>1. Longest \in Nat /\ Timeout + Period < Longest
  BY DEF Longest
<1>2. Watched' = Watched /\ UNCHANGED <<ring, fault, ghosts>>
  BY DEF Tick, Watched
<1>3. Places'
  BY <1>2 DEF Places, ring, ghosts
<1>4. Watching'
  BY <1>1, <1>2 DEF Watching, Tick, Watched, ring, ghosts
<1> QED
  BY <1>2, <1>3, <1>4 DEF OfflineWasReported, OnlyStraysOutlive, Leaving, ring, fault, ghosts

LEMMA InvHeartbeat ==
  ASSUME DetectionInv, NEW n \in Node, Heartbeat(n)
  PROVE  DetectionInv'
<1> USE DetectionAssumption DEF DetectionInv
<1>1. Watched' = Watched \union {n} /\ UNCHANGED <<ring, fault, slept, unfinished>>
      /\ strays \subseteq strays' /\ strays' \subseteq strays \union {n}
      /\ (n \in strays' \/ n \in members \ Leaving) /\ silence'[n] = 0
  BY DEF Heartbeat, Watched, Beat
<1>2. Places'
  BY <1>1 DEF Places, ring
<1>3. silence' \in [Watched' -> 0 .. Longest]
  BY <1>1 DEF Heartbeat, Beat, Watching, Watched, Longest
<1>4. \A m \in Watched : silence'[m] = silence[m] \/ silence'[m] = 0
  BY DEF Heartbeat, Beat, Watched
<1>5. Watching'
  BY <1>1, <1>3, <1>4 DEF Watching, ring
<1> QED
  BY <1>1, <1>2, <1>5 DEF OfflineWasReported, OnlyStraysOutlive, Leaving, ring, fault

(* The only step that marks nodes offline without a removal reports them;   *)
(* what stays online has been silent for at most the timeout.               *)
LEMMA InvMonitor == DetectionInv /\ Monitor => DetectionInv'
<1> SUFFICES ASSUME DetectionInv, Monitor PROVE DetectionInv'
  OBVIOUS
<1> USE DetectionAssumption DEF DetectionInv
<1>1. /\ online' = online \ Overdue /\ failed' = failed \union Overdue /\ slept' = 0
      /\ UNCHANGED <<members, halfway, draining, topology, silence, ghosts>>
  BY DEF Monitor
<1>2. Places'
  BY <1>1 DEF Places, ghosts
<1>3. \A n \in online' \ unfinished : n \in Watched => silence[n] <= Timeout
  BY <1>1 DEF Watching, Places, Overdue, Longest
<1>4. Watching'
  BY <1>1, <1>3 DEF Watching, Watched, ghosts
<1>5. OfflineWasReported'
  BY <1>1 DEF OfflineWasReported
<1>6. OnlyStraysOutlive'
  BY <1>1 DEF OnlyStraysOutlive, Watched, Leaving, Overdue, ghosts
<1> QED
  BY <1>2, <1>4, <1>5, <1>6

LEMMA InvTakeover ==
  ASSUME DetectionInv, NEW n \in Node, Takeover(n)
  PROVE  DetectionInv'
BY DEF DetectionInv, Takeover, Places, Watching, Watched, Leaving, OfflineWasReported,
       OnlyStraysOutlive, ring, watch, ghosts

LEMMA InvAddNode ==
  ASSUME DetectionInv, NEW n \in Node, AddNode(n)
  PROVE  DetectionInv'
<1> USE DetectionAssumption DEF DetectionInv
<1>1. /\ Watched' = Watched \union {n} /\ UNCHANGED <<slept, halfway, draining, fault, ghosts>>
      /\ members' = members \union {n} /\ online' = online \union {n} /\ n \notin members
      /\ topology' = [members |-> members', up |-> online', halfway |-> halfway']
  BY DEF AddNode, Watched, Beat, PersistTopology
<1>2. Places'
  BY <1>1 DEF Places, ghosts
<1>3. silence' \in [Watched' -> 0 .. Longest] /\ silence'[n] = 0
  BY <1>1 DEF AddNode, Beat, Watching, Watched, Longest
<1>4. \A m \in Watched : silence'[m] = silence[m] \/ silence'[m] = 0
  BY DEF AddNode, Beat, Watched
<1>5. Watching'
  BY <1>1, <1>3, <1>4 DEF Watching, ghosts
<1> QED
  BY <1>1, <1>2, <1>5 DEF OfflineWasReported, OnlyStraysOutlive, Leaving, Places, ghosts

(* A node that beat while it was not a member is a stray.                   *)
LEMMA InvAddNodeHalfway ==
  ASSUME DetectionInv, NEW n \in Node, AddNodeHalfway(n)
  PROVE  DetectionInv'
<1> USE DEF DetectionInv
<1>1. /\ UNCHANGED <<draining, topology, silence, slept, fault, ghosts>> /\ n \notin members
      /\ members' = members \union {n} /\ online' = online \union {n}
      /\ halfway' = halfway \union {n}
  BY DEF AddNodeHalfway, watch
<1>2. Places'
  BY <1>1 DEF Places, ghosts
<1>3. n \notin Watched \/ n \in strays
  BY <1>1 DEF OnlyStraysOutlive
<1>4. Watching'
  BY <1>1, <1>3 DEF Watching, Watched, ghosts
<1> QED
  BY <1>1, <1>2, <1>4 DEF OfflineWasReported, OnlyStraysOutlive, Leaving, Watched, fault, ghosts

LEMMA InvRemoveNode ==
  ASSUME DetectionInv, NEW n \in Node, RemoveNode(n)
  PROVE  DetectionInv'
<1> USE DetectionAssumption DEF DetectionInv
<1>1. /\ Watched' = Watched \ {n} /\ UNCHANGED <<slept, members, halfway, fault, ghosts>>
      /\ draining' = draining \union {n} /\ online' = online \ {n} /\ n \in members
      /\ topology' = [members |-> members', up |-> online', halfway |-> halfway']
  BY DEF RemoveNode, Watched, Unwatched, PersistTopology
<1>2. Places'
  BY <1>1 DEF Places, ghosts
<1>3. /\ silence' \in [Watched' -> 0 .. Longest]
      /\ \A m \in Watched' : silence'[m] = silence[m]
  BY <1>1 DEF RemoveNode, Unwatched, Watching, Watched
<1>4. Watching'
  BY <1>1, <1>3 DEF Watching, ghosts
<1> QED
  BY <1>1, <1>2, <1>4 DEF OfflineWasReported, OnlyStraysOutlive, Leaving, ghosts

LEMMA InvFinalizeRemoval ==
  ASSUME DetectionInv, NEW n \in Node, FinalizeRemoval(n)
  PROVE  DetectionInv'
<1> USE DEF DetectionInv
<1>1. /\ UNCHANGED <<silence, slept, fault, halfway>> /\ n \notin halfway
      /\ members' = members \ {n} /\ draining' = draining \ {n} /\ online' = online \ {n}
      /\ unfinished' = unfinished \ {n}
      /\ topology' = [members |-> members', up |-> online', halfway |-> halfway']
      /\ strays' = IF n \in members \ Leaving THEN strays \union {n} ELSE strays
  BY DEF FinalizeRemoval, LeaveRing, PersistTopology, watch
<1>2. Places'
  BY <1>1 DEF Places
<1>3. Watching'
  BY <1>1 DEF Watching, Watched
<1>4. OfflineWasReported'
  BY <1>1 DEF OfflineWasReported
<1>5. OnlyStraysOutlive'
  BY <1>1 DEF OnlyStraysOutlive, Leaving, Watched
<1> QED
  BY <1>2, <1>3, <1>4, <1>5

LEMMA InvFinalizeRemovalFails ==
  ASSUME DetectionInv, NEW n \in Node, FinalizeRemovalFails(n)
  PROVE  DetectionInv'
<1> USE DEF DetectionInv
<1>1. /\ UNCHANGED <<silence, slept, fault, draining, topology>>
      /\ members' = members \ {n} /\ halfway' = halfway \ {n} /\ online' = online \ {n}
      /\ unfinished' = unfinished \union ({n} \intersect draining)
      /\ strays' = IF n \in members \ Leaving THEN strays \union {n} ELSE strays
  BY DEF FinalizeRemovalFails, LeaveRing, watch
<1>2. Places'
  BY <1>1 DEF Places
<1>3. Watching'
  BY <1>1 DEF Watching, Watched
<1>4. OfflineWasReported'
  BY <1>1 DEF OfflineWasReported, fault
<1>5. OnlyStraysOutlive'
  BY <1>1 DEF OnlyStraysOutlive, Leaving, Watched
<1> QED
  BY <1>2, <1>3, <1>4, <1>5

LEMMA InvRestart == DetectionInv /\ Restart => DetectionInv'
<1> SUFFICES ASSUME DetectionInv, Restart PROVE DetectionInv'
  OBVIOUS
<1> USE DetectionAssumption DEF DetectionInv
<1>1. /\ members' = topology.members /\ halfway' = topology.halfway
      /\ online' = topology.up \union topology.halfway
      /\ draining' = {} /\ strays' = {} /\ unfinished' = {}
      /\ silence' = [m \in topology.up \ topology.halfway |-> 0] /\ slept' = 0
      /\ UNCHANGED topology
  BY DEF Restart
<1>2. Watched' = topology.up \ topology.halfway
  BY <1>1 DEF Watched
<1>3. Places'
  BY <1>1 DEF Places
<1>4. Watching'
  BY <1>1, <1>2 DEF Watching, Places, Longest
<1> QED
  BY <1>1, <1>2, <1>3, <1>4 DEF OfflineWasReported, OnlyStraysOutlive, Leaving, Places

LEMMA InvKept == DetectionInv /\ [Next]_vars => DetectionInv'
<1> SUFFICES ASSUME DetectionInv, [Next]_vars PROVE DetectionInv'
  OBVIOUS
<1>1. CASE \E n \in Node :
             \/ Heartbeat(n) \/ Takeover(n) \/ AddNode(n) \/ AddNodeHalfway(n)
             \/ RemoveNode(n) \/ FinalizeRemoval(n) \/ FinalizeRemovalFails(n)
  BY <1>1, InvHeartbeat, InvTakeover, InvAddNode, InvAddNodeHalfway, InvRemoveNode,
     InvFinalizeRemoval, InvFinalizeRemovalFails
<1>2. CASE Tick \/ Monitor \/ Restart
  BY <1>2, InvTick, InvMonitor, InvRestart
<1>3. CASE UNCHANGED <<ring, watch, fault, ghosts>>
  BY <1>3 DEF DetectionInv, Places, Watching, Watched, Leaving, OfflineWasReported,
              OnlyStraysOutlive, ring, watch, fault, ghosts
<1> QED
  BY <1>1, <1>2, <1>3 DEF Next, vars

LEMMA InvAlways == Spec => []DetectionInv
BY InvInitially, InvKept, PTL DEF Spec

(* A silent node is offline at the latest one round of the monitor after    *)
(* its timeout, for any timeout and period, and no online node goes         *)
(* unwatched, unless its join failed halfway or a failed removal left its   *)
(* entry in _draining_nodes (manager.py:106-111, 172, 546-563).             *)
THEOREM SilentNodesAreFound == Spec => []SilentNodesFound
<1>1. DetectionInv => SilentNodesFound
  BY DetectionAssumption DEF DetectionInv, Watching, SilentNodesFound, Longest
<1> QED
  BY <1>1, InvAlways, PTL

(* Reads and writes pass over a node that does not drain only if it was     *)
(* reported or came up offline (manager.py:559-563, 615-620).               *)
THEOREM OfflineReported == Spec => []OfflineWasReported
<1>1. DetectionInv => OfflineWasReported
  BY DEF DetectionInv
<1> QED
  BY <1>1, InvAlways, PTL

(* Only strays are watched without being members that stay                  *)
(* (manager.py:149, 283-284, 551-563).                                      *)
THEOREM StraysOnly == Spec => []OnlyStraysOutlive
<1>1. DetectionInv => OnlyStraysOutlive
  BY DEF DetectionInv
<1> QED
  BY <1>1, InvAlways, PTL

-----------------------------------------------------------------------------
(* The history: what is reported, and how it is kept.                       *)

Faults ==
  /\ failed \subseteq Node /\ recorded \subseteq failed
  /\ history \in Seq(Event) /\ Len(history) <= MaxHistory
  /\ finalizers \in [Node -> Nat]

(* A sequence of all the members of a set names each of them.               *)
LEMMA SequenceOfSet ==
  ASSUME NEW S, IsFiniteSet(S), NEW order \in SetToSeqs(S)
  PROVE  /\ order \in Seq(S) /\ Len(order) = Cardinality(S) /\ DOMAIN order = 1 .. Len(order)
         /\ \A x \in S : \E i \in DOMAIN order : order[i] = x
<1>1. Cardinality(S) \in Nat
  BY FS_CardinalityType
<1>2. order \in [1 .. Cardinality(S) -> S]
  BY DEF SetToSeqs
<1>3. order \in Injection(1 .. Cardinality(S), S)
  BY <1>2 DEF SetToSeqs, Injection, IsInjective
<1>4. Cardinality(1 .. Cardinality(S)) = Cardinality(S)
  BY <1>1, FS_Interval
<1>5. order \in Surjection(1 .. Cardinality(S), S)
  BY <1>3, <1>4, FS_Injection
<1> QED
  BY <1>1, <1>2, <1>5 DEF Surjection

(* The history takes a report whole, if it is no longer than the history.   *)
LEMMA HistoryTakesReport ==
  ASSUME history \in Seq(Event), NEW events \in Seq(Event), Len(events) <= MaxHistory
  PROVE  /\ HistoryWith(events) \in Seq(Event) /\ Len(HistoryWith(events)) <= MaxHistory
         /\ \A i \in 1 .. Len(events) :
              \E j \in DOMAIN HistoryWith(events) : HistoryWith(events)[j] = events[i]
<1> DEFINE all == history \o events
           H == Len(history)  E == Len(events)
           kept == SubSeq(all, H + E - MaxHistory + 1, H + E)
<1>1. H \in Nat /\ E \in Nat /\ MaxHistory \in Nat
  BY DetectionAssumption, LenProperties
<1>2. /\ all \in Seq(Event) /\ Len(all) = H + E /\ DOMAIN all = 1 .. H + E
      /\ \A i \in 1 .. E : all[H + i] = events[i]
  <2>1. all \in Seq(Event) /\ Len(all) = H + E
    BY ConcatProperties
  <2>2. \A i \in 1 .. H + E : all[i] = IF i <= H THEN history[i] ELSE events[i - H]
    BY ConcatProperties
  <2>3. \A i \in 1 .. E : all[H + i] = events[i]
    <3> TAKE i \in 1 .. E
    <3>1. H + i \in 1 .. H + E /\ ~(H + i <= H) /\ (H + i) - H = i
      BY <1>1
    <3> QED
      BY <2>2, <3>1
  <2> QED
    BY <2>1, <2>3, LenProperties
<1> HIDE DEF all, H, E
<1>3. CASE H + E <= MaxHistory
  <2>1. HistoryWith(events) = all
    BY <1>1, <1>2, <1>3 DEF HistoryWith, all, H, E
  <2>2. \A i \in 1 .. E : H + i \in DOMAIN all
    BY <1>1, <1>2
  <2> QED
    BY <1>2, <1>3, <2>1, <2>2 DEF E
<1>4. CASE H + E > MaxHistory
  <2>1. HistoryWith(events) = kept
    BY <1>1, <1>2, <1>4 DEF HistoryWith, all
  <2>2. \A i \in (H + E - MaxHistory + 1) .. (H + E) : all[i] \in Event
    BY <1>1, <1>2, <1>4, ElementOfSeq
  <2>3. /\ kept \in Seq(Event)
        /\ Len(kept) = IF H + E - MaxHistory + 1 <= H + E
                       THEN (H + E) - (H + E - MaxHistory + 1) + 1 ELSE 0
        /\ \A i \in 1 .. (H + E) - (H + E - MaxHistory + 1) + 1 :
             kept[i] = all[(H + E - MaxHistory + 1) + i - 1]
    BY <1>1, <2>2, SubSeqProperties
  <2> HIDE DEF kept
  <2>4. Len(kept) = MaxHistory /\ DOMAIN kept = 1 .. MaxHistory
    <3>1. Len(kept) = MaxHistory
      BY <1>1, <2>3
    <3> QED
      BY <2>3, <3>1, LenProperties
  <2>5. \A i \in 1 .. E : MaxHistory - E + i \in DOMAIN kept /\ kept[MaxHistory - E + i] = events[i]
    <3> TAKE i \in 1 .. E
    <3>1. MaxHistory - E + i \in 1 .. MaxHistory
      BY <1>1 DEF E
    <3>2. kept[MaxHistory - E + i] = all[(H + E - MaxHistory + 1) + (MaxHistory - E + i) - 1]
      BY <1>1, <2>3, <3>1
    <3>3. (H + E - MaxHistory + 1) + (MaxHistory - E + i) - 1 = H + i
      BY <1>1
    <3> QED
      BY <1>2, <2>4, <3>1, <3>2, <3>3
  <2>6. \A i \in 1 .. E : \E j \in DOMAIN kept : kept[j] = events[i]
    BY <2>5
  <2>7. Len(kept) <= MaxHistory
    BY <1>1, <2>4
  <2> QED
    BY <2>1, <2>3, <2>6, <2>7 DEF E
<1> QED
  BY <1>1, <1>3, <1>4

LEMMA CountInRange ==
  ASSUME NEW S, S \subseteq Node
  PROVE  IsFiniteSet(S) /\ Cardinality(S) \in 0 .. Cardinality(Node)
BY DetectionAssumption, FS_Subset, FS_CardinalityType

(* What one round of the monitor writes down.                               *)
LEMMA RoundRecorded ==
  ASSUME DetectionInv, Faults, Monitor
  PROVE  /\ history' \in Seq(Event) /\ Len(history') <= MaxHistory
         /\ \A n \in Overdue : \E i \in DOMAIN history' : history'[i].node = n
<1>1. Overdue \subseteq Node
  BY DEF DetectionInv, Watching, Overdue
<1>2. PICK order \in SetToSeqs(Overdue) :
         history' = HistoryWith([i \in DOMAIN order |-> [node |-> order[i], reason |-> "heartbeat"]])
  BY DEF Monitor
<1> DEFINE events == [i \in DOMAIN order |-> [node |-> order[i], reason |-> "heartbeat"]]
<1>3. IsFiniteSet(Overdue) /\ Cardinality(Overdue) \in Nat /\ Cardinality(Overdue) <= MaxHistory
  BY <1>1, CountInRange, DetectionAssumption, FS_CardinalityType
<1>4. /\ order \in Seq(Overdue) /\ Len(order) = Cardinality(Overdue)
      /\ DOMAIN order = 1 .. Len(order)
      /\ \A n \in Overdue : \E i \in DOMAIN order : order[i] = n
  BY <1>3, SequenceOfSet
<1>5. events \in Seq(Event) /\ Len(events) = Len(order)
  <2>1. events \in [1 .. Cardinality(Overdue) -> Event]
    BY <1>1, <1>4 DEF Event
  <2>2. DOMAIN events = 1 .. Cardinality(Overdue)
    BY <1>4
  <2> HIDE DEF events
  <2> QED
    BY <1>3, <1>4, <2>1, <2>2, IsASeq, LenProperties
<1> HIDE DEF events
<1>6. /\ HistoryWith(events) \in Seq(Event) /\ Len(HistoryWith(events)) <= MaxHistory
      /\ \A i \in 1 .. Len(events) :
           \E j \in DOMAIN HistoryWith(events) : HistoryWith(events)[j] = events[i]
  BY <1>3, <1>4, <1>5, HistoryTakesReport DEF Faults
<1>7. \A i \in 1 .. Len(events) : events[i].node = order[i]
  BY <1>4, <1>5 DEF events
<1>8. ASSUME NEW n \in Overdue PROVE \E j \in DOMAIN HistoryWith(events) : HistoryWith(events)[j].node = n
  <2>1. PICK i \in 1 .. Len(events) : order[i] = n
    BY <1>4, <1>5
  <2>2. PICK j \in DOMAIN HistoryWith(events) : HistoryWith(events)[j] = events[i]
    BY <1>6
  <2> QED
    BY <1>7, <2>1, <2>2
<1>9. history' = HistoryWith(events)
  BY <1>2 DEF events
<1> QED
  BY <1>6, <1>8, <1>9

LEMMA TakeoverRecorded ==
  ASSUME Faults, NEW n \in Node, Takeover(n)
  PROVE  /\ history' \in Seq(Event) /\ Len(history') <= MaxHistory
         /\ \E i \in DOMAIN history' : history'[i].node = n
<1> DEFINE event == [node |-> n, reason |-> "takeover"]
<1>1. <<event>> \in Seq(Event) /\ Len(<<event>>) = 1 /\ <<event>>[1] = event /\ event.node = n
  BY DEF Event
<1>2. 1 <= MaxHistory
  <2>1. Node # {} /\ IsFiniteSet(Node)
    BY DetectionAssumption
  <2> QED
    BY <2>1, FS_EmptySet, FS_CardinalityType, DetectionAssumption
<1> HIDE DEF event
<1>3. history' = HistoryWith(<<event>>)
  BY DEF Takeover, event
<1>4. /\ HistoryWith(<<event>>) \in Seq(Event) /\ Len(HistoryWith(<<event>>)) <= MaxHistory
      /\ \A i \in 1 .. Len(<<event>>) :
           \E j \in DOMAIN HistoryWith(<<event>>) : HistoryWith(<<event>>)[j] = <<event>>[i]
  <2> DEFINE events == <<event>>
  <2>1. events \in Seq(Event) /\ Len(events) <= MaxHistory
    BY <1>1, <1>2
  <2> HIDE DEF events
  <2>2. /\ HistoryWith(events) \in Seq(Event) /\ Len(HistoryWith(events)) <= MaxHistory
        /\ \A i \in 1 .. Len(events) :
             \E j \in DOMAIN HistoryWith(events) : HistoryWith(events)[j] = events[i]
    BY <2>1, HistoryTakesReport DEF Faults
  <2> QED
    BY <2>2 DEF events
<1>5. \E j \in DOMAIN HistoryWith(<<event>>) : HistoryWith(<<event>>)[j] = event
  BY <1>1, <1>4
<1> QED
  BY <1>1, <1>3, <1>4, <1>5

LEMMA FaultsInitially == Init => Faults
<1>1. Cardinality(Node) \in Nat
  BY DetectionAssumption, FS_CardinalityType
<1> QED
  BY <1>1, DetectionAssumption DEF Init, Faults

LEMMA FaultsKept == DetectionInv /\ Faults /\ [Next]_vars => Faults'
<1> SUFFICES ASSUME DetectionInv, Faults, [Next]_vars PROVE Faults'
  OBVIOUS
<1>0. Cardinality(Node) \in Nat
  BY DetectionAssumption, FS_CardinalityType
<1>1. ASSUME NEW n \in Node, Takeover(n) PROVE Faults'
  <2>1. UNCHANGED finalizers /\ failed' = failed \union {n} /\ recorded' = recorded \union {n}
    BY <1>1 DEF Takeover, ring
  <2> QED
    BY <1>1, <2>1, TakeoverRecorded DEF Faults
<1>2. ASSUME NEW n \in Node, AddNode(n) PROVE Faults'
  <2>1. UNCHANGED <<fault, finalizers>>
    BY <1>2 DEF AddNode
  <2> QED
    BY <2>1, CountInRange DEF Faults, fault, DetectionInv, Places
<1>3. ASSUME NEW n \in Node, RemoveNode(n) PROVE Faults'
  <2>1. /\ UNCHANGED fault
        /\ finalizers' = [finalizers EXCEPT ![n] = @ + 1]
    BY <1>3 DEF RemoveNode
  <2> QED
    BY <2>1, CountInRange DEF Faults, fault, DetectionInv, Places
<1>4. ASSUME NEW n \in Node, LeaveRing(n) PROVE Faults'
  BY <1>4 DEF LeaveRing, Faults, fault
<1>5. CASE Monitor
  <2>1. UNCHANGED <<finalizers, recorded>> /\ failed' = failed \union Overdue
    BY <1>5 DEF Monitor
  <2>2. Overdue \subseteq Node
    BY DEF DetectionInv, Watching, Overdue
  <2> QED
    BY <1>5, <2>1, <2>2, RoundRecorded DEF Faults
<1>6. CASE Restart
  <2>1. /\ failed' = {} /\ recorded' = {} /\ history' = <<>>
        /\ finalizers' = [n \in Node |-> 0]
    BY <1>6 DEF Restart
  <2> QED
    BY <2>1, CountInRange, DetectionAssumption DEF Faults, DetectionInv, Places
<1>7. CASE UNCHANGED <<finalizers, fault>>
  BY <1>7 DEF Faults, fault
<1> QED
  BY <1>1, <1>2, <1>3, <1>4, <1>5, <1>6, <1>7
  DEF Next, Tick, Heartbeat, AddNodeHalfway, FinalizeRemoval, FinalizeRemovalFails, vars, ring

LEMMA FaultsAlways == Spec => [](DetectionInv /\ Faults)
BY InvInitially, InvKept, FaultsInitially, FaultsKept, PTL DEF Spec

(* The variables have their types, and the history its length, for any      *)
(* number of nodes and failures.                                            *)
THEOREM DetectionTypes == Spec => []TypeOK
<1>1. DetectionInv /\ Faults => TypeOK
  BY DEF DetectionInv, Places, Watching, Faults, TypeOK
<1> QED
  BY <1>1, FaultsAlways, PTL

(* A failure is on record at the moment it is reported, if the history has  *)
(* room for one event of each node (fault_tolerance/manager.py:141-158,     *)
(* 242-245).                                                                *)
THEOREM FailuresOnRecord == Spec => NewFailureOnRecord
<1> DEFINE OnRecord == \A n \in failed' \ failed : \E i \in DOMAIN history' : history'[i].node = n
<1>1. ASSUME DetectionInv, Faults, [Next]_vars PROVE OnRecord
  <2>1. CASE Monitor
    <3>1. failed' = failed \union Overdue
      BY <2>1 DEF Monitor
    <3> QED
      BY <1>1, <2>1, <3>1, RoundRecorded
  <2>2. ASSUME NEW n \in Node, Takeover(n) PROVE OnRecord
    <3>1. failed' = failed \union {n}
      BY <2>2 DEF Takeover
    <3> QED
      BY <1>1, <2>2, <3>1, TakeoverRecorded
  <2>3. CASE failed' \subseteq failed
    BY <2>3
  <2> QED
    BY <1>1, <2>1, <2>2, <2>3
    DEF Next, Tick, Heartbeat, AddNode, AddNodeHalfway, RemoveNode, FinalizeRemoval,
        FinalizeRemovalFails, LeaveRing, Restart, vars, fault
<1>2. DetectionInv /\ Faults /\ [Next]_vars => [OnRecord]_vars
  BY <1>1
<1> QED
  BY <1>2, FaultsAlways, PTL DEF Spec, NewFailureOnRecord
=============================================================================
