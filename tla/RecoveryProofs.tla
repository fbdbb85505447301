---------------------------- MODULE RecoveryProofs ----------------------------
(***************************************************************************)
(* Proofs about Recovery, for any nodes and migrations, any ids that share *)
(* a file name, and any number of joins and removals, failed halfway or    *)
(* not, failures of the store and ends of the process, between the calls of*)
(* a handler or within one.                                                *)
(***************************************************************************)
EXTENDS Recovery, FiniteSetTheorems, SequenceTheorems, TLAPS

Value == {None, Torn, "pending", "ended"} \union Node \union RingRecord

(* The calls that handlers and tasks make.                                  *)
Call ==
  {PutCall(Topology, t) : t \in RingRecord}
    \union {PutCall(NodeKey(n), n) : n \in Node}
    \union {DeleteCall(NodeKey(n)) : n \in Node}
    \union {PutCall(MigrationKey(m), "pending") : m \in Migration}
    \union {PutCall(k, "ended") : k \in TaskKeys}

StoreTypes ==
  /\ backend \in {"leveldb", "json"} /\ faults \in Nat
  /\ \E name \in [Node -> Node] : file = FilesOf(name)
  /\ ldb \in [Record -> Value] /\ json \in [Record -> Value]
  /\ last \in [Record -> Value \ {Torn}]
  /\ home \in [Record -> SUBSET {"leveldb", "json"}]
  /\ ldb[Topology] \in RingRecord \union {None}
  /\ json[Topology] \in RingRecord \union {None, Torn}

ServerTypes ==
  /\ plyvel \in BOOLEAN /\ alive \in BOOLEAN
  /\ up \union halfway \subseteq members /\ members \subseteq Node
  /\ active \subseteq TaskKeys /\ cut \subseteq TaskKeys
  /\ script \in Seq(Call)
  /\ ~alive => script = <<>> /\ active = {}

(* Whichever of the two is said to have the last write of a record has it.  *)
HomeHasLast ==
  \A k \in Record :
    /\ "leveldb" \in home[k] => ldb[k] = last[k]
    /\ "json" \in home[k] => json[file[k]] = last[k]

(* While no call has failed, the open one has it, unless it is in a file    *)
(* that was cut short or is shared.                                         *)
OpenHasLast ==
  faults = 0 => \A k \in Record :
    Kept(k) \/ (backend = "json" /\ (FallbackGet(k) = Torn \/ SharesFile(k)))

-----------------------------------------------------------------------------
(* The five kinds of calls and their keys.                                  *)
LEMMA CallFields ==
  ASSUME NEW c \in Call
  PROVE  /\ c.key \in Record /\ c.value \in Value \ {Torn}
         /\ c.op = "put" \/ (c.op = "delete" /\ c.value = None)
         /\ c.key = Topology => c.op = "put" /\ c.value \in RingRecord
         /\ c.key \in TaskKeys =>
              /\ c.op = "put"
              /\ c.value = "ended" \/ (c.value = "pending" /\ \E m \in Migration : c.key = MigrationKey(m))
<1>1. /\ None # Torn /\ Torn \notin Node /\ Torn \notin RingRecord
      /\ Torn # "pending" /\ Torn # "ended"
  BY RecoveryAssumption
<1>2. CASE \E t \in RingRecord : c = PutCall(Topology, t)
  BY <1>1, <1>2 DEF PutCall, Record, TaskKeys, DrainKey, MigrationKey, Topology, Value
<1>3. CASE \E n \in Node : c = PutCall(NodeKey(n), n) \/ c = DeleteCall(NodeKey(n))
  BY <1>1, <1>3
     DEF PutCall, DeleteCall, Record, TaskKeys, NodeKey, DrainKey, MigrationKey, Topology, Value
<1>4. CASE \E m \in Migration : c = PutCall(MigrationKey(m), "pending")
  BY <1>1, <1>4 DEF PutCall, Record, TaskKeys, MigrationKey, Topology, Value
<1>5. CASE \E k \in TaskKeys : c = PutCall(k, "ended")
  BY <1>1, <1>5 DEF PutCall, Record, TaskKeys, DrainKey, MigrationKey, Topology, Value
<1> QED
  BY <1>2, <1>3, <1>4, <1>5 DEF Call

MigrationKeys == {MigrationKey(m) : m \in Migration}

(* The keys of the records are told apart by their prefixes.                *)
LEMMA KeysDiffer ==
  /\ MigrationKeys \subseteq TaskKeys /\ Topology \notin TaskKeys /\ TaskKeys \subseteq Record
  /\ Topology \in Record
  /\ \A n \in Node : /\ NodeKey(n) # Topology /\ NodeKey(n) \notin TaskKeys
                     /\ DrainKey(n) \in TaskKeys /\ DrainKey(n) \notin MigrationKeys
  /\ \A m \in Migration : MigrationKey(m) \in MigrationKeys
  /\ \A k \in TaskKeys : k \in MigrationKeys <=> k[1] = "migration"
BY DEF MigrationKeys, TaskKeys, Record, Topology, NodeKey, DrainKey, MigrationKey

(* Every record has a file, and the topology one of its own.                *)
LEMMA FilesTyped ==
  ASSUME NEW name \in [Node -> Node]
  PROVE  /\ FilesOf(name) \in [Record -> Record]
         /\ FilesOf(name)[Topology] = Topology
         /\ \A k \in Record \ {Topology} : FilesOf(name)[k] # Topology
<1> DEFINE F(k) == IF k[1] \in {"node", "drain"} THEN <<k[1], name[k[2]]>> ELSE k
<1>1. F(Topology) = Topology /\ Topology \in Record
  BY KeysDiffer DEF Topology
<1>2. ASSUME NEW n \in Node
      PROVE  /\ F(NodeKey(n)) = NodeKey(name[n]) /\ F(DrainKey(n)) = DrainKey(name[n])
             /\ {F(NodeKey(n)), F(DrainKey(n))} \subseteq Record \ {Topology}
  <2>1. name[n] \in Node
    OBVIOUS
  <2>2. F(NodeKey(n)) = NodeKey(name[n]) /\ F(DrainKey(n)) = DrainKey(name[n])
    BY DEF NodeKey, DrainKey
  <2>3. {NodeKey(name[n]), DrainKey(name[n])} \subseteq Record \ {Topology}
    BY <2>1, KeysDiffer DEF Record
  <2> QED
    BY <2>2, <2>3
<1>3. ASSUME NEW m \in Migration PROVE F(MigrationKey(m)) = MigrationKey(m)
  BY DEF MigrationKey
<1>4. \A m \in Migration : MigrationKey(m) \in Record \ {Topology}
  BY KeysDiffer
<1>5. ASSUME NEW k \in Record PROVE F(k) \in Record /\ (k # Topology => F(k) # Topology)
  <2>1. \/ k = Topology \/ \E n \in Node : k = NodeKey(n) \/ k = DrainKey(n)
        \/ \E m \in Migration : k = MigrationKey(m)
    BY DEF Record, TaskKeys
  <2> HIDE DEF F
  <2> QED
    BY <1>1, <1>2, <1>3, <1>4, <2>1
<1>6. FilesOf(name) = [k \in Record |-> F(k)]
  BY DEF FilesOf
<1> HIDE DEF F
<1> QED
  BY <1>1, <1>5, <1>6

LEMMA TopologyFile ==
  ASSUME StoreTypes
  PROVE  /\ file \in [Record -> Record] /\ file[Topology] = Topology
         /\ \A k \in Record \ {Topology} : file[k] # Topology
         /\ FallbackGet(Topology) = json[Topology]
         /\ Get(Topology) = IF backend = "leveldb" THEN ldb[Topology] ELSE json[Topology]
BY FilesTyped DEF StoreTypes, FallbackGet, Get

(* What a call does to the store: it tells what was written last, and if no *)
(* call ever failed the open one of the two takes it.                       *)
LEMMA Called ==
  ASSUME StoreTypes, NEW c \in Call,
         IF c.op = "put" THEN Put(c.key, c.value) ELSE Delete(c.key)
  PROVE  /\ StoreTypes' /\ backend' = backend
         /\ last' = [last EXCEPT ![c.key] = c.value]
         /\ HomeHasLast => HomeHasLast'
         /\ OpenHasLast => OpenHasLast'
         /\ \A k \in Record \ {c.key} : ldb'[k] = ldb[k]
         /\ c.key # Topology => Get(Topology)' = Get(Topology)
         /\ faults' = 0 =>
              /\ faults = 0 /\ Get(c.key)' = c.value
              /\ backend = "leveldb" => ldb'[c.key] = c.value
<1> USE DEF StoreTypes
<1>1. /\ c.key \in Record /\ c.value \in Value \ {Torn}
      /\ c.op = "put" \/ (c.op = "delete" /\ c.value = None)
      /\ c.key = Topology => c.op = "put" /\ c.value \in RingRecord
  BY CallFields
<1>2. Topology \in Record /\ Torn \in Value /\ None \in Value
  BY KeysDiffer DEF Value
<1>3. /\ file \in [Record -> Record] /\ file[Topology] = Topology
      /\ \A k \in Record \ {Topology} : file[k] # Topology
  BY TopologyFile
<1> DEFINE Others(where) == [j \in Record |-> IF j = c.key THEN where
                               ELSE IF file[j] = file[c.key] THEN home[j] \ {"json"} ELSE home[j]]
<1>4. \/ /\ ldb' = [ldb EXCEPT ![c.key] = c.value] /\ json' = json
         /\ backend = "leveldb" /\ home' = [home EXCEPT ![c.key] = {"leveldb"}] /\ faults' = faults
      \/ /\ json' = [json EXCEPT ![file[c.key]] = c.value] /\ ldb' = ldb
         /\ home' = Others({"json"})
         /\ \/ backend = "json" /\ faults' = faults
            \/ faults' = faults + 1
      \/ /\ json' = json /\ ldb' = ldb /\ faults' = faults + 1
         /\ home' = [home EXCEPT ![c.key] = {}]
      \/ /\ json' = [json EXCEPT ![file[c.key]] = Torn] /\ c.op = "put" /\ ldb' = ldb
         /\ faults' = faults + 1 /\ home' = Others({})
  <2>1. CASE c.op = "put"
    BY <2>1 DEF Put, FallbackPut, FallbackFails, Wrote, WroteFile, Fails, Works
  <2>2. CASE c.op = "delete"
    BY <1>1, <2>2 DEF Delete, FallbackDelete, Wrote, WroteFile, Fails, Works
  <2> QED
    BY <1>1, <2>1, <2>2
<1>5. /\ backend' = backend /\ file' = file /\ last' = [last EXCEPT ![c.key] = c.value]
      /\ faults' \in Nat
  <2>1. backend' = backend /\ file' = file /\ last' = [last EXCEPT ![c.key] = c.value]
    BY <1>1 DEF Put, Delete, FallbackPut, FallbackFails, FallbackDelete, Wrote, WroteFile
  <2> QED
    BY <1>4, <2>1
<1>6. /\ Others({"json"}) \in [Record -> SUBSET {"leveldb", "json"}]
      /\ Others({}) \in [Record -> SUBSET {"leveldb", "json"}]
  OBVIOUS
<1>7. /\ home' \in [Record -> SUBSET {"leveldb", "json"}]
      /\ ldb' \in [Record -> Value] /\ json' \in [Record -> Value]
      /\ last' \in [Record -> Value \ {Torn}]
  BY <1>1, <1>2, <1>3, <1>4, <1>5, <1>6
<1>8. /\ ldb'[Topology] \in RingRecord \union {None}
      /\ json'[Topology] \in RingRecord \union {None, Torn}
  BY <1>1, <1>2, <1>3, <1>4
<1>9. StoreTypes'
  BY <1>5, <1>7, <1>8
<1>10. ASSUME HomeHasLast PROVE HomeHasLast'
  <2> SUFFICES ASSUME NEW k \in Record
               PROVE  /\ "leveldb" \in home'[k] => ldb'[k] = last'[k]
                      /\ "json" \in home'[k] => json'[file[k]] = last'[k]
    BY <1>5 DEF HomeHasLast
  <2>1. /\ "leveldb" \in home[k] => ldb[k] = last[k]
        /\ "json" \in home[k] => json[file[k]] = last[k]
    BY <1>10 DEF HomeHasLast
  <2>2. CASE k = c.key
    BY <1>1, <1>3, <1>4, <1>5, <2>2
  <2>3. CASE k # c.key
    BY <1>1, <1>3, <1>4, <1>5, <2>1, <2>3
  <2> QED
    BY <2>2, <2>3
<1>11. ASSUME OpenHasLast PROVE OpenHasLast'
  <2> SUFFICES ASSUME faults' = 0, NEW k \in Record
               PROVE  backend \in home'[k] \/ (backend = "json" /\ (json'[file[k]] = Torn \/ SharesFile(k)))
    BY <1>5 DEF OpenHasLast, Kept, SharesFile, FallbackGet
  <2>1. /\ faults = 0
        /\ backend \in home[k] \/ (backend = "json" /\ (json[file[k]] = Torn \/ SharesFile(k)))
    BY <1>4, <1>11 DEF OpenHasLast, Kept, FallbackGet
  <2>2. CASE ldb' = [ldb EXCEPT ![c.key] = c.value] /\ json' = json /\ backend = "leveldb"
             /\ home' = [home EXCEPT ![c.key] = {"leveldb"}]
    BY <1>1, <2>1, <2>2
  <2>3. CASE json' = [json EXCEPT ![file[c.key]] = c.value] /\ home' = Others({"json"}) /\ backend = "json"
    <3>1. CASE k = c.key
      BY <1>1, <2>3, <3>1
    <3>2. CASE k # c.key /\ file[k] = file[c.key]
      BY <1>1, <2>3, <3>2 DEF SharesFile
    <3>3. CASE k # c.key /\ file[k] # file[c.key]
      BY <1>1, <1>3, <2>1, <2>3, <3>3
    <3> QED
      BY <3>1, <3>2, <3>3
  <2> QED
    BY <1>4, <2>1, <2>2, <2>3
<1>12. \A k \in Record \ {c.key} : ldb'[k] = ldb[k]
  BY <1>4
<1>13. c.key # Topology => Get(Topology)' = Get(Topology)
  BY <1>1, <1>2, <1>3, <1>4, <1>5 DEF Get, FallbackGet
<1>14. ASSUME faults' = 0
       PROVE  /\ faults = 0 /\ Get(c.key)' = c.value
              /\ backend = "leveldb" => ldb'[c.key] = c.value
  <2>1. \/ /\ ldb' = [ldb EXCEPT ![c.key] = c.value] /\ backend = "leveldb" /\ faults = 0
        \/ /\ json' = [json EXCEPT ![file[c.key]] = c.value] /\ backend = "json" /\ faults = 0
    BY <1>4, <1>14
  <2> QED
    BY <1>1, <1>3, <1>5, <2>1 DEF Get, FallbackGet
<1> QED
  BY <1>5, <1>9, <1>10, <1>11, <1>12, <1>13, <1>14

(* The records of the migrations of a join, in some order.                  *)
LEMMA PendingCallsTyped ==
  ASSUME NEW ms \in SUBSET Migration
  PROVE  /\ PendingCalls(ms) \in Seq(Call)
         /\ \A i \in DOMAIN PendingCalls(ms) :
              \E m \in ms : PendingCalls(ms)[i] = PutCall(MigrationKey(m), "pending")
<1> DEFINE order == SetToSeq(ms)
<1>1. IsFiniteSet(ms)
  BY RecoveryAssumption, FS_Subset
<1>2. Cardinality(ms) \in Nat /\ \E f \in [1 .. Cardinality(ms) -> ms] : IsInjective(f)
  <2>1. Cardinality(ms) \in Nat /\ ExistsBijection(1 .. Cardinality(ms), ms)
    BY <1>1, FS_CardinalityType
  <2> QED
    BY <2>1 DEF ExistsBijection, Bijection, Injection, IsInjective
<1>3. order \in [1 .. Cardinality(ms) -> ms]
  BY <1>2 DEF SetToSeq
<1> HIDE DEF order
<1>4. PendingCalls(ms) = [i \in 1 .. Cardinality(ms) |-> PutCall(MigrationKey(order[i]), "pending")]
  BY <1>3 DEF PendingCalls, order
<1>5. \A m \in ms : PutCall(MigrationKey(m), "pending") \in Call
  BY DEF Call
<1> QED
  BY <1>2, <1>3, <1>4, <1>5

CallsOfJoin(n, t, ms) == <<PutCall(NodeKey(n), n), PutCall(Topology, t)>> \o PendingCalls(ms)

(* The calls of a join: the node, the topology, its migrations.             *)
LEMMA JoinCalls ==
  ASSUME NEW n \in Node, NEW t \in RingRecord, NEW ms \in SUBSET Migration
  PROVE  /\ CallsOfJoin(n, t, ms) \in Seq(Call) /\ 2 \in DOMAIN CallsOfJoin(n, t, ms)
         /\ CallsOfJoin(n, t, ms)[2] = PutCall(Topology, t)
         /\ \A i \in DOMAIN CallsOfJoin(n, t, ms) :
              \/ CallsOfJoin(n, t, ms)[i] = PutCall(NodeKey(n), n)
              \/ CallsOfJoin(n, t, ms)[i] = PutCall(Topology, t)
              \/ \E m \in ms : CallsOfJoin(n, t, ms)[i] = PutCall(MigrationKey(m), "pending")
<1> DEFINE calls == CallsOfJoin(n, t, ms)
           head  == <<PutCall(NodeKey(n), n), PutCall(Topology, t)>>
           rest  == PendingCalls(ms)
<1>1. PutCall(NodeKey(n), n) \in Call /\ PutCall(Topology, t) \in Call
  BY DEF Call
<1>2. head \in Seq(Call) /\ Len(head) = 2 /\ head[1] = PutCall(NodeKey(n), n)
      /\ head[2] = PutCall(Topology, t)
  BY <1>1
<1>3. rest \in Seq(Call)
      /\ \A i \in DOMAIN rest : \E m \in ms : rest[i] = PutCall(MigrationKey(m), "pending")
  BY PendingCallsTyped
<1> HIDE DEF calls, head, rest
<1>4. calls = head \o rest
  BY DEF calls, head, rest, CallsOfJoin
<1>5. /\ calls \in Seq(Call) /\ Len(calls) = 2 + Len(rest) /\ DOMAIN calls = 1 .. 2 + Len(rest)
      /\ \A i \in 1 .. 2 + Len(rest) :
           calls[i] = IF i <= 2 THEN head[i] ELSE rest[i - 2]
  <2>1. /\ head \o rest \in Seq(Call) /\ Len(head \o rest) = Len(head) + Len(rest)
        /\ \A i \in 1 .. Len(head) + Len(rest) :
             (head \o rest)[i] = IF i <= Len(head) THEN head[i] ELSE rest[i - Len(head)]
    BY <1>2, <1>3, ConcatProperties
  <2>2. DOMAIN (head \o rest) = 1 .. Len(head \o rest)
    BY <2>1
  <2> QED
    BY <1>2, <1>4, <2>1, <2>2
<1>6. Len(rest) \in Nat /\ DOMAIN rest = 1 .. Len(rest)
  BY <1>3
<1>7. ASSUME NEW i \in DOMAIN calls
      PROVE  \/ calls[i] = PutCall(NodeKey(n), n)
             \/ calls[i] = PutCall(Topology, t)
             \/ \E m \in ms : calls[i] = PutCall(MigrationKey(m), "pending")
  <2>1. CASE i <= 2
    <3>1. i = 1 \/ i = 2
      BY <1>5, <1>6, <2>1
    <3> QED
      BY <1>2, <1>5, <2>1, <3>1
  <2>2. CASE ~(i <= 2)
    <3>1. i - 2 \in DOMAIN rest
      BY <1>5, <1>6, <2>2
    <3> QED
      BY <1>3, <1>5, <2>2, <3>1
  <2> QED
    BY <2>1, <2>2
<1> QED
  BY <1>2, <1>5, <1>6, <1>7 DEF calls

-----------------------------------------------------------------------------
RingNow == [members |-> members, up |-> up, halfway |-> halfway]

(* While no call has failed, the last topology is written, or is about to   *)
(* be, and it says what the ring is, but for what failed halfway since.     *)
Matches ==
  LET topology == TopologyIn(Get(Topology))
  IN  /\ members \ unrecorded = topology.members \ unrecorded
      /\ halfway \ unrecorded = topology.halfway \ unrecorded
      /\ up \subseteq topology.up \union topology.halfway \union unrecorded

RingWritten ==
  faults = 0 =>
    /\ backend = Usual
    /\ \A i \in DOMAIN script : script[i].key = Topology =>
         script[i] = PutCall(Topology, RingNow)
    /\ alive /\ (\A i \in DOMAIN script : script[i].key # Topology) => Matches

(* A migration that is active or was cut short has had a record, so that no *)
(* other has its id; while no call has failed, that record says pending.    *)
MigrationsRecorded ==
  /\ \A k \in MigrationKeys : k \in active \union cut => last[k] # None
  /\ \A k \in MigrationKeys : ~(k \in active /\ k \in cut)
  /\ \A i \in DOMAIN script : script[i].key \in MigrationKeys => script[i].key \notin cut
  /\ faults = 0 /\ plyvel => \A k \in TaskKeys :
       ldb[k] = "pending" <=> k \in MigrationKeys /\ k \in active \union cut

RecoveryInv ==
  StoreTypes /\ ServerTypes /\ HomeHasLast /\ OpenHasLast /\ RingWritten /\ MigrationsRecorded

LEMMA InvInitially == Init => RecoveryInv
<1> SUFFICES ASSUME Init PROVE RecoveryInv
  OBVIOUS
<1>0. /\ file \in [Record -> Record] /\ (\E name \in [Node -> Node] : file = FilesOf(name))
      /\ Topology \in Record
  BY RecoveryAssumption, FilesTyped, KeysDiffer DEF Init
<1>1. StoreTypes /\ HomeHasLast /\ OpenHasLast
  BY <1>0, RecoveryAssumption
  DEF Init, StoreInit, Usual, StoreTypes, HomeHasLast, OpenHasLast, Kept, Value
<1>2. ServerTypes
  <2>1. <<>> \in Seq(Call)
    BY EmptySeq
  <2> QED
    BY <2>1 DEF Init, ServerTypes
<1>3. RingWritten
  BY DEF Init, RingWritten
<1>4. MigrationsRecorded
  <2>1. \A k \in TaskKeys : ldb[k] = None
    BY KeysDiffer DEF Init, StoreInit
  <2> QED
    BY <2>1, RecoveryAssumption DEF Init, MigrationsRecorded
<1> QED
  BY <1>1, <1>2, <1>3, <1>4 DEF RecoveryInv

(* What every handler has in common: it starts with nothing left to call    *)
(* and leaves the store to its calls.                                       *)
LEMMA HandlerKeeps ==
  ASSUME RecoveryInv, NEW calls, Begin(calls), calls \in Seq(Call),
         up' \union halfway' \subseteq members', members' \subseteq Node, active' \subseteq TaskKeys,
         \A k \in MigrationKeys : k \in active' <=> k \in active,
         \A i \in DOMAIN calls : calls[i].key = Topology => calls[i] = PutCall(Topology, RingNow'),
         \/ \E i \in DOMAIN calls : calls[i].key = Topology
         \/ Matches => Matches',
         \A i \in DOMAIN calls : calls[i].key \in MigrationKeys => calls[i].key \notin cut
  PROVE  RecoveryInv'
<1> USE DEF RecoveryInv
<1>1. /\ alive /\ script = <<>> /\ script' = calls
      /\ UNCHANGED <<backend, file, ldb, json, last, home, faults, plyvel, alive, cut>>
  BY DEF Begin, Ready, store
<1>2. StoreTypes' /\ HomeHasLast' /\ OpenHasLast'
  BY <1>1 DEF StoreTypes, HomeHasLast, OpenHasLast, Kept, SharesFile, FallbackGet
<1>3. ServerTypes'
  BY <1>1 DEF ServerTypes
<1>4. RingWritten'
  <2>1. Usual' = Usual
    BY <1>1 DEF Usual
  <2>2. faults = 0 => Matches
    BY <1>1 DEF RingWritten
  <2> QED
    BY <1>1, <2>1, <2>2 DEF RingWritten
<1>5. MigrationsRecorded'
  BY <1>1 DEF MigrationsRecorded
<1> QED
  BY <1>2, <1>3, <1>4, <1>5

LEMMA TopologyUnread ==
  ASSUME NEW calls, Begin(calls)
  PROVE  UNCHANGED <<Get(Topology), last>>
BY DEF Begin, store, Get, FallbackGet

LEMMA RingTyped ==
  ASSUME RecoveryInv
  PROVE  /\ up \union halfway \subseteq members /\ members \subseteq Node /\ active \subseteq TaskKeys
         /\ RingNow \in RingRecord
BY DEF RecoveryInv, ServerTypes, RingRecord, RingNow

LEMMA JoinKeeps ==
  ASSUME RecoveryInv, NEW n \in Node, AddNode(n)
  PROVE  RecoveryInv'
<1>0. up \union halfway \subseteq members /\ members \subseteq Node /\ active \subseteq TaskKeys
  BY RingTyped
<1>1. /\ up' \union halfway' \subseteq members' /\ members' \subseteq Node /\ RingNow' \in RingRecord
      /\ active' = active
  BY <1>0 DEF AddNode, JoinRing, RingRecord, RingNow
<1>2. PICK ms \in SUBSET NewMigrations :
        Begin(<<PutCall(NodeKey(n), n), PersistTopology>> \o PendingCalls(ms))
  BY DEF AddNode
<1>3. PICK t \in RingRecord : t = RingNow'
  BY <1>1
<1> DEFINE calls == CallsOfJoin(n, t, ms)
<1>4. Begin(calls)
  BY <1>2, <1>3 DEF PersistTopology, CallsOfJoin, RingNow
<1>5. ms \in SUBSET Migration
  BY DEF NewMigrations
<1>6. /\ calls \in Seq(Call) /\ 2 \in DOMAIN calls /\ calls[2] = PutCall(Topology, t)
      /\ \A i \in DOMAIN calls :
           \/ calls[i] = PutCall(NodeKey(n), n)
           \/ calls[i] = PutCall(Topology, t)
           \/ \E m \in ms : calls[i] = PutCall(MigrationKey(m), "pending")
  BY <1>5, JoinCalls
<1> HIDE DEF calls
<1>7. \A m \in ms : MigrationKey(m) \notin cut /\ MigrationKey(m) # Topology
  BY KeysDiffer DEF RecoveryInv, MigrationsRecorded, NewMigrations
<1>8. /\ \A i \in DOMAIN calls : calls[i].key = Topology => calls[i] = PutCall(Topology, t)
      /\ \A i \in DOMAIN calls : calls[i].key \in MigrationKeys => calls[i].key \notin cut
      /\ \E i \in DOMAIN calls : calls[i].key = Topology
  BY <1>6, <1>7, KeysDiffer DEF PutCall
<1> QED
  BY <1>0, <1>1, <1>3, <1>4, <1>6, <1>8, HandlerKeeps

LEMMA RebalanceKeeps ==
  ASSUME RecoveryInv, Rebalance
  PROVE  RecoveryInv'
<1>1. PICK ms \in SUBSET NewMigrations : Begin(PendingCalls(ms))
  BY DEF Rebalance
<1>2. UNCHANGED <<members, up, halfway, active, unrecorded>>
  BY DEF Rebalance, memory, ring
<1>3. ms \in SUBSET Migration
  BY DEF NewMigrations
<1> DEFINE calls == PendingCalls(ms)
<1>4. /\ calls \in Seq(Call)
      /\ \A i \in DOMAIN calls : \E m \in ms : calls[i] = PutCall(MigrationKey(m), "pending")
  BY <1>3, PendingCallsTyped
<1>5. \A m \in ms : MigrationKey(m) \notin cut /\ MigrationKey(m) # Topology
  BY KeysDiffer DEF RecoveryInv, MigrationsRecorded, NewMigrations
<1>6. \A i \in DOMAIN calls : calls[i].key # Topology /\ calls[i].key \notin cut
  BY <1>4, <1>5 DEF PutCall
<1>7. Begin(calls)
  BY <1>1
<1> HIDE DEF calls
<1>8. Matches => Matches'
  BY <1>2, <1>7, TopologyUnread DEF Matches, TopologyIn
<1> QED
  BY <1>2, <1>4, <1>6, <1>7, <1>8, RingTyped, HandlerKeeps

LEMMA LeaveKeeps ==
  ASSUME RecoveryInv, NEW n \in Node, RemoveNode(n) \/ FinalizeRemoval(n)
  PROVE  RecoveryInv'
<1>0. up \union halfway \subseteq members /\ members \subseteq Node /\ active \subseteq TaskKeys
  BY RingTyped
<1>1. CASE RemoveNode(n)
  <2> DEFINE calls == <<DeleteCall(NodeKey(n)), PutCall(Topology, RingNow')>>
  <2>1. Begin(calls)
    BY <1>1 DEF RemoveNode, RemovalCalls, PersistTopology, RingNow
  <2>2. /\ up' \union halfway' \subseteq members' /\ members' \subseteq Node /\ RingNow' \in RingRecord
        /\ active' \subseteq TaskKeys /\ \A k \in MigrationKeys : k \in active' <=> k \in active
    BY <1>0, <1>1, KeysDiffer DEF RemoveNode, RingRecord, RingNow
  <2>3. DeleteCall(NodeKey(n)) \in Call /\ PutCall(Topology, RingNow') \in Call
    BY <2>2 DEF Call
  <2>4. /\ calls \in Seq(Call) /\ DOMAIN calls = {1, 2}
        /\ calls[1].key = NodeKey(n) /\ calls[2] = PutCall(Topology, RingNow')
        /\ calls[2].key = Topology
    BY <2>3 DEF DeleteCall, PutCall
  <2> HIDE DEF calls
  <2> QED
    BY <2>1, <2>2, <2>4, HandlerKeeps, KeysDiffer
<1>2. CASE FinalizeRemoval(n)
  <2> DEFINE calls == <<PutCall(Topology, RingNow')>>
  <2>1. Begin(calls)
    BY <1>2 DEF FinalizeRemoval, PersistTopology, RingNow
  <2>2. /\ up' \union halfway' \subseteq members' /\ members' \subseteq Node /\ RingNow' \in RingRecord
        /\ active' = active
    BY <1>0, <1>2 DEF FinalizeRemoval, LeaveRing, RingRecord, RingNow
  <2>3. PutCall(Topology, RingNow') \in Call
    BY <2>2 DEF Call
  <2>4. /\ calls \in Seq(Call) /\ DOMAIN calls = {1}
        /\ calls[1] = PutCall(Topology, RingNow') /\ calls[1].key = Topology
    BY <2>3 DEF PutCall
  <2> HIDE DEF calls
  <2> QED
    BY <1>0, <2>1, <2>2, <2>4, HandlerKeeps, KeysDiffer
<1> QED
  BY <1>1, <1>2

(* Steps that tell the store nothing: a join or a removal that fails        *)
(* halfway marks its node, and the monitor takes nodes off up only.         *)
LEMMA SilentStepsKeep ==
  ASSUME RecoveryInv, NEW n \in Node, AddNodeHalfway(n) \/ FinalizeRemovalFails(n) \/ FailNode(n)
  PROVE  RecoveryInv'
<1>0. up \union halfway \subseteq members /\ members \subseteq Node /\ active \subseteq TaskKeys
  BY RingTyped
<1>1. /\ Begin(<<>>) /\ active' = active
      /\ up' \union halfway' \subseteq members' /\ members' \subseteq Node
      /\ \/ /\ members' = members /\ halfway' = halfway /\ unrecorded' = unrecorded
            /\ up' \subseteq up
         \/ /\ members' \ {n} = members \ {n} /\ halfway' \ {n} = halfway \ {n}
            /\ up' \ {n} = up \ {n} /\ unrecorded' = unrecorded \union {n}
  BY <1>0 DEF AddNodeHalfway, FinalizeRemovalFails, LeaveRing, FailNode
<1>2. Matches => Matches'
  <2>1. TopologyIn(Get(Topology))' = TopologyIn(Get(Topology))
    BY <1>1, TopologyUnread DEF TopologyIn
  <2> QED
    BY <1>1, <2>1 DEF Matches
<1>3. <<>> \in Seq(Call) /\ DOMAIN <<>> = {}
  BY EmptySeq
<1> QED
  BY <1>0, <1>1, <1>2, <1>3, HandlerKeeps

LEMMA EndMigrationKeeps ==
  ASSUME RecoveryInv, NEW m \in active, EndMigration(m)
  PROVE  RecoveryInv'
<1> DEFINE calls == <<PutCall(m, "ended")>>
<1>1. up \union halfway \subseteq members /\ members \subseteq Node /\ active \subseteq TaskKeys
  BY RingTyped
<1>2. Begin(calls) /\ UNCHANGED <<members, up, halfway, active, unrecorded>>
  BY DEF EndMigration, memory, ring
<1>3. PutCall(m, "ended") \in Call
  BY <1>1 DEF Call
<1>4. calls \in Seq(Call) /\ DOMAIN calls = {1} /\ calls[1].key = m
  BY <1>3 DEF PutCall
<1>5. m \in MigrationKeys => m \notin cut
  BY DEF RecoveryInv, MigrationsRecorded
<1> HIDE DEF calls
<1>6. Matches => Matches'
  BY <1>2, TopologyUnread DEF Matches, TopologyIn
<1> QED
  BY <1>1, <1>2, <1>4, <1>5, <1>6, HandlerKeeps, KeysDiffer

(* The call at the head of the script is made.                              *)
LEMMA CallStoreKeeps ==
  ASSUME RecoveryInv, CallStore
  PROVE  RecoveryInv'
<1>2. /\ StoreTypes /\ ServerTypes /\ HomeHasLast /\ OpenHasLast /\ RingWritten /\ MigrationsRecorded
  BY DEF RecoveryInv
<1>0. script \in Seq(Call) /\ script # <<>>
  BY <1>2 DEF ServerTypes, CallStore
<1>1. PICK c \in Call :
        /\ c = script[1] /\ script' = Tail(script) /\ active' = ActiveAfter(c)
        /\ IF c.op = "put" THEN Put(c.key, c.value) ELSE Delete(c.key)
        /\ UNCHANGED <<plyvel, alive, members, up, halfway, cut>>
        /\ unrecorded' = IF c.key = Topology THEN {} ELSE unrecorded
  <2>1. Head(script) \in Call /\ Head(script) = script[1]
    BY <1>0
  <2> QED
    BY <2>1 DEF CallStore, ring
<1>3. alive
  BY <1>0, <1>2 DEF ServerTypes
<1>4. /\ script' \in Seq(Call) /\ 1 \in DOMAIN script
      /\ \A i \in DOMAIN script' : i + 1 \in DOMAIN script /\ script'[i] = script[i + 1]
      /\ \A i \in DOMAIN script : i = 1 \/ (i - 1 \in DOMAIN script' /\ script'[i - 1] = script[i])
  BY <1>0, <1>1
<1>5. /\ StoreTypes' /\ backend' = backend
      /\ last' = [last EXCEPT ![c.key] = c.value]
      /\ HomeHasLast' /\ OpenHasLast'
      /\ \A k \in Record \ {c.key} : ldb'[k] = ldb[k]
      /\ c.key # Topology => Get(Topology)' = Get(Topology)
      /\ faults' = 0 =>
           /\ faults = 0 /\ Get(c.key)' = c.value
           /\ backend = "leveldb" => ldb'[c.key] = c.value
  BY <1>1, <1>2, <1>4, Called
<1>6. /\ c.key \in Record
      /\ c.key \in TaskKeys =>
           c.value = "ended" \/ (c.value = "pending" /\ c.key \in MigrationKeys)
  BY <1>4, CallFields, KeysDiffer
<1>7. ServerTypes'
  BY <1>1, <1>2, <1>3, <1>4 DEF ServerTypes, ActiveAfter
<1>8. ASSUME faults' = 0 PROVE RingWritten'
  <2>1. faults = 0 /\ backend' = Usual' /\ Topology \in Record
    BY <1>1, <1>2, <1>5, <1>8, KeysDiffer DEF RingWritten, Usual
  <2>2. \A i \in DOMAIN script' : script'[i].key = Topology =>
          script'[i] = PutCall(Topology, RingNow')
    BY <1>1, <1>2, <1>4, <2>1 DEF RingWritten, RingNow
  <2>3. CASE c.key = Topology
    <3>1. c.value = RingNow
      BY <1>1, <1>2, <1>4, <2>1, <2>3 DEF RingWritten, PutCall
    <3>2. Get(Topology)' = c.value
      BY <1>5, <1>8, <2>3
    <3>3. c.value # None
      <4>1. RingNow \in RingRecord
        BY RingTyped
      <4> QED
        BY <3>1, <4>1, RecoveryAssumption
    <3>4. Matches'
      BY <1>1, <1>2, <2>3, <3>1, <3>2, <3>3 DEF Matches, TopologyIn, RingNow, ServerTypes
    <3> QED
      BY <2>1, <2>2, <3>4 DEF RingWritten
  <2>4. CASE c.key # Topology
    <3>1. Get(Topology)' = Get(Topology)
      BY <1>5, <2>4
    <3>2. (\A i \in DOMAIN script' : script'[i].key # Topology) =>
            \A i \in DOMAIN script : script[i].key # Topology
      BY <1>1, <1>4, <2>4
    <3>3. (\A i \in DOMAIN script' : script'[i].key # Topology) => Matches'
      BY <1>1, <1>2, <1>3, <2>1, <2>4, <3>1, <3>2 DEF RingWritten, Matches
    <3> QED
      BY <2>1, <2>2, <3>3 DEF RingWritten
  <2> QED
    BY <2>3, <2>4
<1>9. MigrationsRecorded'
  <2>0. MigrationKeys \subseteq TaskKeys /\ TaskKeys \subseteq Record
    BY KeysDiffer
  <2>1. c.key \in MigrationKeys => c.key \notin cut
    BY <1>1, <1>2, <1>4 DEF MigrationsRecorded
  <2>2. \A k \in MigrationKeys :
          k \in active' <=> IF k = c.key THEN c.value = "pending" ELSE k \in active
    BY <1>1, <1>6, <2>0 DEF ActiveAfter
  <2>3. \A k \in MigrationKeys : k \in active' \union cut' => last'[k] # None
    <3>1. c.key \in MigrationKeys => c.value # None
      BY <1>6, <2>0, RecoveryAssumption
    <3>2. last'[c.key] = c.value /\ \A k \in Record \ {c.key} : last'[k] = last[k]
      BY <1>2, <1>5, <1>6 DEF StoreTypes
    <3> QED
      BY <1>1, <1>2, <2>0, <2>2, <3>1, <3>2 DEF MigrationsRecorded
  <2>4. \A k \in MigrationKeys : ~(k \in active' /\ k \in cut')
    BY <1>1, <1>2, <2>1, <2>2 DEF MigrationsRecorded
  <2>5. \A i \in DOMAIN script' : script'[i].key \in MigrationKeys => script'[i].key \notin cut'
    BY <1>1, <1>2, <1>4 DEF MigrationsRecorded
  <2>6. ASSUME faults' = 0, plyvel', NEW k \in TaskKeys
        PROVE  ldb'[k] = "pending" <=> k \in MigrationKeys /\ k \in active' \union cut'
    <3>1. faults = 0 /\ backend = "leveldb" /\ plyvel
      BY <1>1, <1>2, <1>5, <2>6 DEF RingWritten, Usual
    <3>2. ldb[k] = "pending" <=> k \in MigrationKeys /\ k \in active \union cut
      BY <1>2, <3>1 DEF MigrationsRecorded
    <3>3. CASE k = c.key
      BY <1>1, <1>5, <1>6, <2>1, <2>2, <2>6, <3>1, <3>3
    <3>4. CASE k # c.key
      BY <1>1, <1>5, <2>0, <2>2, <3>2, <3>4
    <3> QED
      BY <3>3, <3>4
  <2> QED
    BY <2>3, <2>4, <2>5, <2>6 DEF MigrationsRecorded
<1> QED
  BY <1>5, <1>7, <1>8, <1>9 DEF RecoveryInv, RingWritten

TornKeeps(k, v) ==
  StoreTypes' /\ HomeHasLast' /\ OpenHasLast' /\ UNCHANGED <<backend, ldb, faults>>

(* A file that is cut short holds none of its records any more.             *)
LEMMA TornPutKeeps ==
  ASSUME StoreTypes, HomeHasLast, OpenHasLast, NEW k \in Record, NEW v \in Value \ {Torn},
         TornPut(k, v)
  PROVE  TornKeeps(k, v)
<1> USE DEF StoreTypes
<1>1. /\ json' = [json EXCEPT ![file[k]] = Torn] /\ last' = [last EXCEPT ![k] = v]
      /\ home' = [j \in Record |-> IF j = k THEN {}
                                  ELSE IF file[j] = file[k] THEN home[j] \ {"json"} ELSE home[j]]
      /\ UNCHANGED <<backend, file, ldb, faults>>
  BY DEF TornPut, WroteFile
<1>2. /\ Torn \in Value /\ Topology \in Record /\ file \in [Record -> Record]
  BY KeysDiffer, TopologyFile DEF Value
<1>3. home' \in [Record -> SUBSET {"leveldb", "json"}]
  BY <1>1
<1>4. StoreTypes'
  BY <1>1, <1>2, <1>3
<1>5. HomeHasLast'
  <2> SUFFICES ASSUME NEW j \in Record
               PROVE  /\ "leveldb" \in home'[j] => ldb[j] = last'[j]
                      /\ "json" \in home'[j] => json'[file[j]] = last'[j]
    BY <1>1 DEF HomeHasLast
  <2> QED
    BY <1>1, <1>2 DEF HomeHasLast
<1>6. OpenHasLast'
  <2> SUFFICES ASSUME faults = 0, NEW j \in Record
               PROVE  backend \in home'[j] \/ (backend = "json" /\ (json'[file[j]] = Torn \/ SharesFile(j)))
    BY <1>1 DEF OpenHasLast, Kept, SharesFile, FallbackGet
  <2>1. backend \in home[j] \/ (backend = "json" /\ (json[file[j]] = Torn \/ SharesFile(j)))
    BY DEF OpenHasLast, Kept, FallbackGet
  <2>2. backend = "json"
    BY DEF TornPut
  <2>3. CASE file[j] = file[k]
    BY <1>1, <1>2, <2>2, <2>3
  <2>4. CASE file[j] # file[k]
    BY <1>1, <1>2, <2>1, <2>4
  <2> QED
    BY <2>3, <2>4
<1> QED
  BY <1>1, <1>4, <1>5, <1>6 DEF TornKeeps

(* The process ends: what was active was cut short.                         *)
LEMMA DownKeeps ==
  ASSUME RecoveryInv, Stop \/ Crash
  PROVE  RecoveryInv'
<1>1. /\ members' = {} /\ up' = {} /\ halfway' = {} /\ active' = {} /\ script' = <<>> /\ alive' = FALSE
      /\ cut' = cut \union active /\ plyvel' = plyvel
  BY DEF Stop, Crash, Down
<1>2. /\ StoreTypes /\ ServerTypes /\ HomeHasLast /\ OpenHasLast /\ RingWritten /\ MigrationsRecorded
  BY DEF RecoveryInv
<1>3. ServerTypes'
  <2>1. <<>> \in Seq(Call)
    BY EmptySeq
  <2> QED
    BY <1>1, <1>2, <2>1 DEF ServerTypes
<1>4. /\ StoreTypes' /\ HomeHasLast' /\ OpenHasLast' /\ UNCHANGED <<backend, ldb, faults>>
      /\ \A k \in MigrationKeys : last[k] # None => last'[k] # None
  <2>1. CASE UNCHANGED store
    BY <1>2, <2>1
    DEF store, StoreTypes, HomeHasLast, OpenHasLast, Kept, SharesFile, FallbackGet
  <2>2. CASE ~ UNCHANGED store
    <3>1. PICK c \in Call : c.op = "put" /\ TornPut(c.key, c.value)
      <4>1. script # <<>> /\ script \in Seq(Call) => Head(script) \in Call
        OBVIOUS
      <4> QED
        BY <1>2, <2>2, <4>1 DEF Stop, Crash, ServerTypes
    <3>2. /\ c.key \in Record /\ c.value \in Value \ {Torn}
          /\ c.key \in TaskKeys => c.value \in {"pending", "ended"}
      BY CallFields
    <3>3. TornKeeps(c.key, c.value)
      BY <1>2, <3>1, <3>2, TornPutKeeps
    <3>4. last' = [last EXCEPT ![c.key] = c.value] /\ MigrationKeys \subseteq Record
      BY <3>1, KeysDiffer DEF TornPut, WroteFile
    <3>5. \A k \in MigrationKeys : last[k] # None => last'[k] # None
      BY <1>2, <3>2, <3>4, KeysDiffer, RecoveryAssumption DEF StoreTypes
    <3> QED
      BY <3>3, <3>5 DEF TornKeeps
  <2> QED
    BY <2>1, <2>2
<1>5. RingWritten'
  BY <1>1, <1>2, <1>4 DEF RingWritten, Usual
<1>6. MigrationsRecorded'
  <2>1. MigrationKeys \subseteq TaskKeys
    BY KeysDiffer
  <2> QED
    BY <1>1, <1>2, <1>4, <2>1 DEF MigrationsRecorded
<1> QED
  BY <1>3, <1>4, <1>5, <1>6 DEF RecoveryInv

(* The server comes up with the ring of the last topology, or fails to.     *)
LEMMA StartKeeps ==
  ASSUME RecoveryInv, Start
  PROVE  RecoveryInv'
<1>1. /\ ~alive
      /\ UNCHANGED <<file, ldb, json, last, home, plyvel, active, script, cut, unrecorded>>
  BY DEF Start, ghosts
<1>2. /\ StoreTypes /\ ServerTypes /\ HomeHasLast /\ OpenHasLast /\ RingWritten /\ MigrationsRecorded
  BY DEF RecoveryInv
<1>3. script = <<>> /\ active = {}
  BY <1>1, <1>2 DEF ServerTypes
<1>4. PICK found \in RingRecord \union {None, Torn} :
        /\ StartFrom(found)
        /\ \/ /\ backend' = Usual /\ faults' = faults
              /\ found = IF plyvel THEN ldb[Topology] ELSE json[Topology]
           \/ backend' \in {"leveldb", "json"} /\ faults' = faults + 1
  <2> DEFINE usual == IF plyvel THEN ldb[Topology] ELSE json[Topology]
  <2>1. usual \in RingRecord \union {None, Torn} /\ json[Topology] \in RingRecord \union {None, Torn}
    BY <1>2 DEF StoreTypes
  <2>2. Usual \in {"leveldb", "json"}
    BY DEF Usual
  <2>3. \/ backend' = Usual /\ faults' = faults /\ StartFrom(usual)
        \/ /\ backend' \in {"leveldb", "json"} /\ faults' = faults + 1
           /\ StartFrom(json[Topology]) \/ StartFrom(None)
    BY <1>2, <2>2, TopologyFile DEF Start, Works, Fails
  <2> HIDE DEF usual
  <2>4. CASE backend' = Usual /\ faults' = faults /\ StartFrom(usual)
    BY <2>1, <2>4 DEF usual
  <2>5. CASE backend' \in {"leveldb", "json"} /\ faults' = faults + 1 /\ StartFrom(json[Topology])
    BY <2>1, <2>5
  <2>6. CASE backend' \in {"leveldb", "json"} /\ faults' = faults + 1 /\ StartFrom(None)
    BY <2>6
  <2> QED
    BY <2>3, <2>4, <2>5, <2>6
<1>5. StoreTypes' /\ HomeHasLast'
  BY <1>1, <1>2, <1>4 DEF StoreTypes, HomeHasLast, Usual
<1>6. ServerTypes'
  BY <1>1, <1>2, <1>3, <1>4 DEF ServerTypes, StartFrom, ComeUp, TopologyIn, RingRecord, ring
<1>9. ASSUME faults' = 0 PROVE faults = 0 /\ backend' = Usual /\ backend = Usual
  BY <1>2, <1>4, <1>9 DEF StoreTypes, RingWritten
<1>10. OpenHasLast'
  <2>1. ASSUME faults' = 0, NEW k \in Record
        PROVE  Kept(k)' \/ (backend' = "json" /\ (FallbackGet(k)' = Torn \/ SharesFile(k)'))
    <3>1. Kept(k) \/ (backend = "json" /\ (FallbackGet(k) = Torn \/ SharesFile(k)))
      BY <1>2, <1>9, <2>1 DEF OpenHasLast
    <3> QED
      BY <1>1, <1>9, <2>1, <3>1 DEF Kept, FallbackGet, SharesFile
  <2> QED
    BY <2>1 DEF OpenHasLast
<1>7. ASSUME faults' = 0 PROVE RingWritten'
  <2>1. /\ backend' = Usual' /\ found = IF plyvel THEN ldb[Topology] ELSE json[Topology]
    BY <1>1, <1>2, <1>4, <1>7 DEF StoreTypes, Usual
  <2>2. Get(Topology)' = found
    <3>2. Get(Topology)' = IF backend' = "leveldb" THEN ldb'[Topology] ELSE json'[Topology]
      BY <1>1, <1>2, TopologyFile DEF Get, FallbackGet
    <3> QED
      BY <1>1, <2>1, <3>2 DEF Usual
  <2>3. alive' => Matches'
    BY <1>1, <1>4, <2>2 DEF StartFrom, ComeUp, Matches, ring
  <2> QED
    BY <1>1, <1>3, <2>1, <2>3 DEF RingWritten
<1>8. MigrationsRecorded'
  BY <1>1, <1>2, <1>4 DEF MigrationsRecorded, StoreTypes
<1> QED
  BY <1>5, <1>6, <1>7, <1>8, <1>10 DEF RecoveryInv, RingWritten

LEMMA RecoveryInvariant == Spec => []RecoveryInv
<1>1. ASSUME RecoveryInv, [Next]_vars PROVE RecoveryInv'
  <2>1. CASE UNCHANGED vars
    BY <1>1, <2>1
       DEF vars, store, ring, memory, ghosts, RecoveryInv, StoreTypes, ServerTypes, HomeHasLast,
           OpenHasLast, Kept, SharesFile, RingWritten, RingNow, MigrationsRecorded, Usual, Matches,
           Get, FallbackGet
  <2> QED
    BY <1>1, <2>1, JoinKeeps, RebalanceKeeps, LeaveKeeps, SilentStepsKeep, EndMigrationKeeps,
       CallStoreKeeps, DownKeeps, StartKeeps
       DEF Next
<1> QED
  BY <1>1, InvInitially, PTL DEF Spec

-----------------------------------------------------------------------------
(* A record is read as it was last written or deleted, if that went into    *)
(* the store that is open and no other record took its file; while no call  *)
(* has failed, it is missing only in a file cut short or shared, for any    *)
(* ids that share file names (metadata_store.py:153-218).                   *)
THEOREM LastWriteIsRead == Spec => []ReadsLastWrite
<1>1. ASSUME RecoveryInv PROVE ReadsLastWrite
  <2> SUFFICES ASSUME NEW k \in Record
               PROVE  IF Kept(k) THEN Get(k) = last[k]
                      ELSE faults > 0 \/ (backend = "json" /\ (Get(k) = Torn \/ SharesFile(k)))
    BY DEF ReadsLastWrite
  <2>1. /\ StoreTypes
        /\ "leveldb" \in home[k] => ldb[k] = last[k]
        /\ "json" \in home[k] => json[file[k]] = last[k]
    BY <1>1 DEF RecoveryInv, HomeHasLast
  <2>2. faults \in Nat /\ (faults = 0 =>
          Kept(k) \/ (backend = "json" /\ (FallbackGet(k) = Torn \/ SharesFile(k))))
    BY <1>1 DEF RecoveryInv, OpenHasLast, StoreTypes
  <2>3. CASE Kept(k)
    BY <2>1, <2>3 DEF StoreTypes, Kept, Get, FallbackGet
  <2>4. CASE ~Kept(k)
    BY <2>2, <2>4 DEF Get
  <2> QED
    BY <2>3, <2>4
<1> QED
  BY <1>1, RecoveryInvariant, PTL

(* While no call has failed, the ring between two handlers is the one the   *)
(* last topology tells of, so that a restart brings it back, but for joins  *)
(* and removals that failed halfway since (manager.py:106-121, 172,         *)
(* 569-625).                                                                *)
THEOREM RingComesBack == Spec => []RingIsPersisted
<1>1. ASSUME RecoveryInv PROVE RingIsPersisted
  <2> SUFFICES ASSUME Ready, faults = 0 PROVE Matches
    BY DEF RingIsPersisted, Matches
  <2> QED
    BY <1>1 DEF RecoveryInv, RingWritten, Ready
<1> QED
  BY <1>1, RecoveryInvariant, PTL

(* LevelDB says pending of exactly the migrations that are active or were   *)
(* cut short (manager.py:437-452, 488-523, 627).                            *)
THEOREM InterruptedIsPending == Spec => []PendingIsInterrupted
<1>1. ASSUME RecoveryInv PROVE PendingIsInterrupted
  <2> SUFFICES ASSUME faults = 0, plyvel
               PROVE  PendingMigrations = {k \in active \union cut : k[1] = "migration"}
    BY DEF PendingIsInterrupted
  <2>1. backend = "leveldb"
    BY <1>1 DEF RecoveryInv, RingWritten, Usual
  <2>2. \A k \in TaskKeys : ldb[k] = "pending" <=> k \in MigrationKeys /\ k \in active \union cut
    BY <1>1 DEF RecoveryInv, MigrationsRecorded
  <2>3. active \union cut \subseteq TaskKeys
    BY <1>1 DEF RecoveryInv, ServerTypes
  <2>4. \A k \in TaskKeys : k \in MigrationKeys <=> k[1] = "migration"
    BY KeysDiffer
  <2> QED
    BY <2>1, <2>2, <2>3, <2>4 DEF PendingMigrations
<1> QED
  BY <1>1, RecoveryInvariant, PTL

-----------------------------------------------------------------------------
(* The record of a node and the topology.  A call for a node's record comes *)
(* first in its script, with that of the topology behind it.                *)
NodeCallFirst ==
  \A i \in DOMAIN script : \A n \in Node : script[i].key = NodeKey(n) =>
    /\ i = 1 /\ 2 \in DOMAIN script /\ script[2].key = Topology
    /\ n \notin unrecorded
    /\ \/ script[1] = PutCall(NodeKey(n), n) /\ n \in up
       \/ script[1] = DeleteCall(NodeKey(n)) /\ n \notin up

Topped == \E i \in DOMAIN script : script[i].key = Topology

OnRecord == TopologyIn(Get(Topology))

\* What was last said of a node once the call at the head of the script is made.
Will(n) == IF 1 \in DOMAIN script /\ script[1].key = NodeKey(n) THEN script[1].value ELSE last[NodeKey(n)]

\* What was last said of a node agrees with the topology on record.
Agree(n) ==
  /\ n \in OnRecord.up \ OnRecord.halfway => last[NodeKey(n)] = n
  /\ last[NodeKey(n)] = n => n \in OnRecord.members

\* It will agree with the ring when the script is done, and no finalizer
\* will disturb that.
WillAgree(n) ==
  /\ n \in up \ halfway => Will(n) = n
  /\ Will(n) = n => n \in members
  /\ finalizers[n] > 0 => finalizers[n] = 1 /\ n \in members /\ n \notin up /\ Will(n) # n

\* Off the ring, or on its way off it.
Gone(n) == n \notin members \/ finalizers[n] > 0

RecordsInv ==
  /\ finalizers \in [Node -> Nat] /\ (~alive => \A n \in Node : finalizers[n] = 0)
  /\ disturbed \subseteq Node
  /\ NodeCallFirst
  /\ faults = 0 =>
       /\ Get(Topology) # Torn => last[Topology] = Get(Topology)
       /\ alive => Get(Topology) # Torn
       /\ \A n \in Node \ disturbed :
            /\ 1 \in DOMAIN script /\ script[1] = PutCall(NodeKey(n), n) => n \notin OnRecord.up
            /\ Get(Topology) # Torn /\ (Topped => n \notin Unwritten) => Agree(n)
            /\ alive => WillAgree(n)
            /\ alive /\ ~Topped /\ Gone(n) => n \notin OnRecord.up

LEMMA NodeKeys ==
  /\ \A m, n \in Node : NodeKey(m) = NodeKey(n) => m = n
  /\ \A n \in Node : NodeKey(n) \in Record
BY DEF NodeKey, Record

LEMMA RecordsInitially == Init => RecordsInv
<1> SUFFICES ASSUME Init PROVE RecordsInv
  OBVIOUS
<1>0. StoreTypes
  BY InvInitially DEF RecoveryInv
<1>1. /\ Get(Topology) = None /\ \A k \in Record : last[k] = None
      /\ script = <<>> /\ DOMAIN script = {} /\ ~alive /\ disturbed = {}
      /\ finalizers = [n \in Node |-> 0]
  BY <1>0, KeysDiffer, TopologyFile DEF Init, StoreInit
<1>2. OnRecord = [members |-> {}, up |-> {}, halfway |-> {}]
  BY <1>1 DEF OnRecord, TopologyIn
<1>3. \A n \in Node : Agree(n)
  BY <1>1, <1>2, NodeKeys, RecoveryAssumption DEF Agree
<1> QED
  BY <1>1, <1>3, KeysDiffer DEF RecordsInv, NodeCallFirst

(* A handler that starts: what it says of the ring will be on record, and   *)
(* until then only the nodes it changes disagree with the store.            *)
LEMMA HandlerAgrees ==
  ASSUME RecoveryInv, RecordsInv, NEW calls, Begin(calls),
         finalizers' \in [Node -> Nat],
         disturbed \subseteq disturbed', disturbed' \subseteq Node,
         NodeCallFirst',
         \A n \in Node : 1 \in DOMAIN calls /\ calls[1] = PutCall(NodeKey(n), n) => n \notin members,
         \/ \E i \in DOMAIN calls : calls[i].key = Topology
         \/ \A n \in Node \ disturbed' : Gone(n)' => Gone(n),
         \A n \in Node \ disturbed' : faults = 0 /\ WillAgree(n) => WillAgree(n)'
  PROVE  RecordsInv'
<1> USE DEF RecordsInv
<1>1. /\ alive /\ script = <<>> /\ script' = calls
      /\ UNCHANGED <<backend, file, ldb, json, last, home, faults, plyvel, alive, cut>>
  BY DEF Begin, Ready, store
<1>2. UNCHANGED <<Get(Topology), OnRecord>>
  BY <1>1 DEF Get, FallbackGet, OnRecord
<1>3. ~Topped
  BY <1>1 DEF Topped
<1>4. ASSUME faults = 0, NEW n \in Node \ disturbed'
      PROVE  /\ Agree(n)' /\ WillAgree(n)'
             /\ 1 \in DOMAIN calls /\ calls[1] = PutCall(NodeKey(n), n) => n \notin OnRecord'.up
             /\ ~Topped' /\ Gone(n)' => n \notin OnRecord'.up
  <2>1. Agree(n) /\ WillAgree(n) /\ (Gone(n) => n \notin OnRecord.up)
    BY <1>1, <1>3, <1>4
  <2>2. Agree(n)'
    BY <1>1, <1>2, <2>1 DEF Agree
  <2>3. WillAgree(n)'
    BY <1>4, <2>1
  <2>4. 1 \in DOMAIN calls /\ calls[1] = PutCall(NodeKey(n), n) => n \notin OnRecord.up
    BY <2>1 DEF Gone
  <2>5. ~Topped' /\ Gone(n)' => n \notin OnRecord.up
    BY <1>1, <1>4, <2>1 DEF Topped
  <2> QED
    BY <1>2, <2>2, <2>3, <2>4, <2>5
<1> QED
  BY <1>1, <1>2, <1>4

LEMMA JoinAgrees ==
  ASSUME RecoveryInv, RecordsInv, NEW a \in Node, AddNode(a)
  PROVE  RecordsInv'
<1>0. up \union halfway \subseteq members /\ members \subseteq Node
  BY RingTyped
<1>1. /\ a \notin members /\ members' = members \union {a} /\ up' = up \union {a}
      /\ a \notin halfway /\ halfway' = halfway
      /\ UNCHANGED <<finalizers, disturbed>> /\ a \notin unrecorded'
  BY <1>0 DEF AddNode, JoinRing
<1>2. PICK ms \in SUBSET NewMigrations :
        Begin(<<PutCall(NodeKey(a), a), PersistTopology>> \o PendingCalls(ms))
  BY DEF AddNode
<1>3. PICK t \in RingRecord : t = RingNow'
  BY <1>0, <1>1 DEF RingRecord, RingNow
<1> DEFINE calls == CallsOfJoin(a, t, ms)
<1>4. Begin(calls)
  BY <1>2, <1>3 DEF PersistTopology, CallsOfJoin, RingNow
<1>5. ms \in SUBSET Migration
  BY DEF NewMigrations
<1>6. /\ 2 \in DOMAIN calls /\ calls[2] = PutCall(Topology, t) /\ calls \in Seq(Call)
      /\ \A i \in DOMAIN calls :
           \/ calls[i] = PutCall(NodeKey(a), a)
           \/ calls[i] = PutCall(Topology, t)
           \/ \E m \in ms : calls[i] = PutCall(MigrationKey(m), "pending")
  BY <1>5, JoinCalls
<1>7. calls[1] = PutCall(NodeKey(a), a) /\ \A i \in DOMAIN calls : i # 1 => \A n \in Node : calls[i].key # NodeKey(n)
  <2> DEFINE head == <<PutCall(NodeKey(a), a), PutCall(Topology, t)>>
             rest == PendingCalls(ms)
  <2>1. /\ head \in Seq(Call) /\ Len(head) = 2 /\ head[1] = PutCall(NodeKey(a), a)
        /\ head[2] = PutCall(Topology, t)
    BY DEF Call
  <2>2. /\ rest \in Seq(Call)
        /\ \A i \in DOMAIN rest : \E m \in ms : rest[i] = PutCall(MigrationKey(m), "pending")
    BY <1>5, PendingCallsTyped
  <2> HIDE DEF head, rest
  <2>3. /\ Len(head \o rest) = 2 + Len(rest)
        /\ \A i \in 1 .. 2 + Len(rest) :
             (head \o rest)[i] = IF i <= 2 THEN head[i] ELSE rest[i - 2]
    <3>1. /\ Len(head \o rest) = Len(head) + Len(rest)
          /\ \A i \in 1 .. Len(head) + Len(rest) :
               (head \o rest)[i] = IF i <= Len(head) THEN head[i] ELSE rest[i - Len(head)]
      BY <2>1, <2>2, ConcatProperties
    <3> QED
      BY <2>1, <3>1
  <2>4. calls = head \o rest
    BY DEF CallsOfJoin, head, rest
  <2>5. Len(rest) \in Nat /\ DOMAIN rest = 1 .. Len(rest) /\ DOMAIN calls = 1 .. 2 + Len(rest)
    BY <1>6, <2>2, <2>3, <2>4
  <2> HIDE DEF calls
  <2>6. ASSUME NEW i \in DOMAIN calls, i # 1, NEW n \in Node PROVE calls[i].key # NodeKey(n)
    <3>1. CASE i = 2
      BY <1>6, <3>1, KeysDiffer DEF PutCall
    <3>2. CASE i > 2
      <4>1. i - 2 \in DOMAIN rest /\ calls[i] = rest[i - 2]
        BY <2>3, <2>4, <2>5, <2>6, <3>2
      <4>2. PICK m \in ms : calls[i] = PutCall(MigrationKey(m), "pending")
        BY <2>2, <4>1
      <4> QED
        BY <1>5, <4>2, KeysDiffer DEF PutCall
    <3> QED
      BY <2>5, <2>6, <3>1, <3>2
  <2> QED
    BY <2>1, <2>3, <2>4, <2>5, <2>6
<1> HIDE DEF calls
<1>8. script = <<>> /\ script' = calls /\ UNCHANGED last
  BY <1>4 DEF Begin, Ready, store
<1>9. 1 \in DOMAIN calls
  BY <1>6
<1>10. NodeCallFirst'
  BY <1>1, <1>6, <1>7, <1>8, NodeKeys DEF NodeCallFirst, PutCall
<1>11. ASSUME NEW n \in Node \ disturbed', WillAgree(n) PROVE WillAgree(n)'
  <2>1. Will(n) = last[NodeKey(n)] /\ last' = last
    BY <1>8 DEF Will
  <2>2. CASE n = a
    <3>1. Will(n)' = n
      BY <1>7, <1>8, <1>9, <2>2 DEF Will, PutCall
    <3>2. ~(finalizers[n] > 0)
      BY <1>1, <1>11, <2>2 DEF WillAgree
    <3> QED
      BY <1>1, <2>2, <3>1, <3>2 DEF WillAgree
  <2>3. CASE n # a
    <3>1. calls[1].key # NodeKey(n)
      BY <1>7, <2>3, NodeKeys DEF PutCall
    <3>2. Will(n)' = Will(n)
      BY <1>8, <2>1, <3>1 DEF Will
    <3> QED
      BY <1>1, <1>11, <2>3, <3>2 DEF WillAgree
  <2> QED
    BY <2>2, <2>3
<1>12. \A n \in Node : calls[1] = PutCall(NodeKey(n), n) => n = a
  BY <1>7, NodeKeys DEF PutCall
<1>13. \E i \in DOMAIN calls : calls[i].key = Topology
  BY <1>6 DEF PutCall
<1> QED
  BY <1>1, <1>4, <1>6, <1>10, <1>11, <1>12, <1>13, HandlerAgrees DEF RecordsInv

LEMMA LeaveAgrees ==
  ASSUME RecoveryInv, RecordsInv, NEW a \in Node, RemoveNode(a)
  PROVE  RecordsInv'
<1> DEFINE calls == <<DeleteCall(NodeKey(a)), PutCall(Topology, RingNow')>>
<1>1. /\ a \in members /\ members' = members /\ up' = up \ {a} /\ halfway' = halfway
      /\ finalizers' = [finalizers EXCEPT ![a] = @ + 1] /\ a \notin unrecorded'
      /\ disturbed' = IF finalizers[a] > 0 THEN disturbed \union {a} ELSE disturbed
      /\ Begin(calls)
  BY DEF RemoveNode, RemovalCalls, PersistTopology, RingNow
<1>2. /\ DOMAIN calls = {1, 2} /\ calls[1] = DeleteCall(NodeKey(a)) /\ calls[2].key = Topology
      /\ calls[1].key = NodeKey(a) /\ calls[1].value = None
      /\ \A n \in Node : calls[1] # PutCall(NodeKey(n), n)
  BY DEF DeleteCall, PutCall
<1> HIDE DEF calls
<1>3. script = <<>> /\ script' = calls /\ UNCHANGED last
  BY <1>1 DEF Begin, Ready, store
<1>4. finalizers \in [Node -> Nat] /\ disturbed \subseteq Node
  BY DEF RecordsInv
<1>5. NodeCallFirst'
  BY <1>1, <1>2, <1>3, NodeKeys, KeysDiffer DEF NodeCallFirst
<1>6. ASSUME NEW n \in Node \ disturbed', WillAgree(n) PROVE WillAgree(n)'
  <2>1. Will(n) = last[NodeKey(n)] /\ last' = last
    BY <1>3 DEF Will
  <2>2. CASE n = a
    <3>1. Will(n)' = None /\ None # n
      BY <1>2, <1>3, <2>2, RecoveryAssumption DEF Will
    <3>2. finalizers'[n] = 1
      BY <1>1, <1>4, <1>6, <2>2
    <3> QED
      BY <1>1, <2>2, <3>1, <3>2 DEF WillAgree
  <2>3. CASE n # a
    <3>1. calls[1].key # NodeKey(n)
      BY <1>2, <2>3, NodeKeys
    <3>2. Will(n)' = Will(n) /\ finalizers'[n] = finalizers[n]
      BY <1>1, <1>3, <1>4, <2>1, <2>3, <3>1 DEF Will
    <3> QED
      BY <1>1, <1>6, <2>3, <3>2 DEF WillAgree
  <2> QED
    BY <2>2, <2>3
<1> QED
  BY <1>1, <1>2, <1>4, <1>5, <1>6, HandlerAgrees

LEMMA FinalizerAgrees ==
  ASSUME RecoveryInv, RecordsInv, NEW a \in Node, FinalizeRemoval(a) \/ FinalizeRemovalFails(a)
  PROVE  RecordsInv'
<1>1. PICK calls :
        /\ Begin(calls)
        /\ \/ calls = <<>> \/ calls = <<PutCall(Topology, RingNow')>>
  BY DEF FinalizeRemoval, FinalizeRemovalFails, PersistTopology, RingNow
<1>2. /\ finalizers[a] > 0 /\ members' = members \ {a} /\ up' = up \ {a}
      /\ halfway' \ {a} = halfway \ {a}
      /\ finalizers' = [finalizers EXCEPT ![a] = @ - 1] /\ disturbed' = disturbed
  BY DEF FinalizeRemoval, FinalizeRemovalFails, LeaveRing
<1>3. script = <<>> /\ script' = calls /\ UNCHANGED last
  BY <1>1 DEF Begin, Ready, store
<1>4. finalizers \in [Node -> Nat] /\ disturbed \subseteq Node
  BY DEF RecordsInv
<1>5. \A i \in DOMAIN calls : calls[i].key = Topology
  BY <1>1 DEF PutCall
<1>6. \A n \in Node : \A i \in DOMAIN calls : calls[i] # PutCall(NodeKey(n), n) /\ calls[i].key # NodeKey(n)
  BY <1>5, KeysDiffer DEF PutCall
<1>7. NodeCallFirst'
  BY <1>3, <1>6 DEF NodeCallFirst
<1>8. ASSUME NEW n \in Node \ disturbed', WillAgree(n) PROVE WillAgree(n)'
  <2>1. Will(n)' = Will(n)
    BY <1>3, <1>6 DEF Will
  <2>2. finalizers'[n] = IF n = a THEN finalizers[n] - 1 ELSE finalizers[n]
    BY <1>2, <1>4
  <2> QED
    BY <1>2, <1>4, <1>8, <2>1, <2>2 DEF WillAgree
<1>9. finalizers' \in [Node -> Nat]
  BY <1>2, <1>4
<1>10. \A n \in Node : Gone(n)' => Gone(n)
  BY <1>2, <1>4 DEF Gone
<1> QED
  BY <1>1, <1>2, <1>4, <1>6, <1>7, <1>8, <1>9, <1>10, HandlerAgrees

(* The others make no call for a node and none for the topology.            *)
LEMMA OthersAgree ==
  ASSUME RecoveryInv, RecordsInv,
         \/ \E n \in Node : AddNodeHalfway(n) \/ FailNode(n)
         \/ Rebalance
         \/ \E m \in active : EndMigration(m)
  PROVE  RecordsInv'
<1>1. PICK calls :
        /\ Begin(calls)
        /\ \A i \in DOMAIN calls : calls[i].key \in TaskKeys
  <2>1. ASSUME NEW m \in active, EndMigration(m)
        PROVE  Begin(<<PutCall(m, "ended")>>) /\ m \in TaskKeys
    BY <2>1, RingTyped DEF EndMigration
  <2>2. ASSUME Rebalance PROVE \E ms \in SUBSET Migration : Begin(PendingCalls(ms))
    BY <2>2 DEF Rebalance, NewMigrations
  <2>3. ASSUME NEW ms \in SUBSET Migration
        PROVE  \A i \in DOMAIN PendingCalls(ms) : PendingCalls(ms)[i].key \in TaskKeys
    BY <2>3, PendingCallsTyped, KeysDiffer DEF PutCall
  <2>4. ASSUME NEW n \in Node, AddNodeHalfway(n) \/ FailNode(n) PROVE Begin(<<>>)
    BY <2>4 DEF AddNodeHalfway, FailNode
  <2>5. /\ DOMAIN <<>> = {}
        /\ \A m \in TaskKeys : \A i \in DOMAIN <<PutCall(m, "ended")>> :
             <<PutCall(m, "ended")>>[i].key \in TaskKeys
    BY DEF PutCall
  <2>6. CASE \E n \in Node : AddNodeHalfway(n) \/ FailNode(n)
    BY <2>4, <2>5, <2>6
  <2>7. CASE Rebalance
    BY <2>2, <2>3, <2>7
  <2>8. CASE \E m \in active : EndMigration(m)
    <3>1. PICK m \in TaskKeys : Begin(<<PutCall(m, "ended")>>)
      BY <2>1, <2>8
    <3> QED
      BY <2>5, <3>1
  <2> QED
    BY <2>6, <2>7, <2>8
<1>2. up \union halfway \subseteq members /\ members \subseteq Node
  BY RingTyped
<1>3. /\ UNCHANGED <<finalizers, disturbed>>
      /\ \/ \E a \in Node \ members :
              /\ members' = members \union {a} /\ halfway' = halfway \union {a}
              /\ up' = up \union {a}
         \/ members' = members /\ halfway' = halfway /\ up' \subseteq up
  BY DEF AddNodeHalfway, FailNode, Rebalance, EndMigration, memory, ring
<1>4. script = <<>> /\ script' = calls /\ UNCHANGED last
  BY <1>1 DEF Begin, Ready, store
<1>5. \A n \in Node : \A i \in DOMAIN calls : calls[i] # PutCall(NodeKey(n), n) /\ calls[i].key # NodeKey(n)
  BY <1>1, KeysDiffer DEF PutCall
<1>6. NodeCallFirst'
  BY <1>4, <1>5 DEF NodeCallFirst
<1>7. ASSUME NEW n \in Node \ disturbed', WillAgree(n) PROVE WillAgree(n)'
  <2>1. Will(n)' = Will(n)
    BY <1>4, <1>5 DEF Will
  <2> QED
    BY <1>2, <1>3, <1>7, <2>1 DEF WillAgree
<1>8. \A n \in Node : Gone(n)' => Gone(n)
  BY <1>3 DEF Gone
<1>9. finalizers' \in [Node -> Nat] /\ disturbed' = disturbed /\ disturbed \subseteq Node
  BY <1>3 DEF RecordsInv
<1> QED
  BY <1>1, <1>5, <1>6, <1>7, <1>8, <1>9, HandlerAgrees

(* A call is made.  That of a node's record makes true what was to come,    *)
(* and leaves a node the topology has yet to tell of; that of the topology  *)
(* tells of all of them.                                                    *)
LEMMA CallStoreAgrees ==
  ASSUME RecoveryInv, RecordsInv, CallStore
  PROVE  RecordsInv'
<1>1. /\ script # <<>> /\ script' = Tail(script)
      /\ UNCHANGED <<plyvel, alive, members, up, halfway, finalizers, disturbed>>
  BY DEF CallStore, ring
<1>2. /\ StoreTypes /\ ServerTypes /\ RingWritten
  BY DEF RecoveryInv
<1>3. /\ script \in Seq(Call) /\ alive
  BY <1>1, <1>2 DEF ServerTypes
<1>4. PICK c \in Call :
        /\ 1 \in DOMAIN script /\ c = script[1]
        /\ IF c.op = "put" THEN Put(c.key, c.value) ELSE Delete(c.key)
        /\ \A i \in DOMAIN script' : i + 1 \in DOMAIN script /\ script'[i] = script[i + 1] /\ i + 1 # 1
        /\ \A i \in DOMAIN script : i = 1 \/ (i - 1 \in DOMAIN script' /\ script'[i - 1] = script[i])
        /\ unrecorded' = IF c.key = Topology THEN {} ELSE unrecorded
  <2>1. Head(script) \in Call /\ 1 \in DOMAIN script /\ Head(script) = script[1]
    BY <1>1, <1>3
  <2>2. /\ IF script[1].op = "put" THEN Put(script[1].key, script[1].value) ELSE Delete(script[1].key)
        /\ unrecorded' = IF script[1].key = Topology THEN {} ELSE unrecorded
    BY <2>1 DEF CallStore
  <2>3. /\ \A i \in DOMAIN script' : i + 1 \in DOMAIN script /\ script'[i] = script[i + 1] /\ i + 1 # 1
        /\ \A i \in DOMAIN script : i = 1 \/ (i - 1 \in DOMAIN script' /\ script'[i - 1] = script[i])
    BY <1>1, <1>3
  <2> QED
    BY <2>1, <2>2, <2>3
<1>5. /\ StoreTypes'
      /\ last' = [last EXCEPT ![c.key] = c.value]
      /\ c.key # Topology => Get(Topology)' = Get(Topology)
      /\ faults' = 0 => faults = 0 /\ Get(c.key)' = c.value
  BY <1>2, <1>4, Called
<1>6. /\ c.key \in Record
      /\ c.key = Topology => c.value \in RingRecord
  BY <1>4, CallFields
<1>7. NodeCallFirst'
  <2> SUFFICES ASSUME NEW i \in DOMAIN script', NEW n \in Node PROVE script'[i].key # NodeKey(n)
    BY DEF NodeCallFirst
  <2> QED
    BY <1>4 DEF RecordsInv, NodeCallFirst
<1>8. \A n \in Node : 1 \in DOMAIN script' => script'[1].key # NodeKey(n)
  BY <1>4 DEF RecordsInv, NodeCallFirst
<1>9. ASSUME faults' = 0
      PROVE  faults = 0 /\ last'[Topology] = Get(Topology)' /\ Get(Topology)' # Torn
  <2>1. faults = 0 /\ last[Topology] = Get(Topology) /\ Get(Topology) # Torn
    BY <1>3, <1>5, <1>9 DEF RecordsInv
  <2>2. CASE c.key = Topology
    BY <1>2, <1>5, <1>6, <1>9, <2>2, RecoveryAssumption DEF StoreTypes
  <2>3. CASE c.key # Topology
    BY <1>2, <1>5, <1>6, <2>1, <2>3, KeysDiffer DEF StoreTypes
  <2> QED
    BY <2>1, <2>2, <2>3
<1>10. ASSUME NEW n \in Node
       PROVE  Will(n)' = Will(n) /\ last'[NodeKey(n)] = Will(n)
  <2>1. Will(n)' = last'[NodeKey(n)]
    BY <1>8 DEF Will
  <2>2. last'[NodeKey(n)] = IF c.key = NodeKey(n) THEN c.value ELSE last[NodeKey(n)]
    BY <1>2, <1>5, <1>6, NodeKeys DEF StoreTypes
  <2> QED
    BY <1>4, <2>1, <2>2 DEF Will
<1>11. ASSUME faults' = 0, NEW n \in Node \ disturbed' PROVE WillAgree(n)'
  BY <1>1, <1>3, <1>9, <1>10, <1>11 DEF RecordsInv, WillAgree
<1>12. ASSUME faults' = 0, c.key = Topology
       PROVE  OnRecord' = RingNow
  <2>1. c.value = RingNow
    BY <1>2, <1>4, <1>9, <1>12 DEF RingWritten, PutCall
  <2> QED
    BY <1>5, <1>6, <1>12, <2>1, RecoveryAssumption DEF OnRecord, TopologyIn
<1>13. ASSUME faults' = 0, c.key # Topology
       PROVE  /\ OnRecord' = OnRecord /\ Unwritten' = Unwritten /\ (Topped => Topped')
              /\ TopologyIn(last[Topology]) = OnRecord /\ unrecorded' = unrecorded
  <2>1. OnRecord' = OnRecord /\ unrecorded' = unrecorded
    BY <1>4, <1>5, <1>13 DEF OnRecord, TopologyIn
  <2>2. last[Topology] = Get(Topology) /\ last'[Topology] = Get(Topology)'
    BY <1>3, <1>9, <1>13 DEF RecordsInv
  <2>3. TopologyIn(last[Topology]) = OnRecord /\ TopologyIn(last'[Topology]) = OnRecord
    BY <2>1, <2>2 DEF OnRecord, TopologyIn
  <2>4. Unwritten' = Unwritten
    BY <1>1, <2>1, <2>3 DEF Unwritten, TopologyIn
  <2>5. Topped => Topped'
    BY <1>4, <1>13 DEF Topped
  <2> QED
    BY <2>1, <2>3, <2>4, <2>5
<1>14. ASSUME faults' = 0, NEW n \in Node \ disturbed', Topped' => n \notin Unwritten'
       PROVE  Agree(n)'
  <2>1. faults = 0 /\ n \notin disturbed
    BY <1>1, <1>9, <1>14
  <2>2. CASE c.key = Topology
    <3>1. OnRecord' = RingNow /\ last'[NodeKey(n)] = Will(n) /\ WillAgree(n)
      BY <1>3, <1>10, <1>12, <1>14, <2>1, <2>2 DEF RecordsInv
    <3> QED
      BY <3>1 DEF WillAgree, Agree, RingNow
  <2>3. CASE c.key = NodeKey(n)
    <3>1. c.key # Topology
      BY <2>3, KeysDiffer
    <3>2. /\ 2 \in DOMAIN script /\ script[2].key = Topology /\ n \notin unrecorded
          /\ \/ c = PutCall(NodeKey(n), n) /\ n \in up
             \/ c = DeleteCall(NodeKey(n)) /\ n \notin up
      BY <1>4, <2>3 DEF RecordsInv, NodeCallFirst
    <3>3. n \notin Unwritten
      BY <1>13, <1>14, <3>1, <3>2 DEF Topped
    <3>4. n \in up <=> n \in OnRecord.up
      BY <1>13, <1>14, <3>1, <3>2, <3>3 DEF Unwritten
    <3>5. c = DeleteCall(NodeKey(n)) /\ n \notin OnRecord.up
      BY <1>4, <2>1, <3>2, <3>4 DEF RecordsInv
    <3>6. last'[NodeKey(n)] = None /\ None # n
      BY <1>2, <1>5, <1>6, <2>3, <3>5, RecoveryAssumption DEF DeleteCall, StoreTypes
    <3> QED
      BY <1>13, <1>14, <3>1, <3>5, <3>6 DEF Agree
  <2>4. CASE c.key # Topology /\ c.key # NodeKey(n)
    <3>1. last'[NodeKey(n)] = last[NodeKey(n)] /\ OnRecord' = OnRecord
      BY <1>2, <1>5, <1>6, <1>13, <1>14, <2>4, NodeKeys DEF StoreTypes
    <3>2. Agree(n)
      BY <1>3, <1>13, <1>14, <2>1, <2>4 DEF RecordsInv
    <3> QED
      BY <3>1, <3>2 DEF Agree
  <2> QED
    BY <2>2, <2>3, <2>4
<1>15. ASSUME faults' = 0, NEW n \in Node \ disturbed', ~Topped', Gone(n)'
       PROVE  n \notin OnRecord'.up
  <2>1. /\ faults = 0 /\ n \notin disturbed /\ Gone(n) /\ WillAgree(n)
        /\ up \subseteq members
    BY <1>1, <1>2, <1>3, <1>9, <1>15 DEF RecordsInv, Gone, ServerTypes
  <2>2. CASE c.key = Topology
    <3>1. OnRecord' = RingNow /\ n \notin up
      BY <1>12, <1>15, <2>1, <2>2 DEF Gone, WillAgree
    <3> QED
      BY <3>1 DEF RingNow
  <2>3. CASE c.key # Topology
    BY <1>3, <1>13, <1>15, <2>1, <2>3 DEF RecordsInv
  <2> QED
    BY <2>2, <2>3
<1>16. \A n \in Node : 1 \in DOMAIN script' => script'[1] # PutCall(NodeKey(n), n)
  BY <1>8 DEF PutCall
<1>17. finalizers' \in [Node -> Nat] /\ alive' /\ disturbed' \subseteq Node
  BY <1>1, <1>3 DEF RecordsInv
<1> QED
  BY <1>7, <1>9, <1>11, <1>14, <1>15, <1>16, <1>17 DEF RecordsInv

(* The process ends: the nodes the topology does not tell of are disturbed, *)
(* the others agree in the store, or the topology is torn.                  *)
LEMMA DownAgrees ==
  ASSUME RecoveryInv, RecordsInv, Stop \/ Crash
  PROVE  RecordsInv'
<1>1. /\ script' = <<>> /\ DOMAIN script' = {} /\ alive /\ ~alive' /\ UNCHANGED <<backend, faults>>
      /\ finalizers' = [n \in Node |-> 0]
  BY DEF Stop, Crash, Down, TornPut, store
<1>2. /\ disturbed' \subseteq Node /\ disturbed \subseteq disturbed'
      /\ \A n \in Node \ disturbed' : Topped => n \notin Unwritten
  BY DEF Stop, Crash, RecordsInv, Unwritten, Topped
<1>3. NodeCallFirst' /\ ~Topped'
  BY <1>1 DEF NodeCallFirst, Topped
<1>4. ASSUME faults = 0
      PROVE  /\ Get(Topology) # Torn /\ last[Topology] = Get(Topology)
             /\ \A n \in Node \ disturbed' : Agree(n)
  BY <1>1, <1>2, <1>4 DEF RecordsInv
<1>5. CASE UNCHANGED store
  <2>1. UNCHANGED <<last, Get(Topology), OnRecord>>
    BY <1>5 DEF store, Get, FallbackGet, OnRecord
  <2>2. \A n \in Node : Agree(n) => Agree(n)'
    BY <2>1 DEF Agree
  <2> QED
    BY <1>1, <1>2, <1>3, <1>4, <2>1, <2>2 DEF RecordsInv
<1>6. CASE ~ UNCHANGED store
  <2>1. Crash /\ script # <<>> /\ script \in Seq(Call)
    BY <1>6 DEF Stop, Crash, RecoveryInv, ServerTypes
  <2>2. PICK c \in Call : /\ 1 \in DOMAIN script /\ c = script[1]
                          /\ c.op = "put" /\ TornPut(c.key, c.value)
    <3>1. Head(script) \in Call /\ 1 \in DOMAIN script /\ Head(script) = script[1]
      BY <2>1
    <3> QED
      BY <1>6, <2>1, <3>1 DEF Crash
  <2>3. c.key \in Record
    BY CallFields
  <2>4. /\ backend = "json" /\ backend' = "json" /\ json' = [json EXCEPT ![file[c.key]] = Torn]
        /\ last' = [last EXCEPT ![c.key] = c.value] /\ file' = file
    BY <2>2 DEF TornPut, WroteFile
  <2>5. StoreTypes
    BY DEF RecoveryInv
  <2>6. /\ Topology \in Record
        /\ c.key = Topology => Get(Topology)' = Torn
        /\ c.key # Topology => Get(Topology)' = Get(Topology)
        /\ \A k \in Record \ {c.key} : last'[k] = last[k]
    BY <2>3, <2>4, <2>5, KeysDiffer, TopologyFile DEF StoreTypes, Get, FallbackGet
  <2>7. ASSUME faults = 0, Get(Topology)' # Torn
        PROVE  /\ last'[Topology] = Get(Topology)'
               /\ \A n \in Node \ disturbed' : Agree(n)'
    <3>1. c.key # Topology /\ Get(Topology)' = Get(Topology) /\ last'[Topology] = Get(Topology)
      BY <1>4, <2>6, <2>7
    <3>2. OnRecord' = OnRecord /\ TopologyIn(last[Topology]) = OnRecord
      BY <1>4, <2>7, <3>1 DEF OnRecord, TopologyIn
    <3>3. ASSUME NEW n \in Node \ disturbed' PROVE c.key # NodeKey(n)
      <4> SUFFICES ASSUME c.key = NodeKey(n) PROVE FALSE
        OBVIOUS
      <4>1. script[2].key = Topology /\ 2 \in DOMAIN script /\ n \notin unrecorded
        BY <2>2 DEF RecordsInv, NodeCallFirst
      <4>2. n \notin Unwritten
        BY <1>2, <3>3, <4>1 DEF Topped
      <4>3. script[1] = PutCall(NodeKey(n), n) /\ n \in up
        BY <2>2 DEF RecordsInv, NodeCallFirst, DeleteCall
      <4>4. n \notin OnRecord.up
        BY <1>2, <2>2, <2>7, <3>3, <4>3 DEF RecordsInv
      <4> QED
        BY <3>2, <3>3, <4>1, <4>2, <4>3, <4>4 DEF Unwritten
    <3>4. ASSUME NEW n \in Node \ disturbed' PROVE Agree(n)'
      <4>1. last'[NodeKey(n)] = last[NodeKey(n)]
        BY <2>6, <3>3, NodeKeys
      <4> QED
        BY <1>4, <2>7, <3>2, <4>1 DEF Agree
    <3> QED
      BY <3>1, <3>4
  <2> QED
    BY <1>1, <1>2, <1>3, <2>7 DEF RecordsInv
<1> QED
  BY <1>5, <1>6

(* The server comes up with the ring on record, with which the records of   *)
(* the nodes agree.                                                         *)
LEMMA StartAgrees ==
  ASSUME RecoveryInv, RecordsInv, Start
  PROVE  RecordsInv'
<1>1. /\ ~alive /\ UNCHANGED <<file, ldb, json, last, plyvel, finalizers, script, disturbed, unrecorded>>
      /\ faults \in Nat
  BY DEF Start, ghosts, RecoveryInv, StoreTypes
<1>2. script = <<>> /\ DOMAIN script = {}
  BY <1>1 DEF RecoveryInv, ServerTypes
<1>3. NodeCallFirst' /\ ~Topped /\ ~Topped'
  BY <1>1, <1>2 DEF NodeCallFirst, Topped
<1>4. ASSUME faults' = 0
      PROVE  faults = 0 /\ backend' = backend /\ StartFrom(Get(Topology))
  <2>1. faults = 0 /\ backend' = Usual
        /\ StartFrom(IF plyvel THEN ldb[Topology] ELSE FallbackGet(Topology))
    BY <1>1, <1>4 DEF Start, Fails, Works
  <2>2. backend = Usual
    BY <2>1 DEF RecoveryInv, RingWritten
  <2> QED
    BY <2>1, <2>2 DEF Usual, Get
<1>5. ASSUME faults' = 0
      PROVE  UNCHANGED <<Get(Topology), OnRecord>>
  BY <1>1, <1>4, <1>5 DEF Get, FallbackGet, OnRecord
<1>6. ASSUME faults' = 0, alive'
      PROVE  /\ Get(Topology) # Torn
             /\ members' = OnRecord.members /\ halfway' = OnRecord.halfway
             /\ up' = OnRecord.up \union OnRecord.halfway
             /\ OnRecord.up \subseteq OnRecord.members
  <2>1. /\ Get(Topology) # Torn
        /\ members' = OnRecord.members /\ halfway' = OnRecord.halfway
        /\ up' = OnRecord.up \union OnRecord.halfway
    BY <1>1, <1>4, <1>6 DEF StartFrom, ComeUp, OnRecord, ring
  <2>2. Get(Topology) \in RingRecord \union {None, Torn}
    BY TopologyFile DEF RecoveryInv, StoreTypes
  <2>3. OnRecord.up \subseteq OnRecord.members
    BY <2>1, <2>2 DEF OnRecord, TopologyIn, RingRecord
  <2> QED
    BY <2>1, <2>3
<1>7. ASSUME faults' = 0, NEW n \in Node \ disturbed', Get(Topology)' # Torn
      PROVE  /\ Agree(n)' /\ (alive' => WillAgree(n)')
             /\ alive' /\ Gone(n)' => n \notin OnRecord'.up
  <2>1. Agree(n)
    BY <1>1, <1>3, <1>4, <1>5, <1>7 DEF RecordsInv
  <2>2. Agree(n)'
    BY <1>1, <1>5, <1>7, <2>1 DEF Agree
  <2>3. Will(n)' = last'[NodeKey(n)] /\ finalizers'[n] = 0
    BY <1>1, <1>2 DEF Will, RecordsInv
  <2> QED
    BY <1>5, <1>6, <1>7, <2>2, <2>3 DEF Agree, WillAgree, Gone
<1> QED
  BY <1>1, <1>2, <1>3, <1>4, <1>5, <1>6, <1>7 DEF RecordsInv

LEMMA RecordsInvariant == Spec => []RecordsInv
<1>1. ASSUME RecoveryInv, RecordsInv, [Next]_vars PROVE RecordsInv'
  <2>1. CASE UNCHANGED vars
    BY <1>1, <2>1
       DEF vars, store, ring, memory, ghosts, RecordsInv, NodeCallFirst, Topped, OnRecord, Will,
           Agree, WillAgree, Gone, Unwritten, TopologyIn, Get, FallbackGet
  <2> QED
    BY <1>1, <2>1, JoinAgrees, LeaveAgrees, FinalizerAgrees, OthersAgree, CallStoreAgrees,
       DownAgrees, StartAgrees
       DEF Next
<1> QED
  BY <1>1, RecordsInitially, RecoveryInvariant, PTL DEF Spec

(* While no call has failed, an online node of the topology has its record, *)
(* unless its weight is bad, and a record its member, but for the nodes a   *)
(* handler was cut short for or that were removed twice at a time; a record *)
(* in a file another one has taken says nothing (manager.py:106-121,        *)
(* 150-151, metadata_store.py:188).                                         *)
THEOREM RecordsStayInStep == Spec => []RecordsAgree
<1>1. ASSUME RecoveryInv, RecordsInv PROVE RecordsAgree
  <2>1. TypeOK
    <3>1. StoreTypes /\ ServerTypes /\ HomeHasLast /\ finalizers \in [Node -> Nat]
      BY <1>1 DEF RecoveryInv, RecordsInv
    <3>2. \A k \in Record : json[file[k]] = Torn => "json" \notin home[k]
      BY <3>1 DEF StoreTypes, HomeHasLast
    <3>3. \A i \in DOMAIN script : script[i].key \in Record
      BY <3>1, CallFields DEF ServerTypes
    <3>4. file \in [Record -> Record]
      BY <3>1, TopologyFile
    <3> QED
      BY <3>1, <3>2, <3>3, <3>4, KeysDiffer DEF TypeOK, StoreTypes, ServerTypes
  <2>2. ASSUME Ready, faults = 0, NEW n \in Node \ disturbed PROVE Agree(n)
    <3>1. alive /\ ~Topped
      BY <2>2 DEF Ready, Topped
    <3> QED
      BY <1>1, <2>2, <3>1 DEF RecordsInv
  <2>3. ASSUME NEW n \in Node, Kept(NodeKey(n)) PROVE Get(NodeKey(n)) = last[NodeKey(n)]
    <3>1. HomeHasLast /\ backend \in {"leveldb", "json"} /\ NodeKey(n) \in Record
      BY <1>1, NodeKeys DEF RecoveryInv, StoreTypes
    <3> QED
      BY <2>3, <3>1 DEF HomeHasLast, Kept, Get, FallbackGet
  <2> QED
    BY <2>1, <2>2, <2>3 DEF RecordsAgree, Agree, OnRecord
<1> QED
  BY <1>1, RecoveryInvariant, RecordsInvariant, PTL
=============================================================================
