------------------------------- MODULE Fallback -------------------------------
(***************************************************************************)
(* FaultToleranceManager of dcache/fault_tolerance/manager.py: reads and   *)
(* writes that ask the primary of a key, then a replica that is not marked *)
(* as failed, then the local cache; the marks, which last for a while; and *)
(* the local cache, which every write that ends is put into.               *)
(*                                                                         *)
(* A call to a node suspends and returns a value (or true), returns None   *)
(* (or false), or raises.  What the nodes store is left open.  The handling*)
(* of an outcome, up to the next call, is one step: the alert callback of  *)
(* the server only logs (main.py:93-97).  Nothing in dcache/ calls the two *)
(* operations; tests/verify.py does, and NodeManager uses the local cache. *)
(***************************************************************************)
EXTENDS LocalCache, FiniteSets, Functions

CONSTANTS
  Node,              \* cache node ids
  Task,              \* callers, each with one operation at a time; a write
                     \* of a task writes the task's name
  Replicas,          \* get_replicas_fn: a sequence of nodes per key
  RecoveryTimeout    \* _recovery_timeout, in ticks

ASSUME FallbackAssumption ==
  /\ \A k \in Key : Replicas[k] \in Seq(Node) /\ Replicas[k] # <<>>
  /\ RecoveryTimeout \in Nat
  /\ NoValue \notin Task

VARIABLES
  store,      \* _local_cache._store
  failed,     \* _failed_nodes: ticks since each node was marked
  task,       \* where each operation is, and whether the last one ended
              \* as a read that found nothing
  kept        \* ghost: per key, the write that ended last, its age, and the
              \* other keys used since the key itself was used

vars == <<store, failed, task, kept>>

Value == Task
Kind  == {"read", "write"}

NeverWritten == [value |-> NoValue, age |-> 0, since |-> {}]

Idle(answer) == [step |-> "idle", answer |-> answer]

Init ==
  /\ store = Empty
  /\ failed = [n \in {} |-> 0]
  /\ task = [t \in Task |-> Idle("done")]
  /\ kept = [k \in Key |-> NeverWritten]

Primary(k) == Head(Replicas[k])

-----------------------------------------------------------------------------
(* The marks.                                                               *)

IsFailed(marks, n) == n \in DOMAIN marks /\ marks[n] <= RecoveryTimeout

MarkedAt(t) == [n \in DOMAIN failed \union {task[t].asks} |-> IF n = task[t].asks THEN 0 ELSE failed[n]]

\* get_available_replica: the primary, or the first replica, not marked.
Available(marks, k) == SelectInSeq(Replicas[k], LAMBDA n : ~ IsFailed(marks, n))

-----------------------------------------------------------------------------
(* What uses of the cache do to the ghost.                                  *)

Used(k, entry) ==
  [m \in Key |-> IF m = k THEN entry
                 ELSE IF kept[m].value = NoValue THEN NeverWritten
                 ELSE [kept[m] EXCEPT !.since = @ \union {k}]]

CacheWrite(t) ==
  LET k == task[t].key
  IN  /\ store' = AfterPut(store, k, t)
      /\ kept' = Used(k, [value |-> t, age |-> 0, since |-> {}])

Begin(t, kind, k) ==
  /\ task[t].step = "idle"
  /\ task' = [task EXCEPT ![t] = [step |-> "primary", kind |-> kind, key |-> k,
                                  asks |-> Primary(k)]]
  /\ UNCHANGED <<store, failed, kept>>

Busy(t) == task[t].step # "idle"

(* The node that was asked has answered, or stored the value.               *)
Answered(t) ==
  /\ Busy(t)
  /\ task' = [task EXCEPT ![t] = Idle("done")]
  /\ IF task[t].kind = "write" THEN CacheWrite(t) ELSE UNCHANGED <<store, kept>>
  /\ UNCHANGED failed

(* No node is left to ask.                                                  *)
Degrade(t) ==
  LET k == task[t].key
      v == Found(store, k)
  IN  IF task[t].kind = "write"
      THEN /\ CacheWrite(t)
           /\ task' = [task EXCEPT ![t] = Idle("done")]
      ELSE /\ store' = AfterGet(store, k)
           /\ kept' = IF v = NoValue THEN kept ELSE Used(k, [kept[k] EXCEPT !.since = {}])
           /\ task' = [task EXCEPT ![t] = Idle(IF v = NoValue THEN "null" ELSE "done")]

\* A plausible slip: with no replica to ask, the read gives up at once.
AskReplicaOrGiveUp(t, marks) ==
  LET k == task[t].key
      i == Available(marks, k)
  IN  IF i = 0
      THEN /\ failed' = marks
           /\ task' = [task EXCEPT ![t] = Idle("null")]
           /\ UNCHANGED <<store, kept>>
      ELSE /\ failed' = Restrict(marks, DOMAIN marks \ {Replicas[k][i]})
           /\ task' = [task EXCEPT ![t].step = "replica", ![t].asks = Replicas[k][i]]
           /\ UNCHANGED <<store, kept>>

(* The mark of the node that is chosen has expired, if it has one, and is   *)
(* taken away.                                                              *)
AskReplica(t, marks) ==
  LET k == task[t].key
      i == Available(marks, k)
  IN  IF i = 0
      THEN failed' = marks /\ Degrade(t)
      ELSE /\ failed' = Restrict(marks, DOMAIN marks \ {Replicas[k][i]})
           /\ task' = [task EXCEPT ![t].step = "replica", ![t].asks = Replicas[k][i]]
           /\ UNCHANGED <<store, kept>>

(* The primary has no value, or declines: unless it is marked by another    *)
(* operation it is asked a second time, and no replica at all.              *)
PrimaryDeclined(t) ==
  /\ task[t].step = "primary"
  /\ AskReplica(t, failed)

PrimaryRaised(t) ==
  /\ task[t].step = "primary"
  /\ AskReplica(t, MarkedAt(t))

(* Nobody marks a replica.                                                  *)
ReplicaFailed(t) ==
  /\ task[t].step = "replica"
  /\ Degrade(t)
  /\ UNCHANGED failed

-----------------------------------------------------------------------------
(* handle_node_recovery, and delete_key of NodeManager.                     *)

Recover(n) ==
  /\ n \in DOMAIN failed
  /\ failed' = Restrict(failed, DOMAIN failed \ {n})
  /\ UNCHANGED <<store, task, kept>>

Delete(k) ==
  /\ store' = Without(store, k)
  /\ kept' = [kept EXCEPT ![k] = NeverWritten]
  /\ UNCHANGED <<failed, task>>

Tick ==
  /\ store' = Aged(store)
  /\ failed' = [n \in DOMAIN failed |->
                  IF failed[n] <= RecoveryTimeout THEN failed[n] + 1 ELSE failed[n]]
  /\ kept' = [k \in Key |-> IF kept[k].value = NoValue \/ kept[k].age + 1 >= Ttl
                             THEN NeverWritten
                             ELSE [kept[k] EXCEPT !.age = @ + 1]]
  /\ UNCHANGED task

Next ==
  \/ \E t \in Task :
       \/ \E kind \in Kind, k \in Key : Begin(t, kind, k)
       \/ Answered(t) \/ PrimaryDeclined(t) \/ PrimaryRaised(t) \/ ReplicaFailed(t)
  \/ \E n \in Node : Recover(n)
  \/ \E k \in Key : Delete(k)
  \/ Tick

Spec == Init /\ [][Next]_vars

-----------------------------------------------------------------------------
IdleTask == [step : {"idle"}, answer : {"done", "null"}]

BusyTask == [step : {"primary", "replica"}, kind : Kind, key : Key, asks : Node]

CacheEntry == [key : Key, value : Value, age : 0 .. Ttl]

(* Besides the types: each key is in the store once, and the store          *)
(* is never too long.                                                       *)
TypeOK ==
  /\ store \in Seq(CacheEntry)
  /\ Len(store) <= MaxSize
  /\ \A i, j \in DOMAIN store : store[i].key = store[j].key => i = j
  /\ failed \in [DOMAIN failed -> 0 .. RecoveryTimeout + 1] /\ DOMAIN failed \subseteq Node
  /\ task \in [Task -> IdleTask \union BusyTask]
  /\ kept \in [Key -> [value : Value \union {NoValue}, age : 0 .. Ttl, since : SUBSET Key]]

(* What was written within the ttl is found with its latest value as long   *)
(* as fewer than MaxSize other keys were used since the key was: eviction   *)
(* takes keys in the order of their last use, hits included, and a second   *)
(* write counts as a use and starts the ttl anew (manager.py:35-52).  The   *)
(* variables have their types.                                              *)
RecentIsKept ==
  /\ TypeOK
  /\ \A k \in Key :
       kept[k].value # NoValue /\ Cardinality(kept[k].since) < MaxSize
         => Found(store, k) = kept[k].value

(* The cache serves the write that ended last, and not for longer than the  *)
(* ttl after its end, however the operations overlap                        *)
(* (manager.py:209-240).                                                    *)
ServesLastEnded ==
  \A k \in Key : Found(store, k) \in {kept[k].value, NoValue}

(* A read says that there is nothing only when no write of the key ended    *)
(* within the ttl, or enough other keys were used since                     *)
(* (manager.py:164-200).                                                    *)
NullOnlyWhenGone ==
  [][\A t \in Task : Busy(t) /\ task'[t].step = "idle" =>
       LET k == task[t].key
       IN  task'[t].answer = "null" =>
             kept[k].value = NoValue \/ Cardinality(kept[k].since) >= MaxSize]_vars

(* The local cache is what NodeManager takes it for: a map that may forget, *)
(* in which a value is found only after the write that put it there         *)
(* (manager.py:27-63 and node_manager/manager.py:359, 399, 422).            *)
Forgetful == INSTANCE ForgetfulMap
  WITH content <- [k \in Key |-> Found(store, k)],
       puts    <- {<<task[t].key, t>> : t \in {u \in Task : Busy(u) /\ task[u].kind = "write"}}

IsForgetfulMap == Forgetful!Spec
=============================================================================
