-------------------------- MODULE IdempotencyGuard --------------------------
(***************************************************************************)
(* IdempotencyGuard of dcache/service/resilience.py as handle_put of       *)
(* dcache/service/cache_service.py uses it: PUTs that carry the same       *)
(* X-Request-Id, one of which leads and executes the write while the       *)
(* others wait for its result.                                             *)
(*                                                                         *)
(* The guard's lock is held over bodies without an await, so that a        *)
(* request runs from its arrival to its first real suspension as one step: *)
(* the leader to the reading of its body (cache_service.py:115), a         *)
(* duplicate to event.wait (resilience.py:209).  An event is named after   *)
(* the request that created it.  Time is the order of the stamps and, per  *)
(* entry, whether its TTL has passed.                                      *)
(***************************************************************************)
EXTENDS Integers, FiniteSets

CONSTANTS
  Request,         \* the PUTs that arrive
  Id,              \* their request ids
  IdOf,            \* IdOf[r]: the X-Request-Id of r
  MaxEntries,      \* max_entries
  Pending,         \* the sentinel PENDING
  Absent,          \* no entry in _store
  NoEvent,         \* no entry in _events
  Null             \* None, sent to the client as null

ASSUME GuardAssumption ==
  /\ IdOf \in [Request -> Id]
  /\ MaxEntries \in Nat \ {0}
  /\ IsFiniteSet(Id)

\* What _store holds: a result, named after the request it is of, or PENDING.
StoreEntry == [result : Request \union {Pending}, at : Nat, expired : BOOLEAN]

ASSUME SentinelAssumption ==
  /\ Pending \notin Request /\ NoEvent \notin Request /\ Null \notin Request
  /\ Absent \notin StoreEntry

VARIABLES
  store,      \* _store: per id its result or PENDING, its time stamp and whether that expired
  events,     \* _events: per id the request that created the event
  signalled,  \* the events that are set
  clock,      \* the next time stamp
  pc,         \* where each request is
  waits_on,   \* the event a duplicate waits for
  answer,     \* what the client was sent: a result, an error, null
  executed,   \* ghost: the requests of each id whose write was executed
  dropped     \* ghost: ids that lost an entry to the TTL or to the cleanup

guard == <<store, events, signalled, clock>>
vars  == <<guard, pc, waits_on, answer, executed, dropped>>

Init ==
  /\ store = [i \in Id |-> Absent]
  /\ events = [i \in Id |-> NoEvent]
  /\ signalled = {}
  /\ clock = 0
  /\ pc = [r \in Request |-> "new"]
  /\ waits_on = [r \in Request |-> NoEvent]
  /\ answer = [r \in Request |-> "none"]
  /\ executed = [i \in Id |-> {}]
  /\ dropped = {}

Entry(result) == [result |-> result, at |-> clock, expired |-> FALSE]

Present(st) == {i \in Id : st[i] # Absent}

Live(i) == store[i] # Absent /\ ~store[i].expired

Answer(r, a) ==
  /\ pc' = [pc EXCEPT ![r] = "done"]
  /\ answer' = [answer EXCEPT ![r] = a]

-----------------------------------------------------------------------------
(* _cleanup: over max_entries the expired entries go, and if that is not    *)
(* enough the oldest ones, pending or not; these ids keep theirs.           *)
KeptBy(st) ==
  LET fresh == {i \in Present(st) : ~st[i].expired}
  IN  IF Cardinality(Present(st)) <= MaxEntries
        THEN Present(st)
        ELSE {i \in fresh : Cardinality({j \in fresh : st[j].at > st[i].at}) < MaxEntries}

(* check_and_mark of a request that finds no live entry: it becomes the     *)
(* leader of its id.  If the rate limiter or the circuit breaker then       *)
(* refuses it, clear takes its entry and its event away at once.            *)
Mark(r, refused) ==
  LET marked == [store EXCEPT ![IdOf[r]] = Entry(Pending)]
      kept   == KeptBy(marked) \ (IF refused THEN {IdOf[r]} ELSE {})
      lost   == (Present(store) \ KeptBy(marked)) \union ({IdOf[r]} \intersect Present(store))
  IN  /\ pc[r] = "new"
      /\ ~Live(IdOf[r])
      /\ store' = [i \in Id |-> IF i \in kept THEN marked[i] ELSE Absent]
      /\ events' = [i \in Id |-> IF i \notin kept THEN NoEvent
                                 ELSE IF i = IdOf[r] THEN r ELSE events[i]]
      /\ clock' = clock + 1
      /\ dropped' = dropped \union lost

Lead(r) ==
  /\ Mark(r, FALSE)
  /\ pc' = [pc EXCEPT ![r] = "reading"]
  /\ UNCHANGED <<signalled, waits_on, answer, executed>>

Refuse(r) ==
  /\ Mark(r, TRUE)
  /\ Answer(r, "refused")
  /\ signalled' = signalled \union {r}
  /\ UNCHANGED <<waits_on, executed>>

(* A duplicate of a request that has its result.                            *)
Repeat(r) ==
  /\ pc[r] = "new"
  /\ Live(IdOf[r])
  /\ store[IdOf[r]].result # Pending
  /\ Answer(r, store[IdOf[r]].result)
  /\ UNCHANGED <<guard, waits_on, executed, dropped>>

(* A duplicate of a request that is still running: wait_for_result up to    *)
(* its event.wait; without an event it would be answered null.              *)
Wait(r) ==
  /\ pc[r] = "new"
  /\ Live(IdOf[r])
  /\ store[IdOf[r]].result = Pending
  /\ IF events[IdOf[r]] = NoEvent
       THEN Answer(r, Null) /\ UNCHANGED waits_on
       ELSE /\ pc' = [pc EXCEPT ![r] = "waiting"]
            /\ waits_on' = [waits_on EXCEPT ![r] = events[IdOf[r]]]
            /\ UNCHANGED answer
  /\ UNCHANGED <<guard, executed, dropped>>

-----------------------------------------------------------------------------
\* A plausible slip: the event is forgotten and not set.
ForgetEvent(i) ==
  /\ UNCHANGED signalled
  /\ events' = [events EXCEPT ![i] = NoEvent]

\* Whatever event is registered for the id is set and forgotten.
SetEvent(i) ==
  /\ signalled' = IF events[i] = NoEvent THEN signalled ELSE signalled \union {events[i]}
  /\ events' = [events EXCEPT ![i] = NoEvent]

\* A plausible slip: the entry is removed once the write is done.
RemoveEntry(r) ==
  /\ store' = [store EXCEPT ![IdOf[r]] = Absent]
  /\ clock' = clock + 1

Record(r) ==
  /\ store' = [store EXCEPT ![IdOf[r]] = Entry(r)]
  /\ clock' = clock + 1

(* The leader has its body: it writes, and record_result takes the place    *)
(* of whatever the id has in the store by now (cache_service.py:113-140).   *)
Execute(r) ==
  /\ pc[r] = "reading"
  /\ Record(r)
  /\ SetEvent(IdOf[r])
  /\ Answer(r, r)
  /\ executed' = [executed EXCEPT ![IdOf[r]] = @ \union {r}]
  /\ UNCHANGED <<waits_on, dropped>>

\* A plausible slip: a failed leader does not clear its mark.
FailWithoutClear(r) ==
  /\ pc[r] = "reading"
  /\ Answer(r, "error")
  /\ UNCHANGED <<guard, waits_on, executed, dropped>>

(* The body is no JSON, or no node is left: clear takes away whatever the   *)
(* id has by now (cache_service.py:118-124, 141-146).                       *)
Fail(r) ==
  /\ pc[r] = "reading"
  /\ store' = [store EXCEPT ![IdOf[r]] = Absent]
  /\ SetEvent(IdOf[r])
  /\ Answer(r, "error")
  /\ UNCHANGED <<clock, waits_on, executed, dropped>>

\* What a woken duplicate finds: a result of any age, or nothing.
ResultOrNull(i) ==
  IF store[i] # Absent /\ store[i].result # Pending THEN store[i].result ELSE Null

(* The event is set: the rest of wait_for_result (resilience.py:214-219).   *)
Wake(r) ==
  /\ pc[r] = "waiting"
  /\ waits_on[r] \in signalled
  /\ Answer(r, ResultOrNull(IdOf[r]))
  /\ UNCHANGED <<guard, waits_on, executed, dropped>>

(* 30 s have passed; the duplicate is answered null.                        *)
TimeOut(r) ==
  /\ pc[r] = "waiting"
  /\ pc' = [pc EXCEPT ![r] = "gave_up"]
  /\ answer' = [answer EXCEPT ![r] = Null]
  /\ UNCHANGED <<guard, waits_on, executed, dropped>>

(* The TTL of an entry passes; the oldest entry comes first.                *)
Age(i) ==
  /\ Live(i)
  /\ \A j \in Id : Live(j) => store[i].at <= store[j].at
  /\ store' = [store EXCEPT ![i].expired = TRUE]
  /\ UNCHANGED <<events, signalled, clock, pc, waits_on, answer, executed, dropped>>

Arrive(r) == Lead(r) \/ Refuse(r) \/ Repeat(r) \/ Wait(r)

Next ==
  \/ \E r \in Request : Arrive(r) \/ Execute(r) \/ Fail(r) \/ Wake(r) \/ TimeOut(r)
  \/ \E i \in Id : Age(i)

Spec == Init /\ [][Next]_vars

(* A body arrives or its connection breaks, and the event loop runs what is *)
(* ready.  Nothing is promised of the timeout.                              *)
Fairness ==
  \A r \in Request : WF_vars(Execute(r) \/ Fail(r)) /\ WF_vars(Wake(r))

FairSpec == Spec /\ Fairness

-----------------------------------------------------------------------------
TypeOK ==
  /\ store \in [Id -> StoreEntry \union {Absent}]
  /\ events \in [Id -> Request \union {NoEvent}]
  /\ signalled \subseteq Request
  /\ clock \in Nat
  /\ pc \in [Request -> {"new", "reading", "waiting", "done", "gave_up"}]
  /\ waits_on \in [Request -> Request \union {NoEvent}]
  /\ answer \in [Request -> Request \union {Null, "none", "error", "refused"}]
  /\ executed \in [Id -> SUBSET Request]
  /\ dropped \subseteq Id

(* Two writes are executed under one id only if an entry of that id was     *)
(* lost in between, to its TTL or to the cleanup (resilience.py:183-195,    *)
(* 236-249), in whatever order duplicates, failures and wake-ups come.      *)
ExecutedOnce ==
  \A i \in Id : Cardinality(executed[i]) > 1 => i \in dropped

(* An id is marked pending exactly while an event is registered for it, and *)
(* the leader that created the event is still at work, so that it will set  *)
(* it; also when an expired leader and its successor share the entry.       *)
PendingHasLeader ==
  \A i \in Id :
    /\ (store[i] # Absent /\ store[i].result = Pending) <=> events[i] # NoEvent
    /\ events[i] # NoEvent => /\ pc[events[i]] = "reading"
                              /\ IdOf[events[i]] = i
                              /\ events[i] \notin signalled

(* A waiting duplicate is not forgotten: its event is set, or is still      *)
(* registered for its leader to set (resilience.py:200-234); only an id     *)
(* whose entry was dropped loses its waiters to the timeout.                *)
WaiterIsWoken ==
  \A r \in Request : pc[r] = "waiting" =>
    \/ waits_on[r] \in signalled
    \/ events[IdOf[r]] = waits_on[r]
    \/ IdOf[r] \in dropped

(* A duplicate that waited for a leader which wrote is answered with that   *)
(* leader's result (cache_service.py:90-99): between the event and the      *)
(* wake-up nothing replaces or removes it, unless the entry was dropped.    *)
WaiterGetsResult ==
  \A r \in Request : pc[r] = "done" /\ waits_on[r] # NoEvent /\ IdOf[r] \notin dropped =>
    LET leader == waits_on[r]
    IN  leader \in executed[IdOf[r]] => answer[r] = leader

(* A duplicate is answered without the help of the timeout, unless its id   *)
(* lost an entry.                                                           *)
WaitersAnswered ==
  \A r \in Request : pc[r] = "waiting" ~> pc[r] # "waiting" \/ IdOf[r] \in dropped
=============================================================================
