----------------------- MODULE IdempotencyGuardProofs -----------------------
(***************************************************************************)
(* Proofs about IdempotencyGuard, for any number of requests, ids and      *)
(* entries, any time stamps and any order of expiries and evictions.       *)
(***************************************************************************)
EXTENDS IdempotencyGuard, FiniteSetTheorems, TLAPS

(* The stamps of the entries lie in the past.                               *)
StampsPassed == \A i \in Id : store[i] # Absent => store[i].at < clock

(* No event is set before the request that creates it arrives.              *)
EventsAreNew == \A r \in Request : pc[r] = "new" => r \notin signalled

(* A duplicate holds the event of a request of its own id that has arrived; *)
(* it was answered only once that event was set.                            *)
WaitsOnOwnId ==
  \A r \in Request :
    /\ pc[r] \in {"new", "reading"} => waits_on[r] = NoEvent
    /\ pc[r] = "waiting" => waits_on[r] # NoEvent
    /\ waits_on[r] # NoEvent => IdOf[waits_on[r]] = IdOf[r] /\ pc[waits_on[r]] # "new"
    /\ waits_on[r] # NoEvent /\ pc[r] = "done" => waits_on[r] \in signalled

(* While an id keeps its entry it has at most one leader, which holds the   *)
(* event, and the one write it executed is the one on record.               *)
OneLeader ==
  \A i \in Id \ dropped :
    /\ \A r \in Request : pc[r] = "reading" /\ IdOf[r] = i => events[i] = r
    /\ \A v, w \in executed[i] : v = w
    /\ executed[i] # {} => store[i] # Absent /\ store[i].result \in executed[i]

GuardInv ==
  /\ TypeOK
  /\ StampsPassed
  /\ EventsAreNew
  /\ WaitsOnOwnId
  /\ PendingHasLeader
  /\ WaiterIsWoken
  /\ OneLeader
  /\ WaiterGetsResult

-----------------------------------------------------------------------------
(* The entry just marked is the newest, so that the cleanup keeps it        *)
(* (resilience.py:192-194, 243-249).                                        *)
LEMMA NewestIsKept ==
  ASSUME TypeOK, StampsPassed, NEW i \in Id
  PROVE  i \in KeptBy([store EXCEPT ![i] = Entry(Pending)])
<1> DEFINE marked == [store EXCEPT ![i] = Entry(Pending)]
           fresh  == {j \in Present(marked) : ~marked[j].expired}
           newer  == {j \in fresh : marked[j].at > marked[i].at}
<1>1. marked[i] = Entry(Pending) /\ \A j \in Id \ {i} : marked[j] = store[j]
      BY DEF TypeOK
<1>2. Entry(Pending) \in StoreEntry
      BY DEF TypeOK, Entry, StoreEntry
<1>3. i \in Present(marked) /\ i \in fresh
  <2>1. marked[i] # Absent
        BY <1>1, <1>2, SentinelAssumption
  <2>2. ~marked[i].expired
        BY <1>1 DEF Entry
  <2> QED BY <2>1, <2>2 DEF Present
<1>4. newer = {}
  <2>1. marked[i].at = clock
        BY <1>1 DEF Entry
  <2>2. \A j \in Id \ {i} : marked[j] # Absent => marked[j].at < clock
        BY <1>1 DEF StampsPassed
  <2>3. \A j \in Id : store[j] # Absent => store[j].at \in Nat
        BY DEF TypeOK, StoreEntry
  <2>4. \A j \in fresh : ~(marked[j].at > marked[i].at)
        BY <2>1, <2>2, <2>3, <1>1 DEF TypeOK, Present
  <2> QED BY <2>4
<1>5. Cardinality(newer) < MaxEntries
  <2> HIDE DEF newer
  <2> QED BY <1>4, FS_EmptySet, GuardAssumption
<1> QED BY <1>3, <1>5 DEF KeptBy

(* What a mark does to the store: its own id has a new entry, or none when  *)
(* the request was refused; any other id keeps entry and event, or loses    *)
(* both and is counted as dropped.                                          *)
LEMMA Marked ==
  ASSUME TypeOK, StampsPassed, NEW r \in Request, NEW refused \in BOOLEAN, Mark(r, refused)
  PROVE  /\ pc[r] = "new" /\ clock' = clock + 1
         /\ store' \in [Id -> StoreEntry \union {Absent}]
         /\ events' \in [Id -> Request \union {NoEvent}]
         /\ dropped \subseteq dropped' /\ dropped' \subseteq Id
         /\ store[IdOf[r]] # Absent => IdOf[r] \in dropped'
         /\ refused => store'[IdOf[r]] = Absent /\ events'[IdOf[r]] = NoEvent
         /\ ~refused => store'[IdOf[r]] = Entry(Pending) /\ events'[IdOf[r]] = r
         /\ \A j \in Id \ {IdOf[r]} :
              \/ store'[j] = store[j] /\ events'[j] = events[j]
              \/ /\ store'[j] = Absent /\ events'[j] = NoEvent
                 /\ store[j] # Absent => j \in dropped'
<1> DEFINE own    == IdOf[r]
           marked == [store EXCEPT ![own] = Entry(Pending)]
           kept   == KeptBy(marked) \ (IF refused THEN {own} ELSE {})
           lost   == (Present(store) \ KeptBy(marked)) \union ({own} \intersect Present(store))
<1>1. own \in Id
      BY GuardAssumption
<1>2. /\ store' = [j \in Id |-> IF j \in kept THEN marked[j] ELSE Absent]
      /\ events' = [j \in Id |-> IF j \notin kept THEN NoEvent
                                 ELSE IF j = own THEN r ELSE events[j]]
      /\ dropped' = dropped \union lost
      BY DEF Mark
<1>3. marked[own] = Entry(Pending) /\ \A j \in Id \ {own} : marked[j] = store[j]
      BY <1>1 DEF TypeOK
<1>4. Entry(Pending) \in StoreEntry
      BY DEF TypeOK, Entry, StoreEntry
<1>5. own \in KeptBy(marked)
      BY <1>1, NewestIsKept
<1>6. lost \subseteq Id /\ dropped \subseteq Id
      BY DEF Present, TypeOK
<1>7. \A j \in Id : store[j] # Absent <=> j \in Present(store)
      BY DEF Present
<1> HIDE DEF own, marked
<1>8. \A j \in Id : store[j] \in StoreEntry \union {Absent} /\ events[j] \in Request \union {NoEvent}
      BY DEF TypeOK
<1>9. store' \in [Id -> StoreEntry \union {Absent}]
      BY <1>1, <1>2, <1>3, <1>4, <1>8
<1>10. events' \in [Id -> Request \union {NoEvent}]
      BY <1>2, <1>8
<1>11. store[own] # Absent => own \in dropped'
      BY <1>1, <1>2, <1>7
<1>12. refused => store'[own] = Absent /\ events'[own] = NoEvent
      BY <1>1, <1>2
<1>13. ~refused => store'[own] = Entry(Pending) /\ events'[own] = r
      BY <1>1, <1>2, <1>3, <1>5
<1>14. ASSUME NEW j \in Id \ {own}
       PROVE  \/ store'[j] = store[j] /\ events'[j] = events[j]
              \/ /\ store'[j] = Absent /\ events'[j] = NoEvent
                 /\ store[j] # Absent => j \in dropped'
  <2>1. CASE j \in kept
        BY <2>1, <1>2, <1>3
  <2>2. CASE j \notin kept
    <3>1. j \notin KeptBy(marked)
          BY <2>2
    <3> QED BY <2>2, <3>1, <1>2, <1>7
  <2> QED BY <2>1, <2>2
<1>15. pc[r] = "new" /\ clock' = clock + 1
       BY DEF Mark
<1> QED BY <1>2, <1>6, <1>9, <1>10, <1>11, <1>12, <1>13, <1>14, <1>15 DEF own

-----------------------------------------------------------------------------
(* A new leader: its event is registered for its id alone.                  *)
LEMMA LeadKeeps ==
  ASSUME GuardInv, NEW r \in Request, Lead(r)
  PROVE  GuardInv'
<1> USE DEF GuardInv
<1>0. IdOf[r] \in Id /\ Entry(Pending) \in StoreEntry
      BY GuardAssumption DEF Entry, StoreEntry, TypeOK
<1>a. /\ pc[r] = "new" /\ clock' = clock + 1
      /\ store' \in [Id -> StoreEntry \union {Absent}]
      /\ events' \in [Id -> Request \union {NoEvent}]
      /\ dropped \subseteq dropped' /\ dropped' \subseteq Id
      /\ store[IdOf[r]] # Absent => IdOf[r] \in dropped'
      BY Marked DEF Lead
<1>b. store'[IdOf[r]] = Entry(Pending) /\ events'[IdOf[r]] = r
      BY Marked DEF Lead
<1>c. \A j \in Id \ {IdOf[r]} :
        \/ store'[j] = store[j] /\ events'[j] = events[j]
        \/ /\ store'[j] = Absent /\ events'[j] = NoEvent
           /\ store[j] # Absent => j \in dropped'
      BY Marked DEF Lead
<1>1. TypeOK'
      BY <1>a DEF TypeOK, Lead
<1>2. StampsPassed'
  <2> SUFFICES ASSUME NEW j \in Id, store'[j] # Absent PROVE store'[j].at < clock'
      BY DEF StampsPassed
  <2>1. CASE j = IdOf[r]
        BY <1>a, <1>b, <2>1 DEF Entry, TypeOK
  <2>2. CASE j # IdOf[r] /\ store'[j] = store[j]
    <3>1. store[j].at \in Nat /\ store[j].at < clock
          BY <2>2 DEF TypeOK, StoreEntry, StampsPassed
    <3> QED BY <1>a, <2>2, <3>1 DEF TypeOK
  <2> QED BY <1>c, <2>1, <2>2
<1>3. EventsAreNew'
      BY DEF EventsAreNew, TypeOK, Lead
<1>4. WaitsOnOwnId'
      BY <1>a DEF WaitsOnOwnId, TypeOK, Lead
<1>5. PendingHasLeader'
  <2> SUFFICES ASSUME NEW j \in Id
               PROVE  /\ (store'[j] # Absent /\ store'[j].result = Pending) <=> events'[j] # NoEvent
                      /\ events'[j] # NoEvent => /\ pc'[events'[j]] = "reading"
                                                /\ IdOf[events'[j]] = j
                                                /\ events'[j] \notin signalled'
      BY DEF PendingHasLeader
  <2>1. CASE j = IdOf[r]
        BY <1>0, <1>a, <1>b, <2>1, SentinelAssumption DEF Entry, EventsAreNew, TypeOK, Lead
  <2>2. CASE j # IdOf[r]
        BY <1>a, <1>c, <2>2 DEF PendingHasLeader, TypeOK, Lead
  <2> QED BY <2>1, <2>2
<1>6. WaiterIsWoken'
  <2> SUFFICES ASSUME NEW q \in Request, pc'[q] = "waiting"
               PROVE  \/ waits_on'[q] \in signalled'
                      \/ events'[IdOf[q]] = waits_on'[q]
                      \/ IdOf[q] \in dropped'
      BY DEF WaiterIsWoken
  <2>1. pc[q] = "waiting" /\ waits_on'[q] = waits_on[q] /\ signalled' = signalled /\ IdOf[q] \in Id
        BY GuardAssumption DEF Lead, TypeOK
  <2>2. waits_on[q] # NoEvent
        BY <2>1 DEF WaitsOnOwnId
  <2> QED BY <1>a, <1>c, <2>1, <2>2 DEF WaiterIsWoken, PendingHasLeader
<1>7. OneLeader'
  <2> SUFFICES ASSUME NEW j \in Id \ dropped'
               PROVE  /\ \A q \in Request : pc'[q] = "reading" /\ IdOf[q] = j => events'[j] = q
                      /\ \A v, w \in executed'[j] : v = w
                      /\ executed'[j] # {} => store'[j] # Absent /\ store'[j].result \in executed'[j]
      BY DEF OneLeader
  <2>0. j \in Id \ dropped /\ executed' = executed
        BY <1>a DEF Lead
  <2>1. CASE j = IdOf[r]
    <3>1. store[j] = Absent
          BY <1>a, <2>1
    <3>2. executed[j] = {} /\ events[j] = NoEvent
          BY <2>0, <3>1 DEF OneLeader, PendingHasLeader
    <3>3. \A q \in Request : IdOf[q] = j => pc[q] # "reading"
          BY <2>0, <3>2, SentinelAssumption DEF OneLeader
    <3> QED BY <1>b, <2>0, <2>1, <3>2, <3>3 DEF Lead, TypeOK
  <2>2. CASE j # IdOf[r]
    <3>1. \A q \in Request : IdOf[q] = j => pc'[q] = pc[q]
          BY <2>2 DEF Lead, TypeOK
    <3>2. store[j] # Absent => store'[j] = store[j] /\ events'[j] = events[j]
          BY <1>c, <2>2
    <3>3. store[j] = Absent => \A q \in Request : IdOf[q] = j => pc[q] # "reading"
          BY <2>0, SentinelAssumption DEF OneLeader, PendingHasLeader
    <3> QED BY <2>0, <3>1, <3>2, <3>3 DEF OneLeader
  <2> QED BY <2>1, <2>2
<1>8. WaiterGetsResult'
      BY <1>a DEF WaiterGetsResult, TypeOK, Lead, WaitsOnOwnId
<1> QED BY <1>1, <1>2, <1>3, <1>4, <1>5, <1>6, <1>7, <1>8 DEF GuardInv

(* A refused leader leaves nothing behind.                                  *)
LEMMA RefuseKeeps ==
  ASSUME GuardInv, NEW r \in Request, Refuse(r)
  PROVE  GuardInv'
<1> USE DEF GuardInv
<1>0. IdOf[r] \in Id /\ Entry(Pending) \in StoreEntry
      BY GuardAssumption DEF Entry, StoreEntry, TypeOK
<1>a. /\ pc[r] = "new" /\ clock' = clock + 1
      /\ store' \in [Id -> StoreEntry \union {Absent}]
      /\ events' \in [Id -> Request \union {NoEvent}]
      /\ dropped \subseteq dropped' /\ dropped' \subseteq Id
      /\ store[IdOf[r]] # Absent => IdOf[r] \in dropped'
      BY Marked DEF Refuse
<1>b. store'[IdOf[r]] = Absent /\ events'[IdOf[r]] = NoEvent
      BY Marked DEF Refuse
<1>c. \A j \in Id \ {IdOf[r]} :
        \/ store'[j] = store[j] /\ events'[j] = events[j]
        \/ /\ store'[j] = Absent /\ events'[j] = NoEvent
           /\ store[j] # Absent => j \in dropped'
      BY Marked DEF Refuse
<1>1. TypeOK'
      BY <1>a DEF TypeOK, Refuse, Answer
<1>2. StampsPassed'
  <2> SUFFICES ASSUME NEW j \in Id, store'[j] # Absent PROVE store'[j].at < clock'
      BY DEF StampsPassed
  <2>1. store'[j] = store[j]
        BY <1>b, <1>c
  <2>2. store[j].at \in Nat /\ store[j].at < clock
        BY <2>1 DEF TypeOK, StoreEntry, StampsPassed
  <2> QED BY <1>a, <2>1, <2>2 DEF TypeOK
<1>3. EventsAreNew'
      BY DEF EventsAreNew, TypeOK, Refuse, Answer
<1>4. WaitsOnOwnId'
      BY <1>a DEF WaitsOnOwnId, TypeOK, Refuse, Answer
<1>5. PendingHasLeader'
  <2> SUFFICES ASSUME NEW j \in Id
               PROVE  /\ (store'[j] # Absent /\ store'[j].result = Pending) <=> events'[j] # NoEvent
                      /\ events'[j] # NoEvent => /\ pc'[events'[j]] = "reading"
                                                /\ IdOf[events'[j]] = j
                                                /\ events'[j] \notin signalled'
      BY DEF PendingHasLeader
  <2> QED BY <1>a, <1>b, <1>c DEF PendingHasLeader, TypeOK, Refuse, Answer
<1>6. WaiterIsWoken'
  <2> SUFFICES ASSUME NEW q \in Request, pc'[q] = "waiting"
               PROVE  \/ waits_on'[q] \in signalled'
                      \/ events'[IdOf[q]] = waits_on'[q]
                      \/ IdOf[q] \in dropped'
      BY DEF WaiterIsWoken
  <2>1. pc[q] = "waiting" /\ waits_on'[q] = waits_on[q] /\ signalled \subseteq signalled' /\ IdOf[q] \in Id
        BY GuardAssumption DEF Refuse, Answer, TypeOK
  <2>2. waits_on[q] # NoEvent
        BY <2>1 DEF WaitsOnOwnId
  <2> QED BY <1>a, <1>c, <2>1, <2>2 DEF WaiterIsWoken, PendingHasLeader
<1>7. OneLeader'
  <2> SUFFICES ASSUME NEW j \in Id \ dropped'
               PROVE  /\ \A q \in Request : pc'[q] = "reading" /\ IdOf[q] = j => events'[j] = q
                      /\ \A v, w \in executed'[j] : v = w
                      /\ executed'[j] # {} => store'[j] # Absent /\ store'[j].result \in executed'[j]
      BY DEF OneLeader
  <2>1. j \in Id \ dropped /\ executed' = executed
        BY <1>a DEF Refuse
  <2>2. \A q \in Request : pc'[q] = "reading" => pc[q] = "reading"
        BY DEF Refuse, Answer, TypeOK
  <2>3. store[j] # Absent => store'[j] = store[j] /\ events'[j] = events[j]
        BY <1>a, <1>c
  <2>4. store[j] = Absent => \A q \in Request : IdOf[q] = j => pc[q] # "reading"
        BY <2>1, SentinelAssumption DEF OneLeader, PendingHasLeader
  <2> QED BY <2>1, <2>2, <2>3, <2>4 DEF OneLeader
<1>8. WaiterGetsResult'
      BY <1>a DEF WaiterGetsResult, TypeOK, Refuse, Answer, WaitsOnOwnId
<1> QED BY <1>1, <1>2, <1>3, <1>4, <1>5, <1>6, <1>7, <1>8 DEF GuardInv

(* An answer from the store changes no other request.                       *)
LEMMA RepeatKeeps ==
  ASSUME GuardInv, NEW r \in Request, Repeat(r)
  PROVE  GuardInv'
<1> USE DEF GuardInv
<1>0. IdOf[r] \in Id
      BY GuardAssumption
<1>1. TypeOK'
      BY <1>0 DEF TypeOK, StoreEntry, Live, Repeat, Answer, guard
<1>2. StampsPassed'
      BY DEF StampsPassed, Repeat, guard
<1>3. EventsAreNew'
      BY DEF EventsAreNew, TypeOK, Repeat, Answer, guard
<1>4. WaitsOnOwnId'
      BY DEF WaitsOnOwnId, TypeOK, Repeat, Answer, guard
<1>5. PendingHasLeader'
      BY DEF PendingHasLeader, TypeOK, Repeat, Answer, guard
<1>6. WaiterIsWoken'
      BY DEF WaiterIsWoken, TypeOK, Repeat, Answer, guard
<1>7. OneLeader'
      BY DEF OneLeader, TypeOK, Repeat, Answer, guard
<1>8. WaiterGetsResult'
      BY DEF WaiterGetsResult, WaitsOnOwnId, TypeOK, Repeat, Answer, guard
<1> QED BY <1>1, <1>2, <1>3, <1>4, <1>5, <1>6, <1>7, <1>8 DEF GuardInv

(* A new waiter holds the event of the leader that is at work.              *)
LEMMA WaitKeeps ==
  ASSUME GuardInv, NEW r \in Request, Wait(r)
  PROVE  GuardInv'
<1> USE DEF GuardInv
<1>0. IdOf[r] \in Id
      BY GuardAssumption
<1>e. events[IdOf[r]] # NoEvent /\ pc[events[IdOf[r]]] = "reading" /\ IdOf[events[IdOf[r]]] = IdOf[r]
      BY <1>0 DEF PendingHasLeader, Live, Wait
<1>1. TypeOK'
      BY <1>0, <1>e DEF TypeOK, Wait, guard
<1>2. StampsPassed'
      BY DEF StampsPassed, Wait, guard
<1>3. EventsAreNew'
      BY <1>e DEF EventsAreNew, TypeOK, Wait, guard
<1>4. WaitsOnOwnId'
  <2>1. /\ pc' = [pc EXCEPT ![r] = "waiting"]
        /\ waits_on' = [waits_on EXCEPT ![r] = events[IdOf[r]]]
        /\ signalled' = signalled
        BY <1>e DEF Wait, guard
  <2>2. \A q \in Request : pc'[q] # "new" \/ pc[q] = "new"
        BY <2>1 DEF TypeOK
  <2>3. \A q \in Request \ {r} : pc'[q] = pc[q] /\ waits_on'[q] = waits_on[q]
        BY <2>1 DEF TypeOK
  <2>4. pc'[r] = "waiting" /\ waits_on'[r] = events[IdOf[r]]
        BY <2>1 DEF TypeOK
  <2>5. pc'[events[IdOf[r]]] # "new"
        BY <1>e, <2>1 DEF TypeOK
  <2> QED BY <1>e, <2>1, <2>2, <2>3, <2>4, <2>5 DEF WaitsOnOwnId, TypeOK
<1>5. PendingHasLeader'
      BY <1>e DEF PendingHasLeader, TypeOK, Wait, guard
<1>6. WaiterIsWoken'
      BY <1>e DEF WaiterIsWoken, TypeOK, Wait, guard
<1>7. OneLeader'
      BY <1>e DEF OneLeader, TypeOK, Wait, guard
<1>8. WaiterGetsResult'
      BY <1>e DEF WaiterGetsResult, TypeOK, Wait
<1> QED BY <1>1, <1>2, <1>3, <1>4, <1>5, <1>6, <1>7, <1>8 DEF GuardInv

(* The write of a leader whose id kept its entry is the first.              *)
LEMMA ExecuteKeeps ==
  ASSUME GuardInv, NEW r \in Request, Execute(r)
  PROVE  GuardInv'
<1> USE DEF GuardInv
<1>0. IdOf[r] \in Id
      BY GuardAssumption
<1>e. events[IdOf[r]] # NoEvent =>
        events[IdOf[r]] \in Request /\ pc[events[IdOf[r]]] = "reading" /\ IdOf[events[IdOf[r]]] = IdOf[r]
      BY <1>0 DEF PendingHasLeader, TypeOK
<1>i. Entry(r) \in StoreEntry /\ Entry(r).result = r /\ Entry(r).at = clock
      BY DEF Entry, StoreEntry, TypeOK
<1>1. TypeOK'
      BY <1>0, <1>e, <1>i DEF TypeOK, Execute, Record, SetEvent, Answer
<1>2. StampsPassed'
      BY <1>0, <1>i DEF StampsPassed, TypeOK, StoreEntry, Execute, Record
<1>3. EventsAreNew'
      BY <1>e DEF EventsAreNew, TypeOK, Execute, SetEvent, Answer
<1>4. WaitsOnOwnId'
      BY <1>e DEF WaitsOnOwnId, TypeOK, Execute, SetEvent, Answer
<1>5. PendingHasLeader'
      BY <1>0, <1>e, <1>i, SentinelAssumption DEF PendingHasLeader, TypeOK, Execute, Record, SetEvent, Answer
<1>6. WaiterIsWoken'
  <2> SUFFICES ASSUME NEW q \in Request, pc'[q] = "waiting"
               PROVE  \/ waits_on'[q] \in signalled'
                      \/ events'[IdOf[q]] = waits_on'[q]
                      \/ IdOf[q] \in dropped'
      BY DEF WaiterIsWoken
  <2>1. pc[q] = "waiting" /\ waits_on[q] # NoEvent
        BY DEF Execute, Answer, TypeOK, WaitsOnOwnId
  <2> QED BY <1>e, <2>1 DEF WaiterIsWoken, Execute, SetEvent, TypeOK
<1>7. OneLeader'
  <2> SUFFICES ASSUME NEW j \in Id \ dropped
               PROVE  /\ \A q \in Request : pc'[q] = "reading" /\ IdOf[q] = j => events'[j] = q
                      /\ \A v, w \in executed'[j] : v = w
                      /\ executed'[j] # {} => store'[j] # Absent /\ store'[j].result \in executed'[j]
      BY DEF OneLeader, Execute
  <2>1. CASE j = IdOf[r]
    <3>1. events[j] = r /\ store[j].result = Pending
          BY <2>1, SentinelAssumption DEF OneLeader, PendingHasLeader, Execute
    <3>2. executed[j] = {}
      <4>1. Pending \notin executed[j]
            BY SentinelAssumption DEF TypeOK
      <4> QED BY <3>1, <4>1 DEF OneLeader
    <3>3. executed'[j] = {r}
          BY <2>1, <3>2 DEF Execute, TypeOK
    <3>4. store'[j] = Entry(r) /\ Entry(r) # Absent
          BY <1>i, <2>1, SentinelAssumption DEF Execute, Record, TypeOK
    <3>5. \A q \in Request : pc'[q] = "reading" => q # r /\ pc[q] = "reading"
          BY DEF Execute, Answer, TypeOK
    <3>6. \A q \in Request : pc[q] = "reading" /\ IdOf[q] = j => q = r
          BY <3>1 DEF OneLeader
    <3> QED BY <1>i, <3>3, <3>4, <3>5, <3>6
  <2>2. CASE j # IdOf[r]
    <3>1. executed'[j] = executed[j] /\ store'[j] = store[j] /\ events'[j] = events[j]
          BY <2>2 DEF Execute, Record, SetEvent, TypeOK
    <3>2. \A q \in Request : pc'[q] = "reading" => pc[q] = "reading"
          BY DEF Execute, Answer, TypeOK
    <3> QED BY <3>1, <3>2 DEF OneLeader
  <2> QED BY <2>1, <2>2
<1>8. WaiterGetsResult'
  <2> SUFFICES ASSUME NEW q \in Request, pc'[q] = "done", waits_on[q] # NoEvent,
                      IdOf[q] \notin dropped, waits_on[q] \in executed'[IdOf[q]]
               PROVE  answer'[q] = waits_on[q]
      BY DEF WaiterGetsResult, Execute
  <2>0. IdOf[q] \in Id \ dropped
        BY GuardAssumption
  <2>1. q # r /\ pc[q] = "done" /\ answer'[q] = answer[q]
        BY DEF WaitsOnOwnId, Execute, Answer, TypeOK
  <2>2. waits_on[q] \in signalled
        BY <2>1 DEF WaitsOnOwnId
  <2>3. waits_on[q] # r
        BY <1>0, <2>0, <2>2, SentinelAssumption DEF OneLeader, PendingHasLeader, WaitsOnOwnId, Execute
  <2>4. waits_on[q] \in executed[IdOf[q]]
        BY <2>0, <2>3 DEF Execute, TypeOK
  <2> QED BY <2>0, <2>1, <2>4 DEF WaiterGetsResult
<1> QED BY <1>1, <1>2, <1>3, <1>4, <1>5, <1>6, <1>7, <1>8 DEF GuardInv

(* A leader that fails wakes its waiters.                                   *)
LEMMA FailKeeps ==
  ASSUME GuardInv, NEW r \in Request, Fail(r)
  PROVE  GuardInv'
<1> USE DEF GuardInv
<1>0. IdOf[r] \in Id
      BY GuardAssumption
<1>e. events[IdOf[r]] # NoEvent =>
        events[IdOf[r]] \in Request /\ pc[events[IdOf[r]]] = "reading" /\ IdOf[events[IdOf[r]]] = IdOf[r]
      BY <1>0 DEF PendingHasLeader, TypeOK
<1>1. TypeOK'
      BY <1>0, <1>e DEF TypeOK, Fail, SetEvent, Answer
<1>2. StampsPassed'
      BY <1>0 DEF StampsPassed, TypeOK, Fail
<1>3. EventsAreNew'
      BY <1>e DEF EventsAreNew, TypeOK, Fail, SetEvent, Answer
<1>4. WaitsOnOwnId'
      BY <1>e DEF WaitsOnOwnId, TypeOK, Fail, SetEvent, Answer
<1>5. PendingHasLeader'
      BY <1>0, <1>e DEF PendingHasLeader, TypeOK, Fail, SetEvent, Answer
<1>6. WaiterIsWoken'
  <2> SUFFICES ASSUME NEW q \in Request, pc'[q] = "waiting"
               PROVE  \/ waits_on'[q] \in signalled'
                      \/ events'[IdOf[q]] = waits_on'[q]
                      \/ IdOf[q] \in dropped'
      BY DEF WaiterIsWoken
  <2>1. pc[q] = "waiting" /\ waits_on[q] # NoEvent
        BY DEF Fail, Answer, TypeOK, WaitsOnOwnId
  <2> QED BY <1>e, <2>1 DEF WaiterIsWoken, Fail, SetEvent, TypeOK
<1>7. OneLeader'
  <2> SUFFICES ASSUME NEW j \in Id \ dropped
               PROVE  /\ \A q \in Request : pc'[q] = "reading" /\ IdOf[q] = j => events'[j] = q
                      /\ \A v, w \in executed[j] : v = w
                      /\ executed[j] # {} => store'[j] # Absent /\ store'[j].result \in executed[j]
      BY DEF OneLeader, Fail
  <2>1. \A q \in Request : pc'[q] = "reading" => q # r /\ pc[q] = "reading"
        BY DEF Fail, Answer, TypeOK
  <2>2. CASE j = IdOf[r]
    <3>1. events[j] = r /\ store[j].result = Pending
          BY <2>2, SentinelAssumption DEF OneLeader, PendingHasLeader, Fail
    <3>2. executed[j] = {}
      <4>1. Pending \notin executed[j]
            BY SentinelAssumption DEF TypeOK
      <4> QED BY <3>1, <4>1 DEF OneLeader
    <3> QED BY <2>1, <3>1, <3>2 DEF OneLeader
  <2>3. CASE j # IdOf[r]
    <3>1. store'[j] = store[j] /\ events'[j] = events[j]
          BY <2>3 DEF Fail, SetEvent, TypeOK
    <3> QED BY <2>1, <3>1 DEF OneLeader
  <2> QED BY <2>2, <2>3
<1>8. WaiterGetsResult'
      BY DEF WaiterGetsResult, WaitsOnOwnId, TypeOK, Fail, Answer
<1> QED BY <1>1, <1>2, <1>3, <1>4, <1>5, <1>6, <1>7, <1>8 DEF GuardInv

(* A woken waiter finds the only result there can be.                       *)
LEMMA WakeKeeps ==
  ASSUME GuardInv, NEW r \in Request, Wake(r)
  PROVE  GuardInv'
<1> USE DEF GuardInv
<1>0. IdOf[r] \in Id
      BY GuardAssumption
<1>1. TypeOK'
      BY <1>0 DEF TypeOK, StoreEntry, Wake, ResultOrNull, Answer, guard
<1>2. StampsPassed'
      BY DEF StampsPassed, Wake, guard
<1>3. EventsAreNew'
      BY DEF EventsAreNew, TypeOK, Wake, Answer, guard
<1>4. WaitsOnOwnId'
      BY DEF WaitsOnOwnId, TypeOK, Wake, Answer, guard
<1>5. PendingHasLeader'
      BY DEF PendingHasLeader, TypeOK, Wake, Answer, guard
<1>6. WaiterIsWoken'
      BY DEF WaiterIsWoken, TypeOK, Wake, Answer, guard
<1>7. OneLeader'
      BY DEF OneLeader, TypeOK, Wake, Answer, guard
<1>8. WaiterGetsResult'
  <2> SUFFICES ASSUME NEW q \in Request, pc'[q] = "done", waits_on[q] # NoEvent,
                      IdOf[q] \notin dropped, waits_on[q] \in executed[IdOf[q]]
               PROVE  answer'[q] = waits_on[q]
      BY DEF WaiterGetsResult, Wake
  <2>1. CASE q = r
    <3>1. store[IdOf[r]] # Absent /\ store[IdOf[r]].result = waits_on[r]
          BY <1>0, <2>1 DEF OneLeader
    <3>2. waits_on[r] # Pending
          BY <2>1, SentinelAssumption DEF TypeOK
    <3> QED BY <2>1, <3>1, <3>2 DEF Wake, Answer, ResultOrNull, TypeOK
  <2>2. CASE q # r
        BY <2>2 DEF WaiterGetsResult, Wake, Answer, TypeOK
  <2> QED BY <2>1, <2>2
<1> QED BY <1>1, <1>2, <1>3, <1>4, <1>5, <1>6, <1>7, <1>8 DEF GuardInv

(* Giving up changes nothing in the guard.                                  *)
LEMMA TimeOutKeeps ==
  ASSUME GuardInv, NEW r \in Request, TimeOut(r)
  PROVE  GuardInv'
<1> USE DEF GuardInv
<1>1. TypeOK'
      BY DEF TypeOK, TimeOut, guard
<1>2. StampsPassed'
      BY DEF StampsPassed, TimeOut, guard
<1>3. EventsAreNew'
      BY DEF EventsAreNew, TypeOK, TimeOut, guard
<1>4. WaitsOnOwnId'
      BY DEF WaitsOnOwnId, TypeOK, TimeOut, guard
<1>5. PendingHasLeader'
      BY DEF PendingHasLeader, TypeOK, TimeOut, guard
<1>6. WaiterIsWoken'
      BY DEF WaiterIsWoken, TypeOK, TimeOut, guard
<1>7. OneLeader'
      BY DEF OneLeader, TypeOK, TimeOut, guard
<1>8. WaiterGetsResult'
      BY DEF WaiterGetsResult, TypeOK, TimeOut
<1> QED BY <1>1, <1>2, <1>3, <1>4, <1>5, <1>6, <1>7, <1>8 DEF GuardInv

(* An entry that expires stays in the store until it is looked at.          *)
LEMMA AgeKeeps ==
  ASSUME GuardInv, NEW i \in Id, Age(i)
  PROVE  GuardInv'
<1> USE DEF GuardInv
<1>0. /\ store' \in [Id -> StoreEntry \union {Absent}]
      /\ \A j \in Id : /\ store'[j] = Absent <=> store[j] = Absent
                       /\ store[j] # Absent => /\ store'[j].result = store[j].result
                                               /\ store'[j].at = store[j].at
  <2>1. store[i] \in StoreEntry /\ store' = [store EXCEPT ![i] = [store[i] EXCEPT !.expired = TRUE]]
        BY DEF TypeOK, Age, Live
  <2>2. /\ [store[i] EXCEPT !.expired = TRUE] \in StoreEntry
        /\ [store[i] EXCEPT !.expired = TRUE].result = store[i].result
        /\ [store[i] EXCEPT !.expired = TRUE].at = store[i].at
        BY <2>1 DEF StoreEntry
  <2> QED BY <2>1, <2>2, SentinelAssumption DEF TypeOK
<1>1. TypeOK'
      BY <1>0 DEF TypeOK, Age
<1>2. StampsPassed'
      BY <1>0 DEF StampsPassed, Age
<1>3. EventsAreNew'
      BY DEF EventsAreNew, Age
<1>4. WaitsOnOwnId'
      BY DEF WaitsOnOwnId, Age
<1>5. PendingHasLeader'
      BY <1>0 DEF PendingHasLeader, Age
<1>6. WaiterIsWoken'
      BY DEF WaiterIsWoken, Age
<1>7. OneLeader'
      BY <1>0 DEF OneLeader, Age
<1>8. WaiterGetsResult'
      BY DEF WaiterGetsResult, Age
<1> QED BY <1>1, <1>2, <1>3, <1>4, <1>5, <1>6, <1>7, <1>8 DEF GuardInv

(* Every action keeps the invariant.                                        *)
LEMMA GuardInductive == GuardInv /\ [Next]_vars => GuardInv'
<1> SUFFICES ASSUME GuardInv, [Next]_vars
             PROVE  GuardInv'
    OBVIOUS
<1>1. ASSUME NEW r \in Request, Arrive(r) PROVE GuardInv'
      BY <1>1, LeadKeeps, RefuseKeeps, RepeatKeeps, WaitKeeps DEF Arrive
<1>2. ASSUME NEW r \in Request, Execute(r) PROVE GuardInv'
      BY <1>2, ExecuteKeeps
<1>3. ASSUME NEW r \in Request, Fail(r) PROVE GuardInv'
      BY <1>3, FailKeeps
<1>4. ASSUME NEW r \in Request, Wake(r) PROVE GuardInv'
      BY <1>4, WakeKeeps
<1>5. ASSUME NEW r \in Request, TimeOut(r) PROVE GuardInv'
      BY <1>5, TimeOutKeeps
<1>6. ASSUME NEW i \in Id, Age(i) PROVE GuardInv'
      BY <1>6, AgeKeeps
<1>7. CASE UNCHANGED vars
      BY <1>7 DEF vars, guard, GuardInv, TypeOK, StampsPassed, EventsAreNew, WaitsOnOwnId,
                  PendingHasLeader, WaiterIsWoken, OneLeader, WaiterGetsResult
<1> QED BY <1>1, <1>2, <1>3, <1>4, <1>5, <1>6, <1>7 DEF Next

(* The invariant holds from the first state on.                             *)
LEMMA GuardInvariant == Spec => []GuardInv
<1>1. Init => GuardInv
  <2> SUFFICES ASSUME Init PROVE GuardInv
      OBVIOUS
  <2>1. TypeOK
        BY DEF Init, TypeOK
  <2>2. StampsPassed /\ EventsAreNew /\ WaitsOnOwnId
        BY DEF Init, StampsPassed, EventsAreNew, WaitsOnOwnId
  <2>3. PendingHasLeader /\ WaiterIsWoken
        BY DEF Init, PendingHasLeader, WaiterIsWoken
  <2>4. OneLeader
        BY DEF Init, OneLeader
  <2>5. WaiterGetsResult
        BY DEF Init, WaiterGetsResult
  <2> QED BY <2>1, <2>2, <2>3, <2>4, <2>5 DEF GuardInv
<1> QED BY <1>1, GuardInductive, PTL DEF Spec

-----------------------------------------------------------------------------
(* The types, for any requests and ids.                                     *)
THEOREM GuardTypes == Spec => []TypeOK
<1>1. GuardInv => TypeOK
      BY DEF GuardInv
<1> QED BY <1>1, GuardInvariant, PTL

(* While its entry is not lost to the TTL or the cleanup, an id has its     *)
(* write executed once, whatever duplicates, refusals, failures and         *)
(* time-outs come (resilience.py:181-249).                                  *)
THEOREM Once == Spec => []ExecutedOnce
<1>1. GuardInv => ExecutedOnce
  <2> SUFFICES ASSUME GuardInv, NEW i \in Id \ dropped
               PROVE  ~(Cardinality(executed[i]) > 1)
      BY DEF ExecutedOnce
  <2>1. \A v, w \in executed[i] : v = w
        BY DEF GuardInv, OneLeader
  <2>2. CASE executed[i] = {}
        BY <2>2, FS_EmptySet
  <2>3. CASE executed[i] # {}
    <3>1. PICK w : executed[i] = {w}
          BY <2>1, <2>3
    <3> QED BY <3>1, FS_Singleton
  <2> QED BY <2>2, <2>3
<1> QED BY <1>1, GuardInvariant, PTL

(* An id that is marked pending has a leader at work that will set its      *)
(* event, also when an entry was lost and two leaders share an id.          *)
THEOREM LeaderAtWork == Spec => []PendingHasLeader
<1>1. GuardInv => PendingHasLeader
      BY DEF GuardInv
<1> QED BY <1>1, GuardInvariant, PTL

(* No waiter is forgotten while its id keeps its entry.                     *)
THEOREM NoWaiterForgotten == Spec => []WaiterIsWoken
<1>1. GuardInv => WaiterIsWoken
      BY DEF GuardInv
<1> QED BY <1>1, GuardInvariant, PTL

(* A waiter of a leader that wrote is answered with that leader's result.   *)
THEOREM ResultDelivered == Spec => []WaiterGetsResult
<1>1. GuardInv => WaiterGetsResult
      BY DEF GuardInv
<1> QED BY <1>1, GuardInvariant, PTL
=============================================================================
