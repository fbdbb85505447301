------------------------ MODULE RequestPipelineProofs ------------------------
(***************************************************************************)
(* Proofs about RequestPipeline, for any requests, ids, thresholds and     *)
(* number of retries.  A step of a handler is a step of the guard and one  *)
(* of the breaker, or leaves them alone; the invariant ties them together. *)
(* The last part is about the breaker alone: the counters of a half-open   *)
(* episode make its safety invariants inductive, and that it is never      *)
(* wedged while the ring has nodes needs, besides, that every probe of the *)
(* episode is either in flight or counted as a success.                    *)
(***************************************************************************)
EXTENDS RequestPipeline, FiniteSetTheorems, TLAPS

(* A step of a handler is a step of the guard, or leaves it alone.          *)
LEMMA StepOfGuard ==
  ASSUME [Next]_vars
  PROVE  [G!Next]_(G!vars)
<1>1. ASSUME NEW r \in Put, Limited(r) \/ CircuitOpen(r) \/ Duplicate(r)
      PROVE  G!Next
  BY <1>1 DEF Limited, CircuitOpen, Duplicate, G!Next, G!Arrive
<1>2. ASSUME NEW r \in Put, Waiting(r) PROVE G!Next
  BY <1>2 DEF Waiting, G!Next
<1>3. ASSUME NEW r \in Guarded, Begin(r) PROVE G!Next \/ UNCHANGED guard
  BY <1>3 DEF Begin, G!Next, G!Arrive
<1>4. ASSUME NEW r \in Guarded, Succeed(r) PROVE G!Next \/ UNCHANGED guard
  BY <1>4 DEF Succeed, G!Next
<1>5. ASSUME NEW r \in Guarded, Fail(r) \/ NoNode(r) PROVE G!Next \/ UNCHANGED guard
  BY <1>5 DEF Fail, NoNode, G!Next
<1>6. ASSUME NEW r, Retry(r) PROVE UNCHANGED guard
  BY <1>6 DEF Retry
<1>7. ASSUME NEW r \in Del, BeginDelete(r) \/ EndDelete(r) PROVE UNCHANGED guard
  BY <1>7 DEF BeginDelete, EndDelete
<1>8. ASSUME NEW i \in Id, Expire(i) PROVE G!Next
  BY <1>8 DEF Expire, G!Next
<1>9. ASSUME Cooldown PROVE UNCHANGED guard
  BY <1>9 DEF Cooldown
<1>10. ASSUME UNCHANGED vars PROVE UNCHANGED guard
  BY <1>10 DEF vars
<1>11. UNCHANGED guard => UNCHANGED G!vars
  BY DEF guard, G!vars, G!guard
<1> QED
  BY <1>1, <1>2, <1>3, <1>4, <1>5, <1>6, <1>7, <1>8, <1>9, <1>10, <1>11 DEF Next, Progress

(* The handlers use the guard as its module says, whatever the limiter, the *)
(* breaker and the attempts do (cache_service.py:90-146).                   *)
THEOREM ImplementsGuard == Spec => G!Spec
<1>1. Init => G!Init
  BY DEF Init
<1> QED
  BY <1>1, StepOfGuard, PTL DEF Spec, G!Spec

-----------------------------------------------------------------------------
(* The guard's steps keep its types.                                        *)
LEMMA GuardTypesKept ==
  ASSUME G!TypeOK, [G!Next]_(G!vars)
  PROVE  G!TypeOK'
<1> USE DEF G!TypeOK
<1>0. \A r \in Put : IdOf[r] \in Id
  BY PartsAssumption
<1>1. \A r \in Put \union {Pending} : G!Entry(r) \in G!StoreEntry
  BY DEF G!Entry, G!StoreEntry
<1>2. ASSUME NEW r \in Put, NEW refused \in BOOLEAN, G!Mark(r, refused)
      PROVE  /\ store' \in [Id -> G!StoreEntry \union {Absent}]
             /\ events' \in [Id -> Put \union {NoEvent}]
             /\ clock' \in Nat /\ dropped' \subseteq Id
  <2> DEFINE marked == [store EXCEPT ![IdOf[r]] = G!Entry(Pending)]
  <2>1. marked \in [Id -> G!StoreEntry \union {Absent}]
    BY <1>0, <1>1
  <2>2. \A st : G!Present(st) \subseteq Id
    BY DEF G!Present
  <2> QED
    BY <1>0, <1>2, <2>1, <2>2 DEF G!Mark
<1>3. ASSUME NEW r \in Put, G!Lead(r) \/ G!Refuse(r) PROVE G!TypeOK'
  <2>1. CASE G!Lead(r)
    BY <1>2, <2>1 DEF G!Lead
  <2>2. CASE G!Refuse(r)
    BY <1>2, <2>2 DEF G!Refuse, G!Answer
  <2> QED
    BY <1>3, <2>1, <2>2
<1>4. \A i \in Id : store[i] # Absent /\ store[i].result # Pending => store[i].result \in Put
  BY DEF G!StoreEntry
<1>5. ASSUME NEW r \in Put, G!Repeat(r) PROVE G!TypeOK'
  BY <1>0, <1>4, <1>5 DEF G!Repeat, G!Live, G!Answer, G!guard
<1>6. ASSUME NEW r \in Put, G!Wait(r) PROVE G!TypeOK'
  BY <1>0, <1>6 DEF G!Wait, G!Answer, G!guard
<1>7. ASSUME NEW r \in Put, G!Execute(r) PROVE G!TypeOK'
  BY <1>0, <1>1, <1>7 DEF G!Execute, G!Record, G!SetEvent, G!Answer
<1>8. ASSUME NEW r \in Put, G!Fail(r) PROVE G!TypeOK'
  BY <1>0, <1>8 DEF G!Fail, G!SetEvent, G!Answer
<1>9. ASSUME NEW r \in Put, G!Wake(r) \/ G!TimeOut(r) PROVE G!TypeOK'
  BY <1>0, <1>4, <1>9 DEF G!Wake, G!TimeOut, G!ResultOrNull, G!Answer, G!guard
<1>10. ASSUME NEW i \in Id, G!Age(i) PROVE G!TypeOK'
  <2>0. store[i] \in G!StoreEntry
    BY <1>10 DEF G!Age, G!Live
  <2>1. [store[i] EXCEPT !.expired = TRUE] \in G!StoreEntry
    BY <2>0 DEF G!StoreEntry
  <2> QED
    BY <1>10, <2>1 DEF G!Age
<1> QED
  BY <1>3, <1>5, <1>6, <1>7, <1>8, <1>9, <1>10 DEF G!Next, G!Arrive, G!vars, G!guard

(* The guard keeps its types under the handlers.                            *)
LEMMA GuardTypes == Spec => []G!TypeOK
<1>1. G!Init => G!TypeOK
  BY DEF G!Init, G!TypeOK
<1> QED
  BY <1>1, GuardTypesKept, ImplementsGuard, PTL DEF G!Spec

(* The breaker's requests in flight are some that ask it.                   *)
Types == TypeOK /\ inflight \subseteq Guarded

(* A PUT reads its body, and sleeps between attempts, while it is in flight.*)
Leading == {r \in Put : pc[r] = "reading"} = inflight \intersect Put

(* Who waits for an id waits for a PUT of that id that reads its body.      *)
EventsLed ==
  \A i \in Id : events[i] # NoEvent => pc[events[i]] = "reading" /\ IdOf[events[i]] = i

(* Before its answer a PUT has none, and has executed nothing.              *)
Unanswered ==
  \A r \in Put : pc[r] \in {"new", "reading", "waiting"} =>
    answer[r] = "none" /\ r \notin executed[IdOf[r]]

(* What is to be invariant holds initially.                                 *)
LEMMA PipelineInitially == Init => Types /\ Leading /\ EventsLed /\ Unanswered /\ AnswersCounted
BY PipelineAssumption, PartsAssumption
   DEF Init, G!Init, B!Init, Types, TypeOK, AtWork, Leading, EventsLed, Unanswered,
       AnswersCounted

(* The steps that move a request in or out leave the attempts of the others *)
(* alone, and a request that is not at work has no failed attempt.          *)
LEMMA TypesKept ==
  ASSUME Types, [Next]_vars
  PROVE  Types'
<1> USE DEF Types, TypeOK, AtWork
<1>1. ASSUME NEW r \in Guarded, Begin(r) PROVE Types'
  <2>1. inflight' = inflight \union {r} /\ UNCHANGED <<deleting, attempt, counted>>
    BY <1>1 DEF Begin, B!Admit, B!AdmitClosed, B!AdmitAfterCooldown, B!AdmitProbe
  <2> QED
    BY <2>1
<1>2. ASSUME NEW r \in Guarded \union Del, Retry(r) PROVE Types'
  <2>1. attempt' = [attempt EXCEPT ![r] = attempt[r] + 1] /\ attempt[r] + 1 \in 0 .. MaxRetries
        /\ AtWork(r) /\ UNCHANGED <<inflight, deleting, counted>>
    BY <1>2, PipelineAssumption DEF Retry, breaker
  <2> QED
    BY <2>1
<1>3. ASSUME NEW r \in Guarded, Succeed(r) \/ Fail(r) \/ NoNode(r) PROVE Types'
  <2>1. /\ inflight' = inflight \ {r} /\ UNCHANGED deleting
        /\ attempt' = [attempt EXCEPT ![r] = 0]
        /\ counted' = counted \/ (r \in Put /\ counted' = [counted EXCEPT ![r] = "ok"])
    <3>1. attempt[r] = 0 => attempt = [attempt EXCEPT ![r] = 0]
      OBVIOUS
    <3> QED
      BY <1>3, <3>1
         DEF Succeed, Fail, NoNode, Ended, Count, B!RecordSuccess, B!RecordFailure,
             B!NoAvailableNode, B!Finish
  <2> QED
    BY <2>1, PipelineAssumption
<1>4. ASSUME NEW r \in Put, Limited(r) \/ CircuitOpen(r) PROVE Types'
  <2>1. UNCHANGED <<inflight, deleting, attempt>>
    BY <1>4 DEF Limited, CircuitOpen, breaker
  <2>2. counted' \in [Put -> {"not", "ok", "rate_limited", "circuit_open"}]
    BY <1>4 DEF Limited, CircuitOpen, Count
  <2> QED
    BY <2>1, <2>2
<1>5. ASSUME NEW r \in Del, BeginDelete(r) PROVE Types'
  BY <1>5 DEF BeginDelete, breaker
<1>6. ASSUME NEW r \in Del, EndDelete(r) PROVE Types'
  <2>1. deleting' = deleting \ {r} /\ attempt' = [attempt EXCEPT ![r] = 0]
        /\ UNCHANGED <<inflight, counted>>
    BY <1>6 DEF EndDelete, Ended, breaker
  <2> QED
    BY <2>1, PipelineAssumption
<1>7. ASSUME UNCHANGED <<inflight, deleting, attempt, counted>> PROVE Types'
  BY <1>7
<1> QED
  BY <1>1, <1>2, <1>3, <1>4, <1>5, <1>6, <1>7
     DEF Next, Progress, Duplicate, Waiting, Expire, Cooldown, B!Cooldown, vars, breaker

(* The guard gives a PUT the lead in the step in which the breaker lets it  *)
(* in, and takes it away in the step in which it leaves the breaker.        *)
LEMMA LeadingKept ==
  ASSUME G!TypeOK, Leading, [Next]_vars
  PROVE  Leading'
<1> USE DEF Leading
<1>1. pc = [r \in Put |-> pc[r]]
  BY DEF G!TypeOK
<1>2. ASSUME NEW r \in Guarded, Begin(r) PROVE Leading'
  <2>1. inflight' = inflight \union {r}
    BY <1>2 DEF Begin, B!Admit, B!AdmitClosed, B!AdmitAfterCooldown, B!AdmitProbe
  <2>2. IF r \in Put THEN pc' = [pc EXCEPT ![r] = "reading"] ELSE pc' = pc
    BY <1>2 DEF Begin, G!Lead, guard
  <2> QED
    BY <1>1, <2>1, <2>2
<1>3. ASSUME NEW r \in Guarded, Succeed(r) \/ Fail(r) \/ NoNode(r) PROVE Leading'
  <2>1. inflight' = inflight \ {r}
    BY <1>3
       DEF Succeed, Fail, NoNode, B!RecordSuccess, B!RecordFailure, B!NoAvailableNode, B!Finish
  <2>2. IF r \in Put THEN pc' = [pc EXCEPT ![r] = "done"] ELSE pc' = pc
    BY <1>3 DEF Succeed, Fail, NoNode, G!Execute, G!Fail, G!Answer, guard
  <2> QED
    BY <1>1, <2>1, <2>2
<1>4. ASSUME NEW r \in Put, Limited(r) \/ CircuitOpen(r) \/ Duplicate(r) PROVE Leading'
  <2>1. UNCHANGED inflight /\ pc[r] = "new"
    BY <1>4 DEF Limited, CircuitOpen, Duplicate, G!Refuse, G!Mark, G!Repeat, G!Wait, breaker
  <2>2. pc' = [pc EXCEPT ![r] = "done"] \/ pc' = [pc EXCEPT ![r] = "waiting"]
    BY <1>4 DEF Limited, CircuitOpen, Duplicate, G!Refuse, G!Repeat, G!Wait, G!Answer
  <2> QED
    BY <1>1, <2>1, <2>2
<1>5. ASSUME NEW r \in Put, Waiting(r) PROVE Leading'
  <2>1. UNCHANGED inflight /\ pc[r] = "waiting"
    BY <1>5 DEF Waiting, G!Wake, G!TimeOut, breaker
  <2>2. pc' = [pc EXCEPT ![r] = "done"] \/ pc' = [pc EXCEPT ![r] = "gave_up"]
    BY <1>5 DEF Waiting, G!Wake, G!TimeOut, G!Answer
  <2> QED
    BY <1>1, <2>1, <2>2
<1>6. ASSUME UNCHANGED <<pc, inflight>> PROVE Leading'
  BY <1>6
<1> QED
  BY <1>2, <1>3, <1>4, <1>5, <1>6
     DEF Next, Progress, Retry, BeginDelete, EndDelete, Expire, G!Age, Cooldown, B!Cooldown,
         vars, guard, breaker

(* An event is registered with the lead, for its own id, and forgotten when *)
(* the leader is done.                                                      *)
LEMMA EventsKept ==
  ASSUME G!TypeOK, EventsLed, [G!Next]_(G!vars)
  PROVE  EventsLed'
<1> USE DEF EventsLed
<1>1. /\ pc = [q \in Put |-> pc[q]] /\ events = [i \in Id |-> events[i]]
      /\ \A i \in Id : events[i] # NoEvent => events[i] \in Put
      /\ \A q \in Put : IdOf[q] \in Id
  BY PartsAssumption DEF G!TypeOK
<1>2. ASSUME NEW r \in Put, G!Lead(r) PROVE EventsLed'
  <2>1. /\ \A i \in Id : events'[i] \in {events[i], NoEvent} \/ (i = IdOf[r] /\ events'[i] = r)
        /\ pc' = [pc EXCEPT ![r] = "reading"]
    BY <1>2 DEF G!Lead, G!Mark
  <2> QED
    BY <1>1, <2>1
<1>3. ASSUME NEW r \in Put, G!Refuse(r) PROVE EventsLed'
  <2>1. /\ \A i \in Id : events'[i] \in {events[i], NoEvent}
        /\ pc[r] = "new" /\ pc' = [pc EXCEPT ![r] = "done"]
    BY <1>3 DEF G!Refuse, G!Mark, G!Answer
  <2> QED
    BY <1>1, <2>1
<1>4. ASSUME NEW r \in Put, G!Execute(r) \/ G!Fail(r) PROVE EventsLed'
  <2>1. events' = [events EXCEPT ![IdOf[r]] = NoEvent] /\ pc' = [pc EXCEPT ![r] = "done"]
    BY <1>4 DEF G!Execute, G!Fail, G!SetEvent, G!Answer
  <2> QED
    BY <1>1, <2>1
<1>5. ASSUME NEW r \in Put, G!Repeat(r) \/ G!Wait(r) \/ G!Wake(r) \/ G!TimeOut(r)
      PROVE  EventsLed'
  <2>1. /\ UNCHANGED events /\ pc[r] \in {"new", "waiting"}
        /\ \E where : pc' = [pc EXCEPT ![r] = where]
    BY <1>5 DEF G!Repeat, G!Wait, G!Wake, G!TimeOut, G!Answer, G!guard
  <2> QED
    BY <1>1, <2>1
<1>6. ASSUME UNCHANGED <<events, pc>> PROVE EventsLed'
  BY <1>6
<1> QED
  BY <1>2, <1>3, <1>4, <1>5, <1>6 DEF G!Next, G!Arrive, G!Age, G!vars, G!guard

(* Each PUT is answered once, in the step in which it is counted, or as a   *)
(* duplicate.                                                               *)
LEMMA AnswersKept ==
  ASSUME G!TypeOK, Types, Unanswered, AnswersCounted, [Next]_vars
  PROVE  Unanswered' /\ AnswersCounted'
<1> USE DEF Unanswered, AnswersCounted
<1>1. /\ pc = [q \in Put |-> pc[q]] /\ answer = [q \in Put |-> answer[q]]
      /\ executed = [i \in Id |-> executed[i]] /\ counted = [q \in Put |-> counted[q]]
      /\ \A q \in Put : IdOf[q] \in Id
  BY PartsAssumption DEF G!TypeOK, Types, TypeOK
<1>2. ASSUME NEW r \in Put, Limited(r) \/ CircuitOpen(r) PROVE Unanswered' /\ AnswersCounted'
  <2>1. /\ pc[r] = "new" /\ UNCHANGED executed
        /\ pc' = [pc EXCEPT ![r] = "done"] /\ answer' = [answer EXCEPT ![r] = "refused"]
        /\ \/ counted' = [counted EXCEPT ![r] = "rate_limited"]
           \/ counted' = [counted EXCEPT ![r] = "circuit_open"]
    BY <1>2 DEF Limited, CircuitOpen, G!Refuse, G!Mark, G!Answer, Count
  <2> QED
    BY <1>1, <2>1
<1>3. ASSUME NEW r \in Put, Duplicate(r) \/ Waiting(r) PROVE Unanswered' /\ AnswersCounted'
  <2>1. pc[r] \in {"new", "waiting"} /\ UNCHANGED <<executed, counted>>
    BY <1>3 DEF Duplicate, Waiting, G!Repeat, G!Wait, G!Wake, G!TimeOut
  <2>2. \/ pc' = [pc EXCEPT ![r] = "waiting"] /\ UNCHANGED answer
        \/ \E a \in Put \union {Null} :
             /\ pc' = [pc EXCEPT ![r] = "done"] \/ pc' = [pc EXCEPT ![r] = "gave_up"]
             /\ answer' = [answer EXCEPT ![r] = a]
    <3>1. \A i \in Id : store[i] # Absent => store[i].result \in Put \union {Pending}
      BY DEF G!TypeOK, G!StoreEntry
    <3>2. CASE G!Repeat(r)
      <4>1. store[IdOf[r]].result \in Put
        BY <1>1, <3>1, <3>2 DEF G!Repeat, G!Live
      <4> QED
        BY <3>2, <4>1 DEF G!Repeat, G!Answer
    <3>3. CASE G!Wait(r)
      BY <3>3 DEF G!Wait, G!Answer
    <3>4. CASE G!Wake(r)
      <4>1. G!ResultOrNull(IdOf[r]) \in Put \union {Null}
        BY <1>1, <3>1 DEF G!ResultOrNull
      <4> QED
        BY <3>4, <4>1 DEF G!Wake, G!Answer
    <3>5. CASE G!TimeOut(r)
      BY <3>5 DEF G!TimeOut
    <3> QED
      BY <1>3, <3>2, <3>3, <3>4, <3>5 DEF Duplicate, Waiting
  <2> QED
    BY <1>1, <2>1, <2>2, PartsAssumption
<1>4. ASSUME NEW r \in Guarded, Begin(r) PROVE Unanswered' /\ AnswersCounted'
  <2>1. /\ UNCHANGED <<answer, executed, counted>>
        /\ \/ pc' = pc
           \/ r \in Put /\ pc[r] = "new" /\ pc' = [pc EXCEPT ![r] = "reading"]
    BY <1>4 DEF Begin, G!Lead, G!Mark, guard
  <2> QED
    BY <1>1, <2>1
<1>5. ASSUME NEW r \in Put, Succeed(r) PROVE Unanswered' /\ AnswersCounted'
  <2>1. /\ pc' = [pc EXCEPT ![r] = "done"] /\ answer' = [answer EXCEPT ![r] = r]
        /\ executed' = [executed EXCEPT ![IdOf[r]] = executed[IdOf[r]] \union {r}]
        /\ counted' = [counted EXCEPT ![r] = "ok"]
    BY <1>5 DEF Succeed, G!Execute, G!Answer, Count
  <2> QED
    BY <1>1, <2>1, PartsAssumption
<1>6. ASSUME NEW r \in Put, Fail(r) \/ NoNode(r) PROVE Unanswered' /\ AnswersCounted'
  <2>1. /\ pc' = [pc EXCEPT ![r] = "done"] /\ answer' = [answer EXCEPT ![r] = "error"]
        /\ counted' = [counted EXCEPT ![r] = "ok"] /\ UNCHANGED executed
    BY <1>6 DEF Fail, NoNode, G!Fail, G!Answer, Count
  <2> QED
    BY <1>1, <2>1
<1>7. ASSUME NEW r \in Guarded \ Put, Succeed(r) \/ Fail(r) \/ NoNode(r)
      PROVE  UNCHANGED <<pc, answer, executed, counted>>
  BY <1>7 DEF Succeed, Fail, NoNode, Count, guard
<1>8. ASSUME UNCHANGED <<pc, answer, executed, counted>> PROVE Unanswered' /\ AnswersCounted'
  BY <1>8
<1> QED
  BY <1>2, <1>3, <1>4, <1>5, <1>6, <1>7, <1>8
     DEF Next, Progress, Retry, BeginDelete, EndDelete, Expire, G!Age, Cooldown, vars, guard

(* The conjunction is an invariant of the handlers.                         *)
LEMMA PipelineInvariant ==
  Spec => [](G!TypeOK /\ Types /\ Leading /\ EventsLed /\ Unanswered /\ AnswersCounted)
BY GuardTypes, StepOfGuard, PipelineInitially, TypesKept, LeadingKept, EventsKept, AnswersKept, PTL
   DEF Spec

-----------------------------------------------------------------------------
(* A PUT leads its id exactly while the breaker counts on its report, for   *)
(* any requests and ids, whatever the limiter, the breaker and the attempts *)
(* do (cache_service.py:90-146).                                            *)
THEOREM LeadersAtWork == Spec => []LeadersInFlight
<1>1. ASSUME G!TypeOK, Types, Leading, EventsLed PROVE LeadersInFlight
  BY <1>1 DEF G!TypeOK, Types, Leading, EventsLed, LeadersInFlight
<1> QED
  BY <1>1, PipelineInvariant, PTL

(* Every PUT answered on its own account is in the request counter, under   *)
(* the status of its end (cache_service.py:101-146).                        *)
THEOREM AllCounted == Spec => []AnswersCounted
BY PipelineInvariant, PTL

(* The handlers use the breaker as its module says, however many times an   *)
(* attempt is repeated (cache_service.py:54-83, 107-146).                   *)
THEOREM ImplementsBreaker == Spec => IsBreaker
<1>1. Init => B!Init
  BY DEF Init
<1>2. ASSUME [Next]_vars PROVE [B!Next]_(B!vars)
  <2>1. ASSUME NEW r \in Guarded, Begin(r) \/ Succeed(r) \/ Fail(r) \/ NoNode(r)
        PROVE  B!Next
    BY <2>1 DEF Begin, Succeed, Fail, NoNode, B!Next, B!Report
  <2>2. ASSUME Cooldown PROVE B!Next
    BY <2>2 DEF Cooldown, B!Next
  <2>3. UNCHANGED breaker => UNCHANGED B!vars
    BY DEF breaker, B!vars, B!breaker, B!ghosts
  <2> QED
    BY <1>2, <2>1, <2>2, <2>3
       DEF Next, Progress, Limited, CircuitOpen, Duplicate, Retry, BeginDelete, EndDelete,
           Waiting, Expire, vars
<1> QED
  BY <1>1, <1>2, PTL DEF Spec, IsBreaker, B!Spec

-----------------------------------------------------------------------------
(* The breaker by itself, for any requests it is asked about and any        *)
(* thresholds.                                                              *)

(* What the counters say during a half-open episode (resilience.py:47-68):  *)
(* one more request admitted than the code counts, too few successes to     *)
(* close, those of probes among them.                                       *)
EpisodeCounts ==
  state = "half_open" =>
    /\ probe_successes <= success_count
    /\ success_count < SuccessThreshold
    /\ admitted = half_open_calls + 1

BreakerInv == B!TypeOK /\ ClosedBelowThreshold /\ EpisodeCounts

(* Every request the episode admitted is still in flight or has succeeded:  *)
(* a failure ends the episode, and with nodes on the ring no probe leaves   *)
(* without a report.                                                        *)
ProbesAccounted == state = "half_open" => Unreported = 0

-----------------------------------------------------------------------------
(* The three safety invariants and the counters behind them are inductive.  *)
LEMMA BreakerInvInductive == BreakerInv /\ [B!Next]_(B!vars) => BreakerInv'
<1> SUFFICES ASSUME BreakerInv, [B!Next]_(B!vars)
             PROVE  BreakerInv'
    OBVIOUS
<1> USE ThresholdAssumption DEF BreakerInv, B!TypeOK, ClosedBelowThreshold, EpisodeCounts
<1>1. ASSUME NEW r \in Guarded, B!AdmitClosed(r)
      PROVE  BreakerInv'
      BY <1>1 DEF B!AdmitClosed, B!breaker, B!ghosts
<1>2. ASSUME NEW r \in Guarded, B!AdmitAfterCooldown(r)
      PROVE  BreakerInv'
      BY <1>2 DEF B!AdmitAfterCooldown
<1>3. ASSUME NEW r \in Guarded, B!AdmitProbe(r)
      PROVE  BreakerInv'
      BY <1>3 DEF B!AdmitProbe
<1>4. ASSUME NEW r \in Guarded, B!RecordSuccess(r)
      PROVE  BreakerInv'
  <2>1. /\ inflight' \subseteq Guarded
        /\ probes' \subseteq inflight'
        BY <1>4 DEF B!RecordSuccess, B!Finish
  <2>2. /\ B!ProbeSuccesses(r) \in Nat
        /\ B!ProbeSuccesses(r) <= probe_successes + 1
        BY DEF B!ProbeSuccesses
  <2> QED BY <1>4, <2>1, <2>2 DEF B!RecordSuccess
<1>5. ASSUME NEW r \in Guarded, B!RecordFailure(r)
      PROVE  BreakerInv'
  <2>1. failure_count' \in 0..FailureThreshold
    <3>1. failure_count' = B!FailuresPlusOne
          BY <1>5 DEF B!RecordFailure
    <3> QED BY <3>1 DEF B!FailuresPlusOne
  <2>5. cooled' \in BOOLEAN
        BY <1>5 DEF B!RecordFailure
  <2>2. /\ inflight' \subseteq Guarded
        /\ probes' \subseteq inflight'
        BY <1>5 DEF B!RecordFailure, B!Finish
  <2>3. /\ state' \in {"closed", "open"}
        /\ state' = "closed" => state = "closed" /\ ~(failure_count' >= FailureThreshold)
        BY <1>5 DEF B!RecordFailure
  <2>4. UNCHANGED <<success_count, half_open_calls, admitted, probe_successes>>
        BY <1>5 DEF B!RecordFailure
  <2> QED BY <2>1, <2>2, <2>3, <2>4, <2>5
<1>6. ASSUME NEW r \in Guarded, B!NoAvailableNode(r)
      PROVE  BreakerInv'
      BY <1>6 DEF B!NoAvailableNode, B!Finish, B!breaker
<1>7. CASE B!Cooldown
      BY <1>7 DEF B!Cooldown, B!ghosts
<1>8. CASE UNCHANGED B!vars
      BY <1>8 DEF B!vars, B!breaker, B!ghosts
<1> QED BY <1>1, <1>2, <1>3, <1>4, <1>5, <1>6, <1>7, <1>8 DEF B!Next, B!Admit, B!Report

(* The breaker's counters stay within their bounds and the ghosts follow.   *)
THEOREM BreakerInvariantHolds == B!Spec => []BreakerInv
<1>1. B!Init => BreakerInv
      BY ThresholdAssumption
      DEF B!Init, BreakerInv, B!TypeOK, ClosedBelowThreshold, EpisodeCounts
<1> QED BY <1>1, BreakerInvInductive, PTL DEF B!Spec

(* The types, for every set of requests and every threshold.                *)
THEOREM BreakerTypes == B!Spec => []B!TypeOK
<1>1. BreakerInv => B!TypeOK
      BY DEF BreakerInv
<1> QED BY <1>1, BreakerInvariantHolds, PTL

(* A closed breaker is below failure_threshold (resilience.py:79-81).       *)
THEOREM ClosedIsBelowThreshold == B!Spec => []ClosedBelowThreshold
<1>1. BreakerInv => ClosedBelowThreshold
      BY DEF BreakerInv
<1> QED BY <1>1, BreakerInvariantHolds, PTL

(* An episode admits at most half_open_max_calls + 1 requests               *)
(* (resilience.py:47-58).                                                   *)
THEOREM ProbesWithinBudget == B!Spec => []ProbeBudget
<1>1. BreakerInv => ProbeBudget
      BY ThresholdAssumption DEF BreakerInv, B!TypeOK, EpisodeCounts, ProbeBudget
<1> QED BY <1>1, BreakerInvariantHolds, PTL

(* So it is for the breaker the handlers share, with attempts repeated and  *)
(* PUTs refused by the limiter, the guard or an empty ring                  *)
(* (cache_service.py:54-83, 107-146).                                       *)
THEOREM HandlersKeepBudget == Spec => []ProbeBudget
BY ImplementsBreaker, ProbesWithinBudget, PTL DEF IsBreaker

-----------------------------------------------------------------------------
(* While the ring has nodes, no probe is lost.                              *)
LEMMA ProbesAccountedInductive ==
  ASSUME ~RingMayBeEmpty
  PROVE  BreakerInv /\ ProbesAccounted /\ [B!Next]_(B!vars) => ProbesAccounted'
<1> SUFFICES ASSUME BreakerInv, ProbesAccounted, [B!Next]_(B!vars)
             PROVE  ProbesAccounted'
    OBVIOUS
<1> USE DEF BreakerInv, B!TypeOK, EpisodeCounts, ProbesAccounted, Unreported
<1>0. /\ IsFiniteSet(probes)
      /\ Cardinality(probes) \in Nat
      BY PartsAssumption, FS_Subset, FS_CardinalityType
<1>1. ASSUME NEW r \in Guarded, B!AdmitClosed(r)
      PROVE  ProbesAccounted'
      BY <1>1 DEF B!AdmitClosed, B!breaker, B!ghosts
<1>2. ASSUME NEW r \in Guarded, B!AdmitAfterCooldown(r)
      PROVE  ProbesAccounted'
  <2>1. Cardinality({r}) = 1
        BY FS_Singleton
  <2> QED BY <1>2, <2>1 DEF B!AdmitAfterCooldown
<1>3. ASSUME NEW r \in Guarded, B!AdmitProbe(r)
      PROVE  ProbesAccounted'
  <2>1. Cardinality(probes \union {r}) = Cardinality(probes) + 1
    <3>1. r \notin probes
          BY <1>3 DEF B!AdmitProbe
    <3> QED BY <1>0, <3>1, FS_AddElement
  <2> QED BY <1>0, <1>3, <2>1 DEF B!AdmitProbe
<1>4. ASSUME NEW r \in Guarded, B!RecordSuccess(r)
      PROVE  ProbesAccounted'
  <2>1. CASE state = "half_open"
    <3>1. CASE r \in probes
      <4>1. Cardinality(probes \ {r}) = Cardinality(probes) - 1
            BY <1>0, <3>1, FS_RemoveElement
      <4> QED BY <1>0, <1>4, <2>1, <3>1, <4>1
              DEF B!RecordSuccess, B!Finish, B!ProbeSuccesses
    <3>2. CASE r \notin probes
      <4>1. probes' = probes
            BY <1>4, <3>2 DEF B!RecordSuccess, B!Finish
      <4>2. probe_successes' = probe_successes
            BY <1>4, <2>1, <3>2 DEF B!RecordSuccess, B!ProbeSuccesses
      <4> QED BY <1>0, <1>4, <2>1, <4>1, <4>2 DEF B!RecordSuccess
    <3> QED BY <3>1, <3>2
  <2>2. CASE state # "half_open"
        BY <1>4, <2>2 DEF B!RecordSuccess
  <2> QED BY <2>1, <2>2
<1>5. ASSUME NEW r \in Guarded, B!RecordFailure(r)
      PROVE  ProbesAccounted'
      BY <1>5 DEF B!RecordFailure
<1>6. ASSUME NEW r \in Guarded, B!NoAvailableNode(r)
      PROVE  ProbesAccounted'
      BY <1>6 DEF B!NoAvailableNode
<1>7. CASE B!Cooldown
      BY <1>7 DEF B!Cooldown, B!ghosts
<1>8. CASE UNCHANGED B!vars
      BY <1>8 DEF B!vars, B!breaker, B!ghosts
<1> QED BY <1>1, <1>2, <1>3, <1>4, <1>5, <1>6, <1>7, <1>8 DEF B!Next, B!Admit, B!Report

(* Half-open episodes get stuck only by probes without a report, when the   *)
(* success threshold is one that an episode can reach (resilience.py:54-68; *)
(* the defaults 2 and 3 qualify).                                           *)
LEMMA SilenceAlone ==
  ASSUME SuccessThreshold <= HalfOpenMaxCalls + 1
  PROVE  BreakerInv => StuckOnlyBySilence
<1> SUFFICES ASSUME BreakerInv, state = "half_open", half_open_calls = HalfOpenMaxCalls,
                    Unreported = 0, inflight = {}
             PROVE  FALSE
    BY DEF StuckOnlyBySilence
<1>1. Cardinality(probes) = 0
  <2>1. probes = {}
        BY DEF BreakerInv, B!TypeOK
  <2> QED BY <2>1, FS_EmptySet
<1> QED BY <1>1, ThresholdAssumption
        DEF BreakerInv, B!TypeOK, EpisodeCounts, Unreported

(* So it is at every moment, whether or not the ring is ever empty.         *)
THEOREM OnlySilenceSticks ==
  ASSUME SuccessThreshold <= HalfOpenMaxCalls + 1
  PROVE  B!Spec => []StuckOnlyBySilence
<1>1. BreakerInv => StuckOnlyBySilence
      BY SilenceAlone
<1> QED BY <1>1, BreakerInvariantHolds, PTL

(* A breaker whose ring always has nodes and whose success threshold one    *)
(* episode can reach is never stuck in HALF_OPEN with nobody to report      *)
(* (resilience.py:54-68).                                                   *)
THEOREM NeverWedged ==
  ASSUME ~RingMayBeEmpty,
         SuccessThreshold <= HalfOpenMaxCalls + 1
  PROVE  B!Spec => []NotWedged
<1>1. B!Init => BreakerInv /\ ProbesAccounted
      BY ThresholdAssumption
      DEF B!Init, BreakerInv, B!TypeOK, ClosedBelowThreshold, EpisodeCounts, ProbesAccounted
<1>2. BreakerInv /\ ProbesAccounted /\ [B!Next]_(B!vars) => BreakerInv' /\ ProbesAccounted'
      BY BreakerInvInductive, ProbesAccountedInductive
<1>3. BreakerInv /\ ProbesAccounted => NotWedged
      BY SilenceAlone DEF ProbesAccounted, NotWedged, StuckOnlyBySilence
<1> QED BY <1>1, <1>2, <1>3, PTL DEF B!Spec

(* Nor is the breaker of the handlers, however often an attempt is repeated *)
(* (cache_service.py:54-83, 107-146), while the ring has nodes.             *)
THEOREM HandlersNeverWedge ==
  ASSUME ~RingMayBeEmpty,
         SuccessThreshold <= HalfOpenMaxCalls + 1
  PROVE  Spec => []NotWedged
BY ImplementsBreaker, NeverWedged, PTL DEF IsBreaker
=============================================================================
