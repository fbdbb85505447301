--------------------------- MODULE CircuitBreaker ---------------------------
(***************************************************************************)
(* The circuit breaker of dcache/service/resilience.py together with the   *)
(* way CacheService.handle_get and handle_put use it: every request calls  *)
(* allow_request, and reports record_success or record_failure when it is  *)
(* over -- or reports nothing at all, when the hash ring is empty and the  *)
(* handler answers 503 "no available node" (cache_service.py:61, :119).    *)
(*                                                                         *)
(* Each method holds an asyncio.Lock around a body without an await, so    *)
(* each is one step; requests interleave between their methods.            *)
(*                                                                         *)
(* Time is one Boolean: whether recovery_timeout has passed since          *)
(* _last_failure_time. _failure_count saturates at the threshold: it is    *)
(* compared only while CLOSED, where it is below it.                       *)
(***************************************************************************)
EXTENDS BreakerState

CONSTANT Request      \* concurrent HTTP requests

ASSUME RequestAssumption == IsFiniteSet(Request)

breaker == <<state, failure_count, success_count, half_open_calls, cooled>>
ghosts  == <<probes, admitted, probe_successes>>
vars    == <<breaker, inflight, ghosts>>

Init ==
  /\ state = "closed"
  /\ failure_count = 0
  /\ success_count = 0
  /\ half_open_calls = 0
  /\ cooled = TRUE                    \* _last_failure_time = 0.0
  /\ inflight = {}
  /\ probes = {}
  /\ admitted = 0
  /\ probe_successes = 0

-----------------------------------------------------------------------------
(* allow_request; the refusing branches change nothing and need no action.  *)

AdmitClosed(r) ==
  /\ state = "closed"
  /\ r \notin inflight
  /\ inflight' = inflight \union {r}
  /\ UNCHANGED <<breaker, ghosts>>

\* A plausible slip: the half-open call counter survives from the last episode.
AdmitAfterCooldownKeepingCalls(r) ==
  /\ state = "open"
  /\ cooled
  /\ r \notin inflight
  /\ state' = "half_open"
  /\ success_count' = 0
  /\ inflight' = inflight \union {r}
  /\ probes' = {r}
  /\ admitted' = 1
  /\ probe_successes' = 0
  /\ UNCHANGED <<failure_count, half_open_calls, cooled>>

AdmitAfterCooldown(r) ==
  /\ state = "open"
  /\ cooled
  /\ r \notin inflight
  /\ state' = "half_open"
  /\ half_open_calls' = 0
  /\ success_count' = 0
  /\ inflight' = inflight \union {r}
  /\ probes' = {r}
  /\ admitted' = 1
  /\ probe_successes' = 0
  /\ UNCHANGED <<failure_count, cooled>>

\* A plausible slip: an off-by-one in the half-open admission test.
AdmitProbeOneMore(r) ==
  /\ state = "half_open"
  /\ half_open_calls <= HalfOpenMaxCalls
  /\ r \notin inflight
  /\ half_open_calls' = half_open_calls + 1
  /\ inflight' = inflight \union {r}
  /\ probes' = probes \union {r}
  /\ admitted' = admitted + 1
  /\ UNCHANGED <<state, failure_count, success_count, cooled, probe_successes>>

AdmitProbe(r) ==
  /\ state = "half_open"
  /\ half_open_calls < HalfOpenMaxCalls
  /\ r \notin inflight
  /\ half_open_calls' = half_open_calls + 1
  /\ inflight' = inflight \union {r}
  /\ probes' = probes \union {r}
  /\ admitted' = admitted + 1
  /\ UNCHANGED <<state, failure_count, success_count, cooled, probe_successes>>

-----------------------------------------------------------------------------
(* record_success and record_failure, by whoever finishes, probe or not.    *)

Finish(r) ==
  /\ r \in inflight
  /\ inflight' = inflight \ {r}
  /\ probes' = probes \ {r}

ProbeSuccesses(r) == probe_successes + (IF r \in probes THEN 1 ELSE 0)

RecordSuccess(r) ==
  /\ Finish(r)
  /\ \/ /\ state = "half_open"
        /\ success_count' = success_count + 1
        /\ probe_successes' = ProbeSuccesses(r)
        /\ IF success_count' >= SuccessThreshold
             THEN state' = "closed" /\ failure_count' = 0
             ELSE UNCHANGED <<state, failure_count>>
     \/ /\ state = "closed"
        /\ failure_count' = 0
        /\ UNCHANGED <<state, success_count, probe_successes>>
     \/ /\ state = "open"
        /\ UNCHANGED <<state, failure_count, success_count, probe_successes>>
  /\ UNCHANGED <<half_open_calls, cooled, admitted>>

FailuresPlusOne ==
  IF failure_count < FailureThreshold THEN failure_count + 1 ELSE FailureThreshold

RecordFailure(r) ==
  /\ Finish(r)
  /\ failure_count' = FailuresPlusOne
  /\ cooled' = FALSE                  \* _last_failure_time = time.monotonic()
  /\ state' = IF \/ state = "half_open"
                 \/ state = "closed" /\ failure_count' >= FailureThreshold
                THEN "open" ELSE state
  /\ UNCHANGED <<success_count, half_open_calls, admitted, probe_successes>>

(* The handlers answer 503 "no available node" from inside the try block    *)
(* and leave without a word to the breaker that admitted the request.       *)
NoAvailableNode(r) ==
  /\ RingMayBeEmpty
  /\ Finish(r)
  /\ UNCHANGED <<breaker, admitted, probe_successes>>

\* recovery_timeout seconds go by without another recorded failure.
Cooldown ==
  /\ ~cooled
  /\ cooled' = TRUE
  /\ UNCHANGED <<state, failure_count, success_count, half_open_calls, inflight, ghosts>>

Admit(r) == AdmitClosed(r) \/ AdmitAfterCooldown(r) \/ AdmitProbe(r)

Report(r) == RecordSuccess(r) \/ RecordFailure(r)

Next ==
  \/ \E r \in Request : Admit(r) \/ Report(r) \/ NoAvailableNode(r)
  \/ Cooldown

Spec == Init /\ [][Next]_vars

(* Requests keep arriving, an admitted request ends (RetryExecutor bounds   *)
(* its attempts), and time passes.                                          *)
Fairness ==
  /\ WF_vars(\E r \in Request : Admit(r))
  /\ \A r \in Request : WF_vars(Report(r))
  /\ WF_vars(Cooldown)

FairSpec == Spec /\ Fairness

-----------------------------------------------------------------------------
TypeOK ==
  /\ state \in {"closed", "open", "half_open"}
  /\ failure_count \in 0..FailureThreshold
  /\ success_count \in 0..SuccessThreshold
  /\ half_open_calls \in 0..HalfOpenMaxCalls
  /\ cooled \in BOOLEAN
  /\ inflight \subseteq Request
  /\ probes \subseteq inflight
  /\ admitted \in Nat
  /\ probe_successes \in Nat

(* A half-open episode comes to an end, the breaker closes or opens again,  *)
(* unless a probe of it goes without a report (resilience.py:63-78,         *)
(* cache_service.py:61).                                                    *)
HalfOpenResolves ==
  state = "half_open" ~> state # "half_open" \/ Unreported > 0
=============================================================================
