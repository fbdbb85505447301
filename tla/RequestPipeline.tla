--------------------------- MODULE RequestPipeline ---------------------------
(***************************************************************************)
(* CacheService of dcache/service/cache_service.py: the handlers that put  *)
(* the idempotency guard, the rate limiter, the circuit breaker and the    *)
(* retry executor in front of the node manager.  The guard and the breaker *)
(* are the modules of those names, and a step of a handler is a step of    *)
(* both; the limiter is the module RateLimiter and here simply says no     *)
(* when it likes.                                                          *)
(*                                                                         *)
(* From its arrival to the reading of its body a PUT does not suspend, nor *)
(* from the end of its last attempt to its answer; between two attempts it *)
(* sleeps (resilience.py:165).                                             *)
(***************************************************************************)
EXTENDS BreakerState

CONSTANTS
  Put,                \* PUTs with an X-Request-Id
  BarePut,            \* PUTs without one
  Get,                \* GETs
  Del,                \* DELETEs
  MaxRetries,         \* RetryConfig.max_retries
  CalleeMayFail,      \* whether read_fn, write_fn and delete_fn may raise
  Id, IdOf, MaxEntries, Pending, Absent, NoEvent, Null

Guarded == Put \union BarePut \union Get      \* who asks the circuit breaker

ASSUME PipelineAssumption ==
  /\ Put \intersect (BarePut \union Get \union Del) = {}
  /\ Guarded \intersect Del = {} /\ BarePut \intersect Get = {}
  /\ MaxRetries \in Nat
  /\ CalleeMayFail \in BOOLEAN

\* What the guard and the breaker assume of these constants.
ASSUME PartsAssumption ==
  /\ IdOf \in [Put -> Id] /\ MaxEntries \in Nat \ {0} /\ IsFiniteSet(Id)
  /\ {Pending, NoEvent, Null, "error", "refused"} \intersect Put = {}
  /\ Null \notin {"error", "refused"}
  /\ Absent \notin [result : Put \union {Pending}, at : Nat, expired : BOOLEAN]
  /\ IsFiniteSet(Guarded)

VARIABLES
  store, events, signalled, clock, pc, waits_on, answer, executed, dropped,
  deleting,   \* the DELETEs at work
  attempt,    \* execute_with_retry: how many attempts of a request have failed
  counted     \* the status under which a PUT went into dcache_request_total

guard    == <<store, events, signalled, clock, pc, waits_on, answer, executed, dropped>>
breaker  == <<state, failure_count, success_count, half_open_calls, cooled, inflight,
              probes, admitted, probe_successes>>
vars     == <<guard, breaker, deleting, attempt, counted>>

G == INSTANCE IdempotencyGuard WITH Request <- Put
B == INSTANCE CircuitBreaker WITH Request <- Guarded

Init ==
  /\ G!Init
  /\ B!Init
  /\ deleting = {}
  /\ attempt = [r \in Guarded \union Del |-> 0]
  /\ counted = [r \in Put |-> "not"]

\* RequestTimer and record_request; the counts of the others are left out.
Count(r, status) ==
  counted' = IF r \in Put THEN [counted EXCEPT ![r] = status] ELSE counted

-----------------------------------------------------------------------------
(* Arrivals.                                                                *)

\* allow_request says no; it changes nothing then.
BreakerRefuses ==
  \/ state = "open" /\ ~cooled
  \/ state = "half_open" /\ half_open_calls >= HalfOpenMaxCalls

\* The guard says READY, the limiter and the breaker say yes.
Begin(r) ==
  /\ B!Admit(r)
  /\ IF r \in Put THEN G!Lead(r) ELSE UNCHANGED guard
  /\ UNCHANGED <<deleting, attempt, counted>>

\* A plausible slip: the limiter is asked after the breaker.
LimitAfterBreaker(r) ==
  /\ G!Refuse(r)
  /\ B!Admit(r)
  /\ Count(r, "rate_limited")
  /\ UNCHANGED <<deleting, attempt>>

(* Refusals of a PUT the guard has marked; of other requests they change    *)
(* nothing.                                                                 *)
Limited(r) ==
  /\ G!Refuse(r)
  /\ Count(r, "rate_limited")
  /\ UNCHANGED <<breaker, deleting, attempt>>

\* A plausible slip: the mark stays when the breaker is open.
CircuitOpenKeepingMark(r) ==
  /\ BreakerRefuses
  /\ G!Mark(r, FALSE)
  /\ G!Answer(r, "refused")
  /\ Count(r, "circuit_open")
  /\ UNCHANGED <<signalled, waits_on, executed, breaker, deleting, attempt>>

CircuitOpen(r) ==
  /\ BreakerRefuses
  /\ G!Refuse(r)
  /\ Count(r, "circuit_open")
  /\ UNCHANGED <<breaker, deleting, attempt>>

\* A duplicate asks neither the limiter nor the breaker and is not counted.
Duplicate(r) ==
  /\ G!Repeat(r) \/ G!Wait(r)
  /\ UNCHANGED <<breaker, deleting, attempt, counted>>

-----------------------------------------------------------------------------
(* Attempts.                                                                *)

AtWork(r) == r \in inflight \union deleting

\* A plausible slip: after the last retry the loop starts over.
RetryForever(r) ==
  /\ AtWork(r)
  /\ CalleeMayFail
  /\ attempt' = [attempt EXCEPT ![r] = IF @ < MaxRetries THEN @ + 1 ELSE 0]
  /\ UNCHANGED <<guard, breaker, deleting, counted>>

\* A plausible slip: every failed attempt is reported to the breaker.
RetryReporting(r) ==
  /\ AtWork(r)
  /\ CalleeMayFail
  /\ attempt[r] < MaxRetries
  /\ attempt' = [attempt EXCEPT ![r] = @ + 1]
  /\ failure_count' = B!FailuresPlusOne
  /\ UNCHANGED <<guard, state, success_count, half_open_calls, cooled, inflight,
                 probes, admitted, probe_successes, deleting, counted>>

\* An attempt raises and is not the last: the request sleeps.
Retry(r) ==
  /\ AtWork(r)
  /\ CalleeMayFail
  /\ attempt[r] < MaxRetries
  /\ attempt' = [attempt EXCEPT ![r] = @ + 1]
  /\ UNCHANGED <<guard, breaker, deleting, counted>>

\* The request ends; its next one, if any, starts over.
Ended(r) == attempt' = [attempt EXCEPT ![r] = 0]

Succeed(r) ==
  /\ B!RecordSuccess(r)
  /\ IF r \in Put THEN G!Execute(r) ELSE UNCHANGED guard
  /\ Ended(r)
  /\ Count(r, "ok")
  /\ UNCHANGED deleting

\* The last attempt raised, or the body, which is read before the first, did.
Failed(r) ==
  \/ CalleeMayFail /\ attempt[r] = MaxRetries
  \/ r \in Put \union BarePut /\ attempt[r] = 0

(* The handler catches the exception inside the timer, so that a failed     *)
(* request is counted as "ok" too (cache_service.py:80-83, 141-146).        *)
Fail(r) ==
  /\ Failed(r)
  /\ B!RecordFailure(r)
  /\ IF r \in Put THEN G!Fail(r) ELSE UNCHANGED guard
  /\ Ended(r)
  /\ Count(r, "ok")
  /\ UNCHANGED deleting

\* A plausible slip: the early return lies before the timer.
NoNodeUncounted(r) ==
  /\ attempt[r] = 0
  /\ B!NoAvailableNode(r)
  /\ IF r \in Put THEN G!Fail(r) ELSE UNCHANGED guard
  /\ UNCHANGED <<deleting, attempt, counted>>

\* get_node is asked once, before the first attempt.
NoNode(r) ==
  /\ attempt[r] = 0
  /\ B!NoAvailableNode(r)
  /\ IF r \in Put THEN G!Fail(r) ELSE UNCHANGED guard
  /\ Count(r, "ok")
  /\ UNCHANGED <<deleting, attempt>>

-----------------------------------------------------------------------------
(* DELETEs know the limiter and the executor only.                          *)

BeginDelete(r) ==
  /\ r \notin deleting
  /\ deleting' = deleting \union {r}
  /\ UNCHANGED <<guard, breaker, attempt, counted>>

EndDelete(r) ==
  /\ r \in deleting
  /\ deleting' = deleting \ {r}
  /\ Ended(r)
  /\ UNCHANGED <<guard, breaker, counted>>

-----------------------------------------------------------------------------
(* What the guard and the breaker do by themselves.                         *)

Waiting(r) ==
  /\ G!Wake(r) \/ G!TimeOut(r)
  /\ UNCHANGED <<breaker, deleting, attempt, counted>>

Expire(i) ==
  /\ G!Age(i)
  /\ UNCHANGED <<breaker, deleting, attempt, counted>>

Cooldown ==
  /\ B!Cooldown
  /\ UNCHANGED <<guard, deleting, attempt, counted>>

Progress(r) == Retry(r) \/ Succeed(r) \/ Fail(r) \/ NoNode(r)

Next ==
  \/ \E r \in Put : Limited(r) \/ CircuitOpen(r) \/ Duplicate(r) \/ Waiting(r)
  \/ \E r \in Guarded : Begin(r) \/ Progress(r)
  \/ \E r \in Del : BeginDelete(r) \/ Retry(r) \/ EndDelete(r)
  \/ \E i \in Id : Expire(i)
  \/ Cooldown

Spec == Init /\ [][Next]_vars

(* An attempt returns or raises, a sleep ends, a body arrives or its        *)
(* connection breaks, and the event loop runs what is ready.                *)
Fairness ==
  /\ \A r \in Guarded : WF_vars(Progress(r))
  /\ \A r \in Del : WF_vars(Retry(r) \/ EndDelete(r))
  /\ \A r \in Put : WF_vars(Waiting(r) /\ waits_on[r] \in signalled)

FairSpec == Spec /\ Fairness

-----------------------------------------------------------------------------
TypeOK ==
  /\ deleting \subseteq Del
  /\ attempt \in [Guarded \union Del -> 0 .. MaxRetries]
  /\ \A r \in Guarded \union Del : attempt[r] > 0 => AtWork(r)
  /\ counted \in [Put -> {"not", "ok", "rate_limited", "circuit_open"}]

(* A PUT leads its id exactly while the breaker counts on its report, so    *)
(* that whoever waits for an id waits for a request that is at work, never  *)
(* for one that was refused (cache_service.py:90-146).  The variables have  *)
(* their types.                                                             *)
LeadersInFlight ==
  /\ TypeOK
  /\ {r \in Put : pc[r] = "reading"} = inflight \intersect Put
  /\ \A i \in Id : events[i] # NoEvent => events[i] \in inflight

(* Every PUT that was answered on its own account is in the request         *)
(* counter, under the status of the refusal or as "ok"; a duplicate is not, *)
(* nor is a request at work (cache_service.py:101-113, metrics.py:277-283). *)
AnswersCounted ==
  \A r \in Put :
    /\ counted[r] = "ok" <=> answer[r] = "error" \/ r \in executed[IdOf[r]]
    /\ counted[r] \in {"rate_limited", "circuit_open"} <=> answer[r] = "refused"

(* The handlers use the circuit breaker as its module says: one admission,  *)
(* then one report or none, however often an attempt is repeated            *)
(* (cache_service.py:54-83, 107-146).                                       *)
IsBreaker == B!Spec

(* The handlers use the idempotency guard as its module says, and fairly:   *)
(* with the limiter, the breaker and the retries in between every leader    *)
(* still records its result or clears its mark (cache_service.py:90-146).   *)
IsFairGuard == G!FairSpec

(* A request that was let in comes to its end, whatever its attempts do     *)
(* (resilience.py:140-166).                                                 *)
AdmittedEnds == \A r \in Guarded \union Del : AtWork(r) ~> ~AtWork(r)
=============================================================================
