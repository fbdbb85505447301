----------------------------- MODULE BreakerState -----------------------------
(***************************************************************************)
(* The fields of CircuitBreaker of dcache/service/resilience.py, the       *)
(* configuration they are compared with, and what is to hold of them, both *)
(* for the breaker by itself (CircuitBreaker) and for the one the handlers *)
(* share (RequestPipeline).                                                *)
(***************************************************************************)
EXTENDS Integers, FiniteSets

CONSTANTS
  FailureThreshold,   \* CircuitBreakerConfig.failure_threshold
  HalfOpenMaxCalls,   \* CircuitBreakerConfig.half_open_max_calls
  SuccessThreshold,   \* CircuitBreakerConfig.success_threshold
  RingMayBeEmpty      \* whether get_node may find no node on the ring

ASSUME ThresholdAssumption ==
  /\ FailureThreshold \in Nat \ {0}
  /\ HalfOpenMaxCalls \in Nat
  /\ SuccessThreshold \in Nat \ {0}
  /\ RingMayBeEmpty \in BOOLEAN

VARIABLES
  state,            \* _state
  failure_count,    \* _failure_count, saturating at FailureThreshold
  success_count,    \* _success_count
  half_open_calls,  \* _half_open_calls
  cooled,           \* recovery_timeout has passed since _last_failure_time
  inflight,         \* requests admitted and not yet reported on
  probes,           \* ghost: those admitted in the current half-open episode
  admitted,         \* ghost: how many the current episode has admitted
  probe_successes   \* ghost: successes its probes have reported

-----------------------------------------------------------------------------
(* A closed breaker has seen fewer failures in a row than the threshold     *)
(* (resilience.py:79-81), whatever counts the open and half-open episodes   *)
(* before it left behind.                                                   *)
ClosedBelowThreshold == state = "closed" => failure_count < FailureThreshold

(* One half-open episode lets through at most half_open_max_calls requests  *)
(* besides the one that opened the episode (resilience.py:47-58), however   *)
(* requests interleave.                                                     *)
ProbeBudget == state = "half_open" => admitted <= HalfOpenMaxCalls + 1

(* A half-open breaker that refuses everyone (resilience.py:55-58) still    *)
(* waits for the report of a request it has admitted: nothing else can move *)
(* it out of HALF_OPEN.                                                     *)
NotWedged ==
  state = "half_open" /\ half_open_calls = HalfOpenMaxCalls => inflight # {}

\* Probes of the current episode that are over and told the breaker nothing.
Unreported == admitted - (probe_successes + Cardinality(probes))

(* A probe that leaves without a report is the only way to get stuck: with  *)
(* none, a half-open breaker that refuses everyone waits for a request in   *)
(* flight (resilience.py:54-68).                                            *)
StuckOnlyBySilence ==
  /\ state = "half_open"
  /\ half_open_calls = HalfOpenMaxCalls
  /\ Unreported = 0
  => inflight # {}
=============================================================================
