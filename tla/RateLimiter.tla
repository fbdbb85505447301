----------------------------- MODULE RateLimiter -----------------------------
(***************************************************************************)
(* SlidingWindowRateLimiter of dcache/service/resilience.py for one of its *)
(* keys: CacheService asks it under "get", "put" and "delete", and the     *)
(* buckets of one key never touch those of another.  allow holds its lock  *)
(* over a body without an await, so it is one step.                        *)
(*                                                                         *)
(* Time is counted in ticks, several to a bucket, because the limit is a   *)
(* promise about any stretch of time and not only about whole buckets.  A  *)
(* bucket is the set of the requests counted in it; the code keeps their   *)
(* number, and since each is counted once the total is that of the union.  *)
(***************************************************************************)
EXTENDS Integers, FiniteSets

CONSTANTS
  Request,       \* the requests that ask, each of them once
  MaxRequests,   \* max_requests
  BucketCount,   \* bucket_count
  BucketWidth,   \* window_seconds / bucket_count, in ticks
  MaxTime        \* bound on the clock

ASSUME LimiterAssumption ==
  /\ IsFiniteSet(Request)
  /\ MaxRequests \in Nat
  /\ BucketCount \in Nat \ {0}
  /\ BucketWidth \in Nat \ {0}
  /\ MaxTime \in Nat

VARIABLES
  now,        \* time.monotonic()
  buckets,    \* _buckets[key]: bucket number -> what was counted in it
  admitted,   \* the requests that were told True
  at,         \* ghost: when each of them was
  refused     \* the requests that were told False

vars == <<now, buckets, admitted, at, refused>>

Init ==
  /\ now = 0
  /\ buckets = [b \in {} |-> {}]
  /\ admitted = {}
  /\ at = [r \in Request |-> 0]
  /\ refused = {}

-----------------------------------------------------------------------------
BucketOf(t) == t \div BucketWidth

CurrentBucket == BucketOf(now)

WindowStart == CurrentBucket - BucketCount + 1

\* A plausible slip: the oldest bucket of the window is left out.
WindowWithoutOldest == WindowStart + 1 .. CurrentBucket

\* A plausible slip: one bucket more than the window has.
WindowAndOneMore == WindowStart - 1 .. CurrentBucket

\* A plausible slip: only the current bucket is looked at (a fixed window).
FixedWindow == CurrentBucket .. CurrentBucket

Window == WindowStart .. CurrentBucket

CountedIn(b) == IF b \in DOMAIN buckets THEN buckets[b] ELSE {}

Counted == UNION {CountedIn(b) : b \in Window}

\* A plausible slip: no bucket is ever forgotten.
NothingForgotten == DOMAIN buckets

\* The buckets the loop at the end of allow keeps.
Kept == {b \in DOMAIN buckets : b >= WindowStart}

Undecided(r) == r \notin admitted \union refused

Allow(r) ==
  /\ Undecided(r)
  /\ Cardinality(Counted) < MaxRequests
  /\ buckets' = [b \in Kept \union {CurrentBucket} |->
                   IF b = CurrentBucket THEN CountedIn(b) \union {r} ELSE buckets[b]]
  /\ admitted' = admitted \union {r}
  /\ at' = [at EXCEPT ![r] = now]
  /\ UNCHANGED <<now, refused>>

\* A refused request leaves the buckets alone, old ones too.
Refuse(r) ==
  /\ Undecided(r)
  /\ Cardinality(Counted) >= MaxRequests
  /\ refused' = refused \union {r}
  /\ UNCHANGED <<now, buckets, admitted, at>>

Tick ==
  /\ now < MaxTime
  /\ now' = now + 1
  /\ UNCHANGED <<buckets, admitted, at, refused>>

Next == Tick \/ \E r \in Request : Allow(r) \/ Refuse(r)

Spec == Init /\ [][Next]_vars

-----------------------------------------------------------------------------
(* From its first to its last tick: the longest stretch the buckets make    *)
(* sure of, and the whole window.                                           *)
SurelyLimited == (BucketCount - 1) * BucketWidth
Nominal       == BucketCount * BucketWidth - 1

AdmittedIn(lo, hi) == {r \in admitted : lo <= at[r] /\ at[r] <= hi}

TypeOK ==
  /\ now \in Nat
  /\ \A b \in DOMAIN buckets : b \in Nat /\ b * BucketWidth <= now /\ buckets[b] \subseteq Request
  /\ admitted \subseteq Request /\ refused \subseteq Request
  /\ at \in [Request -> Nat]
  /\ \A r \in admitted : at[r] <= now

(* Never more than max_requests within one bucket less than the window,     *)
(* wherever that stretch lies relative to the buckets                       *)
(* (resilience.py:104-123).                                                 *)
WindowLimit ==
  \A lo \in 0 .. now : Cardinality(AdmittedIn(lo, lo + SurelyLimited)) <= MaxRequests

(* A burst across the end of the oldest bucket can exceed the limit within  *)
(* window_seconds, but a window never sees more than twice the limit        *)
(* (resilience.py:107-113).                                                 *)
BurstBound ==
  \A lo \in 0 .. now : Cardinality(AdmittedIn(lo, lo + Nominal)) <= 2 * MaxRequests

(* Although only admitted requests clean up, the dictionary never holds     *)
(* more than bucket_count buckets (resilience.py:119-121).                  *)
BucketsBounded == Cardinality(DOMAIN buckets) <= BucketCount

SW == INSTANCE SlidingWindow WITH Short <- SurelyLimited, Long <- Nominal

(* The buckets implement a sliding window: what is counted in them decides  *)
(* as the times of the admissions would, up to one bucket.  In particular a *)
(* request is refused only if max_requests were admitted within the last    *)
(* window_seconds: a client below the limit is never turned away            *)
(* (resilience.py:104-123).                                                 *)
IsSlidingWindow == SW!Spec
=============================================================================
