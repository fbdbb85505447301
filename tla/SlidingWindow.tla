---------------------------- MODULE SlidingWindow ----------------------------
(***************************************************************************)
(* What a sliding-window rate limiter promises, without buckets: a request *)
(* is admitted only while fewer than MaxRequests were admitted since Short *)
(* ticks ago, and refused only when at least as many were admitted since   *)
(* Long ticks ago.  An exact limiter has Short = Long; the gap between the *)
(* two is the price of counting in buckets.                                *)
(***************************************************************************)
EXTENDS Integers, FiniteSets

CONSTANTS
  Request,       \* the requests that ask, each of them once
  MaxRequests,   \* how many a window takes
  Short,         \* how far back admissions must count
  Long           \* how far back they may count

VARIABLES
  now,        \* the clock, in ticks
  admitted,   \* the requests admitted so far
  at,         \* when each of them was
  refused     \* the requests refused so far

vars == <<now, admitted, at, refused>>

AdmittedIn(lo, hi) == {r \in admitted : lo <= at[r] /\ at[r] <= hi}

Init ==
  /\ now = 0
  /\ admitted = {}
  /\ at = [r \in Request |-> 0]
  /\ refused = {}

Pass ==
  /\ now' = now + 1
  /\ UNCHANGED <<admitted, at, refused>>

Undecided(r) == r \notin admitted \union refused

Admit(r) ==
  /\ Undecided(r)
  /\ Cardinality(AdmittedIn(now - Short, now)) < MaxRequests
  /\ admitted' = admitted \union {r}
  /\ at' = [at EXCEPT ![r] = now]
  /\ UNCHANGED <<now, refused>>

Refuse(r) ==
  /\ Undecided(r)
  /\ Cardinality(AdmittedIn(now - Long, now)) >= MaxRequests
  /\ refused' = refused \union {r}
  /\ UNCHANGED <<now, admitted, at>>

Next == Pass \/ \E r \in Request : Admit(r) \/ Refuse(r)

Spec == Init /\ [][Next]_vars
=============================================================================
