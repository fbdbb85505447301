-------------------------- MODULE RateLimiterProofs --------------------------
(***************************************************************************)
(* The rate limiter's promises for any limit, any number and width of      *)
(* buckets and any requests.  The invariant says that the buckets not yet  *)
(* too old to count hold exactly what the times of the admissions put      *)
(* there; everything else is arithmetic of bucket boundaries.              *)
(***************************************************************************)
EXTENDS RateLimiter, FiniteSetTheorems, TLAPS

(* Truncating division by the width of a bucket, as in int(now / width).    *)
LEMMA DivBounds ==
  ASSUME NEW t \in Nat, NEW w \in Nat \ {0}
  PROVE  /\ t \div w \in Nat
         /\ w * (t \div w) <= t
         /\ t < w * (t \div w) + w
  OBVIOUS

LEMMA TimesMonotone ==
  ASSUME NEW x \in Int, NEW y \in Int, NEW w \in Nat \ {0}, x < y
  PROVE  w * x + w <= w * y
  OBVIOUS

(* Later times lie in later buckets, or in the same.                        *)
LEMMA BucketMonotone ==
  ASSUME NEW s \in Nat, NEW t \in Nat, s <= t
  PROVE  BucketOf(s) <= BucketOf(t)
<1>1. /\ BucketOf(s) \in Nat /\ BucketOf(t) \in Nat
      /\ BucketWidth * BucketOf(s) <= s /\ t < BucketWidth * BucketOf(t) + BucketWidth
  BY DivBounds, LimiterAssumption DEF BucketOf
<1>2. SUFFICES ASSUME BucketOf(t) < BucketOf(s) PROVE FALSE
  BY <1>1
<1>3. BucketWidth * BucketOf(t) + BucketWidth <= BucketWidth * BucketOf(s)
  BY <1>1, <1>2, TimesMonotone, LimiterAssumption
<1> QED
  BY <1>1, <1>3, LimiterAssumption

(* Two times at most n bucket widths apart lie at most n buckets apart.     *)
LEMMA NearInBuckets ==
  ASSUME NEW s \in Nat, NEW t \in Nat, NEW n \in Nat, t - s <= n * BucketWidth
  PROVE  BucketOf(t) - n <= BucketOf(s)
<1>1. /\ BucketOf(s) \in Nat /\ BucketOf(t) \in Nat
      /\ s < BucketWidth * BucketOf(s) + BucketWidth /\ BucketWidth * BucketOf(t) <= t
  BY DivBounds, LimiterAssumption DEF BucketOf
<1>2. SUFFICES ASSUME BucketOf(s) + n < BucketOf(t) PROVE FALSE
  BY <1>1
<1>3. BucketWidth * (BucketOf(s) + n) + BucketWidth <= BucketWidth * BucketOf(t)
  BY <1>1, <1>2, TimesMonotone, LimiterAssumption
<1>4. BucketWidth * (BucketOf(s) + n) = BucketWidth * BucketOf(s) + n * BucketWidth
  BY <1>1, LimiterAssumption
<1> QED
  BY <1>1, <1>3, <1>4, LimiterAssumption

(* Two times less than n buckets apart are less than n bucket widths apart. *)
LEMMA NearInTime ==
  ASSUME NEW s \in Nat, NEW t \in Nat, NEW n \in Nat \ {0},
         BucketOf(t) - n + 1 <= BucketOf(s)
  PROVE  t - s <= n * BucketWidth - 1
<1>1. /\ BucketOf(s) \in Nat /\ BucketOf(t) \in Nat
      /\ BucketWidth * BucketOf(s) <= s /\ t < BucketWidth * BucketOf(t) + BucketWidth
  BY DivBounds, LimiterAssumption DEF BucketOf
<1>2. BucketOf(t) < BucketOf(s) + n
  BY <1>1
<1>3. BucketWidth * BucketOf(t) + BucketWidth <= BucketWidth * (BucketOf(s) + n)
  BY <1>1, <1>2, TimesMonotone, LimiterAssumption
<1>4. BucketWidth * (BucketOf(s) + n) = BucketWidth * BucketOf(s) + n * BucketWidth
  BY <1>1, LimiterAssumption
<1>5. n * BucketWidth \in Int
  BY LimiterAssumption
<1> QED
  BY <1>1, <1>3, <1>4, <1>5, LimiterAssumption

-----------------------------------------------------------------------------
AdmittedInBuckets(lo, hi) == {r \in admitted : lo <= BucketOf(at[r]) /\ BucketOf(at[r]) <= hi}

(* A bucket that can still count holds what was admitted in it; bucket_count*)
(* neighbouring buckets hold max_requests at most; the buckets present are  *)
(* neighbours.                                                              *)
BucketsAreLog ==
  \A b \in Int : b >= WindowStart => CountedIn(b) = AdmittedInBuckets(b, b)

AlignedLimit ==
  \A b \in Int : Cardinality(AdmittedInBuckets(b, b + BucketCount - 1)) <= MaxRequests

BucketsAreNear == \E b \in Int : DOMAIN buckets \subseteq b - BucketCount + 1 .. b

IInv == TypeOK /\ BucketsAreLog /\ AlignedLimit /\ BucketsAreNear

(* What allow adds up is what was admitted in the buckets of the window.    *)
LEMMA CountedIsLog ==
  ASSUME TypeOK, BucketsAreLog
  PROVE  /\ CurrentBucket \in Nat
         /\ \A r \in admitted : BucketOf(at[r]) \in Nat /\ BucketOf(at[r]) <= CurrentBucket
         /\ Counted = AdmittedInBuckets(WindowStart, CurrentBucket)
<1>1. CurrentBucket \in Nat
  BY DivBounds, LimiterAssumption DEF TypeOK, CurrentBucket, BucketOf
<1>2. \A r \in admitted : BucketOf(at[r]) \in Nat /\ BucketOf(at[r]) <= CurrentBucket
  <2> TAKE r \in admitted
  <2>1. at[r] \in Nat /\ now \in Nat /\ at[r] <= now
    BY DEF TypeOK
  <2>2. BucketOf(at[r]) \in Nat
    BY <2>1, DivBounds, LimiterAssumption DEF BucketOf
  <2> QED
    BY <2>1, <2>2, BucketMonotone DEF CurrentBucket
<1>3. \A b \in Window : CountedIn(b) = AdmittedInBuckets(b, b)
  BY <1>1, LimiterAssumption DEF BucketsAreLog, Window, WindowStart
<1>4. Counted = UNION {AdmittedInBuckets(b, b) : b \in Window}
  BY <1>3 DEF Counted
<1>5. WindowStart \in Int
  BY <1>1, LimiterAssumption DEF WindowStart
<1>6. UNION {AdmittedInBuckets(b, b) : b \in Window} = AdmittedInBuckets(WindowStart, CurrentBucket)
  <2>1. ASSUME NEW r, NEW b \in Window, r \in AdmittedInBuckets(b, b)
        PROVE  r \in AdmittedInBuckets(WindowStart, CurrentBucket)
    BY <1>1, <1>2, <1>5, <2>1 DEF AdmittedInBuckets, Window
  <2>2. ASSUME NEW r \in AdmittedInBuckets(WindowStart, CurrentBucket)
        PROVE  BucketOf(at[r]) \in Window /\ r \in AdmittedInBuckets(BucketOf(at[r]), BucketOf(at[r]))
    BY <1>1, <1>2, <1>5 DEF AdmittedInBuckets, Window
  <2> QED
    BY <2>1, <2>2
<1> QED
  BY <1>1, <1>2, <1>4, <1>6

(* Sets of requests are finite, and smaller sets have smaller cardinalities.*)
LEMMA Counting ==
  ASSUME NEW S \in SUBSET Request, NEW T \in SUBSET Request
  PROVE  /\ IsFiniteSet(S) /\ Cardinality(S) \in Nat
         /\ S \subseteq T => Cardinality(S) <= Cardinality(T)
         /\ \A r \in Request : Cardinality(S \union {r}) <= Cardinality(S) + 1
         /\ Cardinality(S \union T) <= Cardinality(S) + Cardinality(T)
<1>1. IsFiniteSet(Request)
  BY LimiterAssumption
<1>2. IsFiniteSet(S) /\ IsFiniteSet(T)
  BY <1>1, FS_Subset
<1>3. Cardinality(S) \in Nat /\ Cardinality(T) \in Nat
  BY <1>2, FS_CardinalityType
<1>4. S \subseteq T => Cardinality(S) <= Cardinality(T)
  BY <1>2, FS_Subset
<1>5. \A r \in Request : Cardinality(S \union {r}) <= Cardinality(S) + 1
  <2> TAKE r \in Request
  <2>1. Cardinality(S \union {r}) = IF r \in S THEN Cardinality(S) ELSE Cardinality(S) + 1
    BY <1>2, FS_AddElement
  <2> QED
    BY <1>3, <2>1
<1>6. /\ Cardinality(S \union T) = Cardinality(S) + Cardinality(T) - Cardinality(S \cap T)
      /\ IsFiniteSet(S \cap T)
  BY <1>2, FS_Union, FS_Intersection
<1>7. Cardinality(S \cap T) \in Nat
  BY <1>6, FS_CardinalityType
<1> QED
  BY <1>2, <1>3, <1>4, <1>5, <1>6, <1>7


-----------------------------------------------------------------------------
LEMMA InitInv == Init => IInv
<1> SUFFICES ASSUME Init PROVE IInv
  OBVIOUS
<1>1. TypeOK
  BY DEF Init, TypeOK
<1>2. \A lo, hi \in Int : AdmittedInBuckets(lo, hi) = {}
  BY DEF Init, AdmittedInBuckets
<1>3. BucketsAreLog
  BY <1>2 DEF Init, BucketsAreLog, CountedIn
<1>4. AlignedLimit
  <2>1. \A b \in Int : AdmittedInBuckets(b, b + BucketCount - 1) = {}
    BY <1>2, LimiterAssumption
  <2> QED
    BY <2>1, FS_EmptySet, LimiterAssumption DEF AlignedLimit
<1>5. BucketsAreNear
  BY DEF Init, BucketsAreNear
<1> QED
  BY <1>1, <1>3, <1>4, <1>5 DEF IInv

(* The clock only makes buckets too old.                                    *)
LEMMA TickInv == IInv /\ Tick => IInv'
<1> SUFFICES ASSUME IInv, Tick PROVE IInv'
  OBVIOUS
<1>1. TypeOK'
  BY LimiterAssumption DEF IInv, Tick, TypeOK
<1>2. WindowStart <= WindowStart' /\ WindowStart \in Int /\ WindowStart' \in Int
  <2>1. now \in Nat /\ now' \in Nat /\ now <= now'
    BY DEF IInv, TypeOK, Tick
  <2>2. BucketOf(now) \in Nat /\ BucketOf(now') \in Nat /\ BucketOf(now) <= BucketOf(now')
    BY <2>1, DivBounds, BucketMonotone, LimiterAssumption DEF BucketOf
  <2> QED
    BY <2>2, LimiterAssumption DEF WindowStart, CurrentBucket, BucketOf
<1>3. \A lo, hi \in Int : AdmittedInBuckets(lo, hi)' = AdmittedInBuckets(lo, hi)
  BY DEF Tick, AdmittedInBuckets, BucketOf
<1>4. BucketsAreLog'
  BY <1>2, <1>3 DEF IInv, Tick, BucketsAreLog, CountedIn
<1>5. AlignedLimit'
  BY <1>3, LimiterAssumption DEF IInv, AlignedLimit
<1>6. BucketsAreNear'
  BY DEF IInv, Tick, BucketsAreNear
<1> QED
  BY <1>1, <1>4, <1>5, <1>6 DEF IInv

LEMMA RefuseInv == ASSUME NEW r \in Request PROVE IInv /\ Refuse(r) => IInv'
  BY DEF IInv, Refuse, TypeOK, BucketsAreLog, CountedIn, WindowStart, CurrentBucket,
         AlignedLimit, AdmittedInBuckets, BucketOf, BucketsAreNear

(* An admission adds one request to the current bucket, after the total of  *)
(* the window was found below the limit.                                    *)
LEMMA AllowInv == ASSUME NEW r \in Request PROVE IInv /\ Allow(r) => IInv'
<1> SUFFICES ASSUME IInv, Allow(r) PROVE IInv'
  OBVIOUS
<1>1. /\ CurrentBucket \in Nat
      /\ \A q \in admitted : BucketOf(at[q]) \in Nat /\ BucketOf(at[q]) <= CurrentBucket
      /\ Counted = AdmittedInBuckets(WindowStart, CurrentBucket)
  BY CountedIsLog DEF IInv
<1>2. /\ admitted' = admitted \union {r} /\ r \notin admitted
      /\ at' = [at EXCEPT ![r] = now] /\ at'[r] = now
      /\ \A q \in admitted : at'[q] = at[q]
      /\ now' = now /\ CurrentBucket' = CurrentBucket /\ WindowStart' = WindowStart
      /\ BucketOf(at'[r]) = CurrentBucket
  BY DEF IInv, TypeOK, Allow, Undecided, CurrentBucket, WindowStart, BucketOf
<1>3. WindowStart = CurrentBucket - BucketCount + 1 /\ WindowStart \in Int
      /\ WindowStart <= CurrentBucket
  BY <1>1, LimiterAssumption DEF WindowStart
<1>4. DOMAIN buckets' = Kept \union {CurrentBucket}
      /\ \A b \in DOMAIN buckets' :
           buckets'[b] = IF b = CurrentBucket THEN CountedIn(b) \union {r} ELSE buckets[b]
  BY DEF Allow
<1>5. \A lo, hi \in Int :
        AdmittedInBuckets(lo, hi)' = IF lo <= CurrentBucket /\ CurrentBucket <= hi
                                       THEN AdmittedInBuckets(lo, hi) \union {r}
                                       ELSE AdmittedInBuckets(lo, hi)
  BY <1>2 DEF AdmittedInBuckets, BucketOf
<1>6. TypeOK'
  <2>1. \A b \in DOMAIN buckets' :
          b \in Nat /\ b * BucketWidth <= now /\ buckets'[b] \subseteq Request
    <3> TAKE b \in DOMAIN buckets'
    <3>1. CASE b = CurrentBucket
      <4>1. CurrentBucket * BucketWidth <= now
        BY DivBounds, LimiterAssumption DEF IInv, TypeOK, CurrentBucket, BucketOf
      <4> QED
        BY <1>1, <1>4, <3>1, <4>1 DEF IInv, TypeOK, CountedIn
    <3>2. CASE b # CurrentBucket
      BY <1>4, <3>2 DEF Kept, IInv, TypeOK
    <3> QED
      BY <3>1, <3>2
  <2>2. now \in Nat /\ now' = now /\ refused' = refused /\ admitted \subseteq Request
        /\ refused \subseteq Request /\ at \in [Request -> Nat]
        /\ \A q \in admitted : at[q] <= now
    BY DEF IInv, TypeOK, Allow
  <2>3. at' \in [Request -> Nat] /\ \A q \in admitted' : at'[q] <= now
    BY <1>2, <2>2
  <2> QED
    BY <1>2, <2>1, <2>2, <2>3 DEF TypeOK
<1>7. BucketsAreLog'
  <2> SUFFICES ASSUME NEW b \in Int, b >= WindowStart
               PROVE  CountedIn(b)' = AdmittedInBuckets(b, b)'
    BY <1>2 DEF BucketsAreLog
  <2>1. CountedIn(b) = AdmittedInBuckets(b, b)
    BY DEF IInv, BucketsAreLog
  <2>2. CASE b = CurrentBucket
    BY <1>1, <1>4, <1>5, <2>1, <2>2 DEF CountedIn
  <2>3. CASE b # CurrentBucket
    <3>1. CountedIn(b)' = CountedIn(b)
      BY <1>4, <2>3 DEF CountedIn, Kept
    <3>2. ~(b <= CurrentBucket /\ CurrentBucket <= b)
      BY <1>1, <2>3
    <3> QED
      BY <1>5, <2>1, <3>1, <3>2
  <2> QED
    BY <2>2, <2>3
<1>8. AlignedLimit'
  <2> SUFFICES ASSUME NEW b \in Int
               PROVE  Cardinality(AdmittedInBuckets(b, b + BucketCount - 1)') <= MaxRequests
    BY LimiterAssumption DEF AlignedLimit
  <2> DEFINE hi == b + BucketCount - 1
             S  == AdmittedInBuckets(b, hi)
  <2>1. hi \in Int
    BY LimiterAssumption
  <2>2. S \in SUBSET Request /\ Counted \in SUBSET Request
    BY <1>1 DEF IInv, TypeOK, AdmittedInBuckets
  <2>3. CASE b <= CurrentBucket /\ CurrentBucket <= hi
    <3>1. S \subseteq Counted
      <4>1. WindowStart <= b
        BY <1>1, <1>3, <2>3, LimiterAssumption
      <4> QED
        BY <1>1, <1>3, <2>1, <4>1 DEF AdmittedInBuckets
    <3>2. Cardinality(S) <= Cardinality(Counted) /\ Cardinality(S) \in Nat
          /\ Cardinality(Counted) \in Nat /\ Cardinality(S \union {r}) <= Cardinality(S) + 1
          /\ Cardinality(S \union {r}) \in Nat
      <4>1. S \union {r} \in SUBSET Request
        BY <2>2
      <4> QED
        BY <2>2, <3>1, <4>1, Counting
    <3>3. Cardinality(Counted) < MaxRequests
      BY DEF Allow
    <3>4. AdmittedInBuckets(b, b + BucketCount - 1)' = S \union {r}
      BY <1>5, <2>1, <2>3
    <3>5. Cardinality(S \union {r}) <= MaxRequests
      BY <3>2, <3>3, LimiterAssumption
    <3> HIDE DEF S
    <3> QED
      BY <3>4, <3>5
  <2>4. CASE ~(b <= CurrentBucket /\ CurrentBucket <= hi)
    <3>1. AdmittedInBuckets(b, b + BucketCount - 1)' = S
      BY <1>5, <2>1, <2>4
    <3> QED
      BY <3>1 DEF IInv, AlignedLimit
  <2> QED
    BY <2>3, <2>4
<1>9. BucketsAreNear'
  <2>1. DOMAIN buckets' \subseteq CurrentBucket - BucketCount + 1 .. CurrentBucket
    <3> SUFFICES ASSUME NEW b \in Kept
                 PROVE  b \in CurrentBucket - BucketCount + 1 .. CurrentBucket
      BY <1>1, <1>3, <1>4
    <3>1. b \in Nat /\ b * BucketWidth <= now /\ b >= WindowStart /\ now \in Nat
      BY DEF Kept, IInv, TypeOK
    <3>2. b <= CurrentBucket
      <4>1. now < BucketWidth * CurrentBucket + BucketWidth
        BY <3>1, DivBounds, LimiterAssumption DEF CurrentBucket, BucketOf
      <4>2. SUFFICES ASSUME CurrentBucket < b PROVE FALSE
        BY <1>1, <3>1
      <4>3. BucketWidth * CurrentBucket + BucketWidth <= BucketWidth * b
        BY <1>1, <3>1, <4>2, TimesMonotone, LimiterAssumption
      <4> QED
        BY <1>1, <3>1, <4>1, <4>3, LimiterAssumption
    <3> QED
      BY <1>1, <1>3, <3>1, <3>2
  <2> QED
    BY <1>1, <2>1 DEF BucketsAreNear
<1> QED
  BY <1>6, <1>7, <1>8, <1>9 DEF IInv

LEMMA Invariance == Spec => []IInv
<1>1. ASSUME IInv, [Next]_vars PROVE IInv'
  <2>1. CASE Next
    BY <1>1, <2>1, TickInv, AllowInv, RefuseInv DEF Next
  <2>2. CASE UNCHANGED vars
    BY <1>1, <2>2 DEF vars, IInv, TypeOK, BucketsAreLog, CountedIn, WindowStart,
       CurrentBucket, AlignedLimit, AdmittedInBuckets, BucketOf, BucketsAreNear
  <2> QED
    BY <1>1, <2>1, <2>2
<1> QED
  BY InitInv, <1>1, PTL DEF Spec


-----------------------------------------------------------------------------
(* The limiter is well typed: a bucket never lies in the future             *)
(* (resilience.py:104-123).                                                 *)
THEOREM LimiterTypes == Spec => []TypeOK
<1>1. IInv => TypeOK
  BY DEF IInv
<1> QED
  BY Invariance, <1>1, PTL

(* In every stretch of time that is one bucket shorter than the window at   *)
(* most max_requests are admitted: such a stretch touches bucket_count      *)
(* buckets.                                                                 *)
THEOREM WindowsLimited == Spec => []WindowLimit
<1>1. ASSUME IInv PROVE WindowLimit
  <2> SUFFICES ASSUME NEW lo \in 0 .. now
               PROVE  Cardinality(AdmittedIn(lo, lo + SurelyLimited)) <= MaxRequests
    BY DEF WindowLimit
  <2> DEFINE b == BucketOf(lo)
             W == AdmittedInBuckets(b, b + BucketCount - 1)
  <2>1. now \in Nat /\ lo \in Nat
    BY <1>1 DEF IInv, TypeOK
  <2>2. b \in Nat
    BY <2>1, DivBounds, LimiterAssumption DEF BucketOf
  <2>3. AdmittedIn(lo, lo + SurelyLimited) \subseteq W
    <3> SUFFICES ASSUME NEW r \in admitted, lo <= at[r], at[r] <= lo + SurelyLimited
                 PROVE  b <= BucketOf(at[r]) /\ BucketOf(at[r]) <= b + BucketCount - 1
      BY DEF AdmittedIn, AdmittedInBuckets
    <3>1. at[r] \in Nat /\ BucketOf(at[r]) \in Nat
      BY <1>1, DivBounds, LimiterAssumption DEF IInv, TypeOK, BucketOf
    <3>2. b <= BucketOf(at[r])
      BY <2>1, <3>1, BucketMonotone
    <3>3. SurelyLimited = (BucketCount - 1) * BucketWidth /\ SurelyLimited \in Nat
          /\ BucketCount - 1 \in Nat
      BY LimiterAssumption DEF SurelyLimited
    <3>4. at[r] - lo <= (BucketCount - 1) * BucketWidth
      BY <2>1, <3>1, <3>3
    <3>5. BucketOf(at[r]) - (BucketCount - 1) <= b
      BY <2>1, <3>1, <3>3, <3>4, NearInBuckets
    <3> QED
      BY <2>2, <3>1, <3>2, <3>5, LimiterAssumption
  <2>4. AdmittedIn(lo, lo + SurelyLimited) \in SUBSET Request /\ W \in SUBSET Request
    BY <1>1 DEF IInv, TypeOK, AdmittedIn, AdmittedInBuckets
  <2>5. Cardinality(W) <= MaxRequests
    BY <1>1, <2>2 DEF IInv, AlignedLimit
  <2>6. /\ Cardinality(AdmittedIn(lo, lo + SurelyLimited)) <= Cardinality(W)
        /\ Cardinality(W) \in Nat /\ Cardinality(AdmittedIn(lo, lo + SurelyLimited)) \in Nat
    BY <2>3, <2>4, Counting
  <2> HIDE DEF W
  <2> QED
    BY <2>5, <2>6, LimiterAssumption
<1> QED
  BY Invariance, <1>1, PTL

(* In every window at most twice max_requests are admitted: a window        *)
(* touches one bucket more than it has.                                     *)
THEOREM BurstsLimited == Spec => []BurstBound
<1>1. ASSUME IInv PROVE BurstBound
  <2> SUFFICES ASSUME NEW lo \in 0 .. now
               PROVE  Cardinality(AdmittedIn(lo, lo + Nominal)) <= 2 * MaxRequests
    BY DEF BurstBound
  <2> DEFINE b == BucketOf(lo)
             c == b + BucketCount
             S == AdmittedInBuckets(b, b + BucketCount - 1)
             T == AdmittedInBuckets(c, c + BucketCount - 1)
  <2>1. now \in Nat /\ lo \in Nat
    BY <1>1 DEF IInv, TypeOK
  <2>2. b \in Nat /\ c \in Nat
    BY <2>1, DivBounds, LimiterAssumption DEF BucketOf
  <2>3. AdmittedIn(lo, lo + Nominal) \subseteq S \union T
    <3> SUFFICES ASSUME NEW r \in admitted, lo <= at[r], at[r] <= lo + Nominal
                 PROVE  b <= BucketOf(at[r]) /\ BucketOf(at[r]) <= c + BucketCount - 1
      BY <1>1, <2>2, DivBounds, LimiterAssumption
         DEF AdmittedIn, AdmittedInBuckets, IInv, TypeOK, BucketOf
    <3>1. at[r] \in Nat /\ BucketOf(at[r]) \in Nat
      BY <1>1, DivBounds, LimiterAssumption DEF IInv, TypeOK, BucketOf
    <3>2. b <= BucketOf(at[r])
      BY <2>1, <3>1, BucketMonotone
    <3>3. Nominal = BucketCount * BucketWidth - 1 /\ Nominal \in Nat
      BY LimiterAssumption DEF Nominal
    <3>4. at[r] - lo <= BucketCount * BucketWidth
      <4>1. BucketCount * BucketWidth \in Nat
        BY LimiterAssumption
      <4> QED
        BY <2>1, <3>1, <3>3, <4>1
    <3>5. BucketOf(at[r]) - BucketCount <= b
      BY <2>1, <3>1, <3>4, NearInBuckets, LimiterAssumption
    <3> QED
      BY <2>2, <3>1, <3>2, <3>5, LimiterAssumption
  <2>4. /\ AdmittedIn(lo, lo + Nominal) \in SUBSET Request
        /\ S \in SUBSET Request /\ T \in SUBSET Request
    BY <1>1 DEF IInv, TypeOK, AdmittedIn, AdmittedInBuckets
  <2>5. Cardinality(S) <= MaxRequests /\ Cardinality(T) <= MaxRequests
    BY <1>1, <2>2 DEF IInv, AlignedLimit
  <2> HIDE DEF S, T
  <2>6. S \union T \in SUBSET Request
    BY <2>4
  <2>7. /\ Cardinality(AdmittedIn(lo, lo + Nominal)) <= Cardinality(S \union T)
        /\ Cardinality(S \union T) <= Cardinality(S) + Cardinality(T)
        /\ Cardinality(S) \in Nat /\ Cardinality(T) \in Nat /\ Cardinality(S \union T) \in Nat
        /\ Cardinality(AdmittedIn(lo, lo + Nominal)) \in Nat
    BY <2>3, <2>4, <2>6, Counting
  <2> QED
    BY <2>5, <2>7, LimiterAssumption
<1> QED
  BY Invariance, <1>1, PTL

(* The dictionary of a key never holds more than bucket_count buckets.      *)
THEOREM FewBuckets == Spec => []BucketsBounded
<1>1. ASSUME IInv PROVE BucketsBounded
  <2>1. PICK b \in Int : DOMAIN buckets \subseteq b - BucketCount + 1 .. b
    BY <1>1 DEF IInv, BucketsAreNear
  <2>2. b - BucketCount + 1 \in Int /\ b - (b - BucketCount + 1) + 1 = BucketCount
        /\ b - BucketCount + 1 <= b
    BY LimiterAssumption
  <2>3. /\ IsFiniteSet(b - BucketCount + 1 .. b)
        /\ Cardinality(b - BucketCount + 1 .. b) = BucketCount
    BY <2>2, FS_Interval
  <2> QED
    BY <2>1, <2>3, FS_Subset DEF BucketsBounded
<1> QED
  BY Invariance, <1>1, PTL

(* The abstract module counts with the same operator.                       *)
LEMMA SameCardinality == \A S : SW!Cardinality(S) = Cardinality(S)
  BY DEF SW!Cardinality, Cardinality

(* The limiter implements a sliding window: an admission finds fewer than   *)
(* max_requests within one bucket less than the window, and a refusal finds *)
(* at least as many within the window.                                      *)
THEOREM ImplementsSlidingWindow == Spec => IsSlidingWindow
<1>1. Init => SW!Init
  BY DEF Init, SW!Init
<1>2. ASSUME IInv, Tick PROVE SW!Pass
  BY <1>2 DEF Tick, SW!Pass
<1>3. ASSUME IInv, NEW r \in Request, Allow(r) PROVE SW!Admit(r)
  <2>1. Counted = AdmittedInBuckets(WindowStart, CurrentBucket) /\ CurrentBucket \in Nat
        /\ \A q \in admitted : BucketOf(at[q]) \in Nat /\ BucketOf(at[q]) <= CurrentBucket
    BY <1>3, CountedIsLog DEF IInv
  <2>2. SW!AdmittedIn(now - SurelyLimited, now) \subseteq Counted
    <3> SUFFICES ASSUME NEW q \in admitted, now - SurelyLimited <= at[q], at[q] <= now
                 PROVE  WindowStart <= BucketOf(at[q])
      BY <2>1 DEF SW!AdmittedIn, AdmittedInBuckets
    <3>1. at[q] \in Nat /\ now \in Nat
      BY <1>3 DEF IInv, TypeOK
    <3>2. SurelyLimited = (BucketCount - 1) * BucketWidth /\ SurelyLimited \in Nat
          /\ BucketCount - 1 \in Nat
      BY LimiterAssumption DEF SurelyLimited
    <3>3. now - at[q] <= (BucketCount - 1) * BucketWidth
      BY <3>1, <3>2
    <3>4. BucketOf(now) - (BucketCount - 1) <= BucketOf(at[q])
      BY <3>1, <3>2, <3>3, NearInBuckets
    <3> QED
      BY <2>1, <3>4, LimiterAssumption DEF WindowStart, CurrentBucket
  <2>3. Counted \in SUBSET Request /\ SW!AdmittedIn(now - SurelyLimited, now) \in SUBSET Request
    BY <1>3, <2>1 DEF IInv, TypeOK, AdmittedInBuckets, SW!AdmittedIn
  <2>4. /\ Cardinality(SW!AdmittedIn(now - SurelyLimited, now)) <= Cardinality(Counted)
        /\ Cardinality(SW!AdmittedIn(now - SurelyLimited, now)) \in Nat
        /\ Cardinality(Counted) \in Nat
    BY <2>2, <2>3, Counting
  <2>5. Cardinality(Counted) < MaxRequests
    BY <1>3 DEF Allow
  <2>6. Cardinality(SW!AdmittedIn(now - SurelyLimited, now)) < MaxRequests
    BY <2>4, <2>5, LimiterAssumption
  <2> QED
    BY <1>3, <2>6, SameCardinality DEF Allow, Undecided, SW!Admit, SW!Undecided
<1>4. ASSUME IInv, NEW r \in Request, Refuse(r) PROVE SW!Refuse(r)
  <2>1. Counted = AdmittedInBuckets(WindowStart, CurrentBucket) /\ CurrentBucket \in Nat
    BY <1>4, CountedIsLog DEF IInv
  <2>2. Counted \subseteq SW!AdmittedIn(now - Nominal, now)
    <3> SUFFICES ASSUME NEW q \in admitted, WindowStart <= BucketOf(at[q])
                 PROVE  now - Nominal <= at[q] /\ at[q] <= now
      BY <2>1 DEF SW!AdmittedIn, AdmittedInBuckets
    <3>1. at[q] \in Nat /\ now \in Nat /\ at[q] <= now
      BY <1>4 DEF IInv, TypeOK
    <3>2. BucketOf(now) - BucketCount + 1 <= BucketOf(at[q])
      BY DEF WindowStart, CurrentBucket
    <3>3. now - at[q] <= BucketCount * BucketWidth - 1
      BY <3>1, <3>2, NearInTime, LimiterAssumption
    <3>4. Nominal = BucketCount * BucketWidth - 1 /\ Nominal \in Int
      BY LimiterAssumption DEF Nominal
    <3> QED
      BY <3>1, <3>3, <3>4
  <2>3. Counted \in SUBSET Request /\ SW!AdmittedIn(now - Nominal, now) \in SUBSET Request
    BY <1>4, <2>1 DEF IInv, TypeOK, AdmittedInBuckets, SW!AdmittedIn
  <2>4. /\ Cardinality(Counted) <= Cardinality(SW!AdmittedIn(now - Nominal, now))
        /\ Cardinality(SW!AdmittedIn(now - Nominal, now)) \in Nat
        /\ Cardinality(Counted) \in Nat
    BY <2>2, <2>3, Counting
  <2>5. Cardinality(Counted) >= MaxRequests
    BY <1>4 DEF Refuse
  <2>6. Cardinality(SW!AdmittedIn(now - Nominal, now)) >= MaxRequests
    BY <2>4, <2>5, LimiterAssumption
  <2> QED
    BY <1>4, <2>6, SameCardinality DEF Refuse, Undecided, SW!Refuse, SW!Undecided
<1>5. ASSUME IInv, [Next]_vars PROVE [SW!Next]_(SW!vars)
  <2>1. CASE Next
    BY <1>2, <1>3, <1>4, <1>5, <2>1 DEF Next, SW!Next
  <2>2. CASE UNCHANGED vars
    BY <2>2 DEF vars, SW!vars
  <2> QED
    BY <1>5, <2>1, <2>2
<1> QED
  BY Invariance, <1>1, <1>5, PTL DEF Spec, IsSlidingWindow, SW!Spec
=============================================================================
