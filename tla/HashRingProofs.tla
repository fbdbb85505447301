---------------------------- MODULE HashRingProofs ----------------------------
(***************************************************************************)
(* Proofs about ConsistentHashRing, for any hash function, any nodes and   *)
(* weights and any size of the hash space: collisions and probes past the  *)
(* end of the space are in all of them.                                    *)
(***************************************************************************)
EXTENDS HashRing, FiniteSetTheorems, SequenceTheorems, TLAPS

(* Strictly ascending lists of positions.                                   *)
Sorted(s) == \A i, j \in DOMAIN s : i < j => s[i] < s[j]

Lists == {s \in Seq(Nat) : Sorted(s)}

-----------------------------------------------------------------------------
(* Every nonempty set of numbers has a least one.                           *)
LEMMA LeastExists ==
  ASSUME NEW P \in SUBSET Nat, P # {}
  PROVE  \E p \in P : \A q \in P : p <= q
<1>1. PICK p \in P : \A q \in P : ~(<<q, p>> \in OpToRel(<, Nat))
      BY NatLessThanWellFounded, WFMin
<1>2. \A q \in P : ~(q < p)
      BY <1>1 DEF OpToRel
<1> QED BY <1>2

(* 1 .. n has n members.                                                    *)
LEMMA IntervalSize ==
  ASSUME NEW n \in Nat
  PROVE  IsFiniteSet(1 .. n) /\ Cardinality(1 .. n) = n
BY FS_Interval

(* A set of numbers from 1 on without gaps reaches up to its size.          *)
LEMMA NoGaps ==
  ASSUME NEW n \in Nat, NEW S \in SUBSET (1 .. n), \A i \in S, j \in 1 .. n : j < i => j \in S
  PROVE  /\ Cardinality(S) \in Nat /\ Cardinality(S) <= n
         /\ \A i \in 1 .. n : i \in S <=> i <= Cardinality(S)
<1> DEFINE out == (1 .. n + 1) \ S
<1>1. out \in SUBSET Nat /\ out # {}
  <2>1. n + 1 \in out
        OBVIOUS
  <2> QED BY <2>1
<1>2. PICK m \in out : \A q \in out : m <= q
      BY <1>1, LeastExists
<1>3. m \in 1 .. n + 1 /\ m \notin S
      BY <1>2
<1>4. \A i \in 1 .. m - 1 : i \in S
      BY <1>2, <1>3
<1>5. \A i \in S : i \in 1 .. m - 1
  <2> SUFFICES ASSUME NEW i \in S, ~(i <= m - 1) PROVE FALSE
      BY <1>3
  <2>1. m # i /\ m < i /\ m \in 1 .. n
        BY <1>3
  <2> QED BY <1>3, <2>1
<1>6. S = 1 .. m - 1
      BY <1>4, <1>5
<1>7. m - 1 \in Nat /\ m - 1 <= n
      BY <1>3
<1>8. Cardinality(S) = m - 1
      BY <1>6, <1>7, IntervalSize
<1> QED BY <1>6, <1>7, <1>8

(* A list of positions is a function on 1 .. Len into the naturals, with no *)
(* position in it twice.                                                    *)
LEMMA ListShape ==
  ASSUME NEW s \in Lists
  PROVE  /\ s \in Seq(Nat) /\ Len(s) \in Nat /\ DOMAIN s = 1 .. Len(s)
         /\ \A i \in 1 .. Len(s) : s[i] \in Nat
         /\ \A i, j \in 1 .. Len(s) : i < j => s[i] < s[j]
<1>1. s \in Seq(Nat) /\ Len(s) \in Nat /\ DOMAIN s = 1 .. Len(s)
      BY LenProperties DEF Lists
<1> QED BY <1>1, ElementOfSeq DEF Lists, Sorted

(* bisect_right and bisect_left split the list at x.                        *)
LEMMA BisectRightSplits ==
  ASSUME NEW s \in Lists, NEW x \in Nat
  PROVE  /\ BisectRight(s, x) \in Nat /\ BisectRight(s, x) <= Len(s)
         /\ \A i \in 1 .. Len(s) : s[i] <= x <=> i <= BisectRight(s, x)
<1> DEFINE S == {i \in DOMAIN s : s[i] <= x}
<1>1. /\ Len(s) \in Nat /\ DOMAIN s = 1 .. Len(s)
      /\ \A i \in 1 .. Len(s) : s[i] \in Nat
      /\ \A i, j \in 1 .. Len(s) : i < j => s[i] < s[j]
      BY ListShape
<1>2. S \in SUBSET (1 .. Len(s)) /\ \A i \in S, j \in 1 .. Len(s) : j < i => j \in S
      BY <1>1
<1>3. BisectRight(s, x) = Cardinality(S)
      BY DEF BisectRight
<1>4. \A i \in 1 .. Len(s) : i \in S <=> s[i] <= x
      BY <1>1
<1> HIDE DEF S
<1> QED BY <1>1, <1>2, <1>3, <1>4, NoGaps

(* bisect_left splits a list of positions: what lies before x, and the rest.*)
LEMMA BisectLeftSplits ==
  ASSUME NEW s \in Lists, NEW x \in Nat
  PROVE  /\ BisectLeft(s, x) \in Nat /\ BisectLeft(s, x) <= Len(s)
         /\ \A i \in 1 .. Len(s) : s[i] < x <=> i <= BisectLeft(s, x)
<1> DEFINE S == {i \in DOMAIN s : s[i] < x}
<1>1. /\ Len(s) \in Nat /\ DOMAIN s = 1 .. Len(s)
      /\ \A i \in 1 .. Len(s) : s[i] \in Nat
      /\ \A i, j \in 1 .. Len(s) : i < j => s[i] < s[j]
      BY ListShape
<1>2. S \in SUBSET (1 .. Len(s)) /\ \A i \in S, j \in 1 .. Len(s) : j < i => j \in S
      BY <1>1
<1>3. BisectLeft(s, x) = Cardinality(S)
      BY DEF BisectLeft
<1>4. \A i \in 1 .. Len(s) : i \in S <=> s[i] < x
      BY <1>1
<1> HIDE DEF S
<1> QED BY <1>1, <1>2, <1>3, <1>4, NoGaps

(* insort keeps the list sorted and adds the position, if it is new.        *)
LEMMA InsortKeeps ==
  ASSUME NEW s \in Lists, NEW x \in Nat, x \notin ToSet(s)
  PROVE  /\ Insort(s, x) \in Lists
         /\ ToSet(Insort(s, x)) = ToSet(s) \union {x}
         /\ Len(Insort(s, x)) = Len(s) + 1
<1>1. /\ s \in Seq(Nat) /\ Len(s) \in Nat /\ DOMAIN s = 1 .. Len(s)
      /\ \A i \in 1 .. Len(s) : s[i] \in Nat
      /\ \A i, j \in 1 .. Len(s) : i < j => s[i] < s[j]
      BY ListShape
<1>2. PICK b \in Nat : /\ b = BisectRight(s, x) /\ b <= Len(s)
                       /\ \A i \in 1 .. Len(s) : s[i] <= x <=> i <= b
      BY BisectRightSplits
<1> DEFINE front == SubSeq(s, 1, b)
           back  == SubSeq(s, b + 1, Len(s))
           r     == Insort(s, x)
<1>b. Len(s) \in Nat /\ b \in Nat /\ b <= Len(s)
      BY <1>1, <1>2
<1>3. r = front \o <<x>> \o back
  <2>1. (b + 1) - 1 = b
        BY <1>2
  <2>2. r = SubSeq(s, 1, (b + 1) - 1) \o <<x>> \o back
    <3>1. Insort(s, x) = InsertAt(s, BisectRight(s, x) + 1, x)
          BY DEF Insort
    <3>2. r = InsertAt(s, b + 1, x)
          BY <1>2, <3>1
    <3> QED BY <3>2, Zenon DEF InsertAt
  <2>3. SubSeq(s, 1, (b + 1) - 1) = front
        BY <2>1
  <2> HIDE DEF front, back, r
  <2> QED BY <2>2, <2>3
<1>4. /\ front \in Seq(Nat) /\ Len(front) = b
      /\ \A i \in 1 .. b : front[i] = s[i]
  <2>1. 1 \in Int /\ b \in Int /\ \A i \in 1 .. b : s[i] \in Nat
        BY <1>1, <1>2
  <2>2. /\ front \in Seq(Nat)
        /\ Len(front) = IF 1 <= b THEN b - 1 + 1 ELSE 0
        /\ \A i \in 1 .. b - 1 + 1 : front[i] = s[1 + i - 1]
        BY <2>1, SubSeqProperties
  <2>3. Len(front) = b
        BY <1>2, <2>2
  <2>4. \A i \in 1 .. b : i \in 1 .. b - 1 + 1 /\ 1 + i - 1 = i
        BY <1>2
  <2> QED BY <2>2, <2>3, <2>4
<1>5. /\ back \in Seq(Nat) /\ Len(back) = Len(s) - b
      /\ \A i \in 1 .. Len(s) - b : back[i] = s[b + i]
  <2>1. b + 1 \in Int /\ Len(s) \in Int /\ \A i \in b + 1 .. Len(s) : s[i] \in Nat
        BY <1>1, <1>2
  <2>2. /\ back \in Seq(Nat)
        /\ Len(back) = IF b + 1 <= Len(s) THEN Len(s) - (b + 1) + 1 ELSE 0
        /\ \A i \in 1 .. Len(s) - (b + 1) + 1 : back[i] = s[(b + 1) + i - 1]
        BY <2>1, SubSeqProperties
  <2>3. Len(back) = Len(s) - b
        BY <1>1, <1>2, <2>2
  <2>4. \A i \in 1 .. Len(s) - b : i \in 1 .. Len(s) - (b + 1) + 1 /\ (b + 1) + i - 1 = b + i
        BY <1>1, <1>2
  <2> QED BY <2>2, <2>3, <2>4
<1> HIDE DEF front, back, r
<1>6. /\ front \o <<x>> \in Seq(Nat) /\ Len(front \o <<x>>) = b + 1
      /\ \A i \in 1 .. b : (front \o <<x>>)[i] = s[i]
      /\ (front \o <<x>>)[b + 1] = x
  <2>1. <<x>> \in Seq(Nat) /\ Len(<<x>>) = 1 /\ <<x>>[1] = x
        OBVIOUS
  <2>2. /\ front \o <<x>> \in Seq(Nat) /\ Len(front \o <<x>>) = Len(front) + Len(<<x>>)
        /\ \A i \in 1 .. Len(front) + Len(<<x>>) :
             (front \o <<x>>)[i] = IF i <= Len(front) THEN front[i] ELSE <<x>>[i - Len(front)]
        BY <1>4, <2>1, ConcatProperties
  <2>3. Len(front) + Len(<<x>>) = b + 1 /\ b + 1 - b = 1
        BY <1>2, <1>4, <2>1
  <2>4. \A i \in 1 .. b : i \in 1 .. b + 1 /\ i <= b
        BY <1>2
  <2>5. b + 1 \in 1 .. b + 1 /\ ~(b + 1 <= b)
        BY <1>2
  <2> QED BY <1>4, <2>1, <2>2, <2>3, <2>4, <2>5
<1> DEFINE head == front \o <<x>>
<1> HIDE DEF head
<1>7. /\ r \in Seq(Nat) /\ Len(r) = Len(s) + 1
      /\ \A i \in 1 .. b : r[i] = s[i]
      /\ r[b + 1] = x
      /\ \A i \in b + 2 .. Len(s) + 1 : r[i] = s[i - 1]
  <2>1. /\ head \in Seq(Nat) /\ Len(head) = b + 1
        /\ \A i \in 1 .. b : head[i] = s[i]
        /\ head[b + 1] = x
        BY <1>6 DEF head
  <2>2. /\ r \in Seq(Nat) /\ Len(r) = Len(head) + Len(back)
        /\ \A i \in 1 .. Len(head) + Len(back) :
             r[i] = IF i <= Len(head) THEN head[i] ELSE back[i - Len(head)]
    <3>1. r = head \o back
          BY <1>3 DEF head
    <3> QED BY <1>5, <2>1, <3>1, ConcatProperties
  <2>3. Len(head) + Len(back) = Len(s) + 1
        BY <1>1, <1>2, <1>5, <2>1
  <2>4. \A i \in 1 .. b + 1 : r[i] = head[i]
    <3>1. \A i \in 1 .. b + 1 : i \in 1 .. Len(s) + 1 /\ i <= b + 1
          BY <1>1, <1>2
    <3> QED BY <2>1, <2>2, <2>3, <3>1
  <2>5. ASSUME NEW i \in b + 2 .. Len(s) + 1
        PROVE  r[i] = s[i - 1]
    <3>1. /\ i \in 1 .. Len(s) + 1 /\ ~(i <= b + 1)
          /\ i - (b + 1) \in 1 .. Len(s) - b /\ b + (i - (b + 1)) = i - 1
          BY <1>b
    <3>2. r[i] = back[i - (b + 1)]
          BY <2>1, <2>2, <2>3, <3>1
    <3> QED BY <1>5, <3>1, <3>2
  <2>6. \A i \in 1 .. b : i \in 1 .. b + 1
        BY <1>2
  <2>7. b + 1 \in 1 .. b + 1
        BY <1>2
  <2> QED BY <2>1, <2>2, <2>3, <2>4, <2>5, <2>6, <2>7
<1>8. DOMAIN r = 1 .. Len(s) + 1
      BY <1>7, LenProperties
<1>9. \A i \in 1 .. Len(s) : s[i] # x
      BY <1>1 DEF ToSet
<1>10. ASSUME NEW i \in DOMAIN r, NEW j \in DOMAIN r, i < j
       PROVE  r[i] < r[j]
  <2>1. CASE j <= b
    <3>1. i \in 1 .. b /\ j \in 1 .. b /\ i \in 1 .. Len(s) /\ j \in 1 .. Len(s)
          BY <1>b, <1>8, <1>10, <2>1
    <3>2. s[i] < s[j]
          BY <1>1, <1>10, <3>1
    <3> QED BY <1>7, <3>1, <3>2
  <2>2. CASE j = b + 1
    <3>1. i \in 1 .. b /\ i \in 1 .. Len(s)
          BY <1>b, <1>8, <1>10, <2>2
    <3>2. s[i] <= x /\ s[i] # x /\ s[i] \in Nat
          BY <1>1, <1>2, <1>9, <3>1
    <3>3. r[i] = s[i] /\ r[j] = x
          BY <1>7, <2>2, <3>1
    <3> QED BY <3>2, <3>3
  <2>3. CASE j > b + 1
    <3>1. /\ j \in b + 2 .. Len(s) + 1 /\ j - 1 \in 1 .. Len(s) /\ ~(j - 1 <= b)
          BY <1>b, <1>8, <2>3
    <3>2. r[j] = s[j - 1] /\ ~(s[j - 1] <= x) /\ s[j - 1] \in Nat
          BY <1>1, <1>2, <1>7, <3>1
    <3>3. CASE i <= b
      <4>1. i \in 1 .. b /\ i \in 1 .. Len(s) /\ i < j - 1
            BY <1>b, <1>8, <3>1, <3>3
      <4>2. s[i] < s[j - 1]
            BY <1>1, <3>1, <4>1
      <4> QED BY <1>7, <3>2, <4>1, <4>2
    <3>4. CASE i = b + 1
          BY <1>7, <3>2, <3>4
    <3>5. CASE i > b + 1
      <4>1. i \in b + 2 .. Len(s) + 1 /\ i - 1 \in 1 .. Len(s) /\ i - 1 < j - 1
            BY <1>b, <1>8, <1>10, <3>5
      <4>2. s[i - 1] < s[j - 1]
            BY <1>1, <3>1, <4>1
      <4> QED BY <1>7, <3>2, <4>1, <4>2
    <3> QED BY <1>2, <1>8, <3>3, <3>4, <3>5
  <2> QED BY <1>2, <1>8, <2>1, <2>2, <2>3
<1>11. ToSet(r) = ToSet(s) \union {x}
  <2>1. ASSUME NEW i \in DOMAIN r
        PROVE  r[i] \in ToSet(s) \union {x}
    <3>1. CASE i <= b
      <4>1. i \in 1 .. b /\ i \in DOMAIN s
            BY <1>1, <1>2, <1>8, <3>1
      <4> QED BY <1>7, <4>1 DEF ToSet
    <3>2. CASE i = b + 1
          BY <1>7, <3>2
    <3>3. CASE i > b + 1
      <4>1. i \in b + 2 .. Len(s) + 1 /\ i - 1 \in DOMAIN s
            BY <1>1, <1>2, <1>8, <3>3
      <4> QED BY <1>7, <4>1 DEF ToSet
    <3> QED BY <1>2, <1>8, <3>1, <3>2, <3>3
  <2>2. ASSUME NEW i \in DOMAIN s
        PROVE  s[i] \in ToSet(r)
    <3>1. CASE i <= b
      <4>1. i \in 1 .. b /\ i \in DOMAIN r
            BY <1>1, <1>2, <1>8, <3>1
      <4> QED BY <1>7, <4>1 DEF ToSet
    <3>2. CASE ~(i <= b)
      <4>1. i + 1 \in b + 2 .. Len(s) + 1 /\ i + 1 \in DOMAIN r /\ (i + 1) - 1 = i
            BY <1>1, <1>2, <1>8, <3>2
      <4>2. r[i + 1] = s[i]
            BY <1>7, <4>1
      <4> QED BY <4>1, <4>2 DEF ToSet
    <3> QED BY <3>1, <3>2
  <2>3. x \in ToSet(r)
    <3>1. b + 1 \in DOMAIN r
          BY <1>1, <1>2, <1>8
    <3> QED BY <1>7, <3>1 DEF ToSet
  <2> QED BY <2>1, <2>2, <2>3 DEF ToSet
<1> QED BY <1>7, <1>10, <1>11 DEF Lists, Sorted, r

(* The position at an index is taken out, the others keep their order.      *)
LEMMA RemoveKeeps ==
  ASSUME NEW s \in Lists, NEW at \in 1 .. Len(s)
  PROVE  /\ RemoveAt(s, at) \in Lists
         /\ ToSet(RemoveAt(s, at)) = ToSet(s) \ {s[at]}
<1>1. /\ s \in Seq(Nat) /\ Len(s) \in Nat /\ DOMAIN s = 1 .. Len(s)
      /\ \A i \in 1 .. Len(s) : s[i] \in Nat
      /\ \A i, j \in 1 .. Len(s) : i < j => s[i] < s[j]
      BY ListShape
<1> DEFINE front == SubSeq(s, 1, at - 1)
           back  == SubSeq(s, at + 1, Len(s))
           r     == RemoveAt(s, at)
<1>2. r = front \o back
      BY DEF RemoveAt
<1>3. at \in Int /\ at >= 1 /\ at <= Len(s)
      BY <1>1
<1>4. /\ front \in Seq(Nat) /\ Len(front) = at - 1
      /\ \A i \in 1 .. at - 1 : front[i] = s[i]
  <2>1. 1 \in Int /\ at - 1 \in Int /\ \A i \in 1 .. at - 1 : s[i] \in Nat
        BY <1>1, <1>3
  <2>2. /\ front \in Seq(Nat)
        /\ Len(front) = IF 1 <= at - 1 THEN at - 1 - 1 + 1 ELSE 0
        /\ \A i \in 1 .. at - 1 - 1 + 1 : front[i] = s[1 + i - 1]
        BY <2>1, SubSeqProperties
  <2>3. Len(front) = at - 1
        BY <1>3, <2>2
  <2>4. \A i \in 1 .. at - 1 : i \in 1 .. at - 1 - 1 + 1 /\ 1 + i - 1 = i
        BY <1>3
  <2> QED BY <2>2, <2>3, <2>4
<1>5. /\ back \in Seq(Nat) /\ Len(back) = Len(s) - at
      /\ \A i \in 1 .. Len(s) - at : back[i] = s[at + i]
  <2>1. at + 1 \in Int /\ Len(s) \in Int /\ \A i \in at + 1 .. Len(s) : s[i] \in Nat
        BY <1>1, <1>3
  <2>2. /\ back \in Seq(Nat)
        /\ Len(back) = IF at + 1 <= Len(s) THEN Len(s) - (at + 1) + 1 ELSE 0
        /\ \A i \in 1 .. Len(s) - (at + 1) + 1 : back[i] = s[(at + 1) + i - 1]
        BY <2>1, SubSeqProperties
  <2>3. Len(back) = Len(s) - at
    <3>1. Len(back) = IF at + 1 <= Len(s) THEN Len(s) - (at + 1) + 1 ELSE 0
          BY <2>2
    <3> HIDE DEF back
    <3>2. Len(s) \in Nat
          BY <1>1
    <3> QED BY <1>3, <3>1, <3>2
  <2>4. \A i \in 1 .. Len(s) - at : i \in 1 .. Len(s) - (at + 1) + 1 /\ (at + 1) + i - 1 = at + i
        BY <1>1, <1>3
  <2> QED BY <2>2, <2>3, <2>4
<1> HIDE DEF front, back, r
<1>6. /\ r \in Seq(Nat) /\ Len(r) = Len(s) - 1 /\ DOMAIN r = 1 .. Len(s) - 1
      /\ \A i \in 1 .. Len(s) - 1 : r[i] = IF i < at THEN s[i] ELSE s[i + 1]
  <2>1. /\ r \in Seq(Nat) /\ Len(r) = Len(front) + Len(back)
        /\ \A i \in 1 .. Len(front) + Len(back) :
             r[i] = IF i <= Len(front) THEN front[i] ELSE back[i - Len(front)]
        BY <1>2, <1>4, <1>5, ConcatProperties
  <2>2. Len(front) + Len(back) = Len(s) - 1
        BY <1>1, <1>3, <1>4, <1>5
  <2>3. ASSUME NEW i \in 1 .. Len(s) - 1, i < at
        PROVE  r[i] = s[i]
    <3>1. i \in 1 .. Len(front) + Len(back) /\ i <= Len(front) /\ i \in 1 .. at - 1
          BY <1>1, <1>3, <1>4, <2>2, <2>3
    <3> QED BY <1>4, <2>1, <3>1
  <2>4. ASSUME NEW i \in 1 .. Len(s) - 1, ~(i < at)
        PROVE  r[i] = s[i + 1]
    <3>1. /\ i \in 1 .. Len(front) + Len(back) /\ ~(i <= Len(front))
          /\ i - Len(front) \in 1 .. Len(s) - at /\ at + (i - Len(front)) = i + 1
          BY <1>1, <1>3, <1>4, <2>2, <2>4
    <3>2. r[i] = back[i - Len(front)]
          BY <2>1, <3>1
    <3> QED BY <1>5, <3>1, <3>2
  <2> QED BY <1>1, <2>1, <2>2, <2>3, <2>4, LenProperties
<1> DEFINE To(i) == IF i < at THEN i ELSE i - 1
           From(i) == IF i < at THEN i ELSE i + 1
<1>7. ASSUME NEW i \in DOMAIN s, i # at
      PROVE  To(i) \in DOMAIN r /\ r[To(i)] = s[i]
  <2>1. To(i) \in 1 .. Len(s) - 1 /\ (IF To(i) < at THEN To(i) ELSE To(i) + 1) = i
        BY <1>1, <1>3, <1>7
  <2> HIDE DEF To
  <2> QED BY <1>6, <2>1
<1>8. /\ \A i \in DOMAIN r : From(i) \in 1 .. Len(s) /\ From(i) # at /\ r[i] = s[From(i)]
      /\ \A i, j \in DOMAIN r : i < j => From(i) < From(j)
  <2>1. \A i \in DOMAIN r : From(i) \in 1 .. Len(s) /\ From(i) # at /\ r[i] = s[From(i)]
    <3>1. \A i \in 1 .. Len(s) - 1 : From(i) \in 1 .. Len(s) /\ From(i) # at
          BY <1>1, <1>3
    <3>2. \A i \in 1 .. Len(s) - 1 : r[i] = s[From(i)]
          BY <1>6
    <3> QED BY <1>6, <3>1, <3>2
  <2>2. \A i, j \in 1 .. Len(s) - 1 : i < j => From(i) < From(j)
        BY <1>1, <1>3
  <2> QED BY <1>6, <2>1, <2>2
<1> HIDE DEF To, From
<1>9. \A i \in 1 .. Len(s) : i # at => s[i] # s[at]
  <2> SUFFICES ASSUME NEW i \in 1 .. Len(s), i # at
               PROVE  s[i] # s[at]
      OBVIOUS
  <2>1. s[i] < s[at] \/ s[at] < s[i]
        BY <1>1, <1>3
  <2>2. s[i] \in Nat /\ s[at] \in Nat
        BY <1>1
  <2> QED BY <2>1, <2>2
<1>10. Sorted(r)
       BY <1>1, <1>8 DEF Sorted
<1>11. ToSet(r) = ToSet(s) \ {s[at]}
  <2>1. \A i \in DOMAIN r : r[i] \in ToSet(s) \ {s[at]}
        BY <1>1, <1>8, <1>9 DEF ToSet
  <2>2. \A i \in DOMAIN s : s[i] # s[at] => s[i] \in ToSet(r)
    <3> SUFFICES ASSUME NEW i \in DOMAIN s, s[i] # s[at] PROVE s[i] \in ToSet(r)
        OBVIOUS
    <3>1. To(i) \in DOMAIN r /\ r[To(i)] = s[i]
          BY <1>7
    <3> QED BY <3>1 DEF ToSet
  <2> QED BY <2>1, <2>2 DEF ToSet
<1> QED BY <1>6, <1>10, <1>11 DEF Lists, r

(* A list has finitely many positions.                                      *)
LEMMA FinitePositions ==
  ASSUME NEW s \in Lists
  PROVE  IsFiniteSet(ToSet(s)) /\ Cardinality(ToSet(s)) = Len(s)
<1>1. /\ s \in Seq(Nat) /\ Len(s) \in Nat /\ DOMAIN s = 1 .. Len(s)
      /\ \A i \in 1 .. Len(s) : s[i] \in Nat
      /\ \A i, j \in 1 .. Len(s) : i < j => s[i] < s[j]
      BY ListShape
<1>2. \A i, j \in 1 .. Len(s) : s[i] = s[j] => i = j
  <2> SUFFICES ASSUME NEW i \in 1 .. Len(s), NEW j \in 1 .. Len(s), i # j
               PROVE  s[i] # s[j]
      OBVIOUS
  <2>1. s[i] < s[j] \/ s[j] < s[i]
        BY <1>1
  <2>2. s[i] \in Nat /\ s[j] \in Nat
        BY <1>1
  <2> QED BY <2>1, <2>2
<1> DEFINE f == [i \in 1 .. Len(s) |-> s[i]]
<1>3. f \in [1 .. Len(s) -> ToSet(s)] /\ \A t \in ToSet(s) : \E i \in 1 .. Len(s) : f[i] = t
      BY <1>1 DEF ToSet
<1>4. \A i, j \in 1 .. Len(s) : f[i] = f[j] => i = j
      BY <1>2
<1> HIDE DEF f
<1>5. f \in Bijection(1 .. Len(s), ToSet(s))
      BY <1>3, <1>4 DEF Bijection, Injection, Surjection, IsInjective
<1>6. IsFiniteSet(1 .. Len(s)) /\ Cardinality(1 .. Len(s)) = Len(s)
      BY <1>1, IntervalSize
<1>7. ExistsBijection(1 .. Len(s), ToSet(s))
      BY <1>5 DEF ExistsBijection
<1> QED BY <1>6, <1>7, FS_Bijection

(* _find_unique_hash ends, at the first free position                       *)
(* (consistent_hash.py:102-106).                                            *)
LEMMA FreeIsFound ==
  ASSUME NEW map, IsFiniteSet(DOMAIN map), NEW h \in Nat
  PROVE  /\ FindUniqueHash(map, h) \in Nat /\ FindUniqueHash(map, h) > h
         /\ FindUniqueHash(map, h) \notin DOMAIN map
         /\ \A p \in Nat : h < p /\ p < FindUniqueHash(map, h) => p \in DOMAIN map
<1> DEFINE n == Cardinality(DOMAIN map)
           free == {d \in 1 .. n + 1 : h + d \notin DOMAIN map}
<1>1. n \in Nat
      BY FS_CardinalityType
<1>2. free # {}
  <2> SUFFICES ASSUME free = {} PROVE FALSE
      OBVIOUS
  <2> DEFINE f == [d \in 1 .. n + 1 |-> h + d]
  <2>1. f \in [1 .. n + 1 -> DOMAIN map]
        OBVIOUS
  <2>2. \A i, j \in 1 .. n + 1 : f[i] = f[j] => i = j
        BY <1>1
  <2> HIDE DEF f
  <2>3. f \in Injection(1 .. n + 1, DOMAIN map)
        BY <2>1, <2>2 DEF Injection, IsInjective
  <2>4. Cardinality(1 .. n + 1) <= n
        BY <2>3, FS_Injection
  <2>5. Cardinality(1 .. n + 1) = n + 1
        BY <1>1, IntervalSize
  <2> HIDE DEF n
  <2> QED BY <1>1, <2>4, <2>5
<1> HIDE DEF n
<1>3. PICK d \in free : \A e \in free : d <= e
  <2>1. free \in SUBSET Nat
        BY <1>1
  <2> HIDE DEF free
  <2> QED BY <1>2, <2>1, LeastExists
<1>4. d \in 1 .. n + 1 /\ h + d \notin DOMAIN map /\ \A e \in 1 .. d - 1 : h + e \in DOMAIN map
      BY <1>1, <1>3
<1> DEFINE c == CHOOSE x \in 1 .. n + 1 : /\ h + x \notin DOMAIN map
                                          /\ \A e \in 1 .. x - 1 : h + e \in DOMAIN map
<1>5. c \in 1 .. n + 1 /\ h + c \notin DOMAIN map /\ \A e \in 1 .. c - 1 : h + e \in DOMAIN map
      BY <1>4
<1>6. FindUniqueHash(map, h) = h + c
      BY DEF FindUniqueHash, n
<1> HIDE DEF c
<1>7. c \in Nat /\ c >= 1
      BY <1>1, <1>5
<1>8. ASSUME NEW p \in Nat, h < p, p < h + c
      PROVE  p \in DOMAIN map
  <2>1. p - h \in 1 .. c - 1 /\ h + (p - h) = p
        BY <1>7, <1>8
  <2> QED BY <1>5, <2>1
<1> QED BY <1>5, <1>6, <1>7, <1>8

-----------------------------------------------------------------------------
(* The loops of add_node and remove_node.                                   *)

(* What the round for hash h of add_node does, with the position it takes.  *)
LEMMA RoundResult ==
  ASSUME NEW r, IsFiniteSet(DOMAIN r.map), NEW h \in Nat, NEW n
  PROVE  \E pos \in Nat :
           /\ pos \notin DOMAIN r.map
           /\ InsertVnode(r, h, n).keys = Insort(r.keys, pos)
           /\ InsertVnode(r, h, n).map = With(r.map, pos, n)
           /\ InsertVnode(r, h, n).vnodes = Append(r.vnodes, pos)
           /\ InsertVnode(r, h, n).sources
                = r.sources \o MigrationForInsert(Insort(r.keys, pos), With(r.map, pos, n), pos, n)
<1> DEFINE pos == IF h \in DOMAIN r.map THEN FindUniqueHash(r.map, h) ELSE h
<1>1. pos \in Nat /\ pos \notin DOMAIN r.map
      BY FreeIsFound
<1>2. /\ InsertVnode(r, h, n).keys = Insort(r.keys, pos)
      /\ InsertVnode(r, h, n).map = With(r.map, pos, n)
      /\ InsertVnode(r, h, n).vnodes = Append(r.vnodes, pos)
      /\ InsertVnode(r, h, n).sources
           = r.sources \o MigrationForInsert(Insort(r.keys, pos), With(r.map, pos, n), pos, n)
      BY DEF InsertVnode
<1> HIDE DEF pos
<1> QED BY <1>1, <1>2

(* What appending does to a list and to the set of its elements.            *)
LEMMA AppendedSet ==
  ASSUME NEW s \in Seq(Nat), NEW x \in Nat
  PROVE  /\ Append(s, x) \in Seq(Nat)
         /\ Len(Append(s, x)) = Len(s) + 1
         /\ ToSet(Append(s, x)) = ToSet(s) \union {x}
         /\ Append(s, x)[Len(s) + 1] = x
         /\ \A i \in 1 .. Len(s) : Append(s, x)[i] = s[i]
<1>1. /\ Append(s, x) \in Seq(Nat) /\ Len(Append(s, x)) = Len(s) + 1
      /\ Append(s, x)[Len(s) + 1] = x
      /\ \A i \in 1 .. Len(s) : Append(s, x)[i] = s[i]
      BY AppendProperties
<1>2. Len(s) \in Nat /\ DOMAIN s = 1 .. Len(s) /\ DOMAIN Append(s, x) = 1 .. Len(s) + 1
      BY <1>1, LenProperties
<1> DEFINE r == Append(s, x)
<1> HIDE DEF r
<1>3. \A i \in DOMAIN r : r[i] \in ToSet(s) \union {x}
  <2> SUFFICES ASSUME NEW i \in DOMAIN r PROVE r[i] \in ToSet(s) \union {x}
      OBVIOUS
  <2>1. i = Len(s) + 1 \/ i \in 1 .. Len(s)
        BY <1>2 DEF r
  <2> QED BY <1>1, <1>2, <2>1 DEF r, ToSet
<1>4. \A i \in DOMAIN s : i \in DOMAIN r /\ r[i] = s[i]
      BY <1>1, <1>2 DEF r
<1>5. Len(s) + 1 \in DOMAIN r /\ r[Len(s) + 1] = x
      BY <1>1, <1>2 DEF r
<1>6. ToSet(r) = ToSet(s) \union {x}
      BY <1>3, <1>4, <1>5 DEF ToSet
<1> QED BY <1>1, <1>6 DEF r

(* After i rounds for n: the ring has i new positions, all of n, beside     *)
(* those it had, which have their owners still.                             *)
Grown(r, i, n) ==
  /\ r.keys \in Lists
  /\ ToSet(r.keys) = DOMAIN r.map
  /\ r.vnodes \in Seq(Nat) /\ Len(r.vnodes) = i
  /\ IsFiniteSet(ToSet(r.vnodes)) /\ Cardinality(ToSet(r.vnodes)) = i
  /\ \A p \in ToSet(r.vnodes) : p \notin DOMAIN ring_map
  /\ DOMAIN r.map = DOMAIN ring_map \union ToSet(r.vnodes)
  /\ \A p \in DOMAIN ring_map : r.map[p] = ring_map[p]
  /\ \A p \in ToSet(r.vnodes) : r.map[p] = n

(* Each round of add_node adds one position of n (consistent_hash.py:80-98).*)
LEMMA RoundGrows ==
  ASSUME NEW r, NEW i \in Nat, NEW n, NEW h \in Nat, Grown(r, i, n)
  PROVE  Grown(InsertVnode(r, h, n), i + 1, n)
<1> DEFINE q == InsertVnode(r, h, n)
<1> HIDE DEF q
<1>1. /\ r.keys \in Lists /\ ToSet(r.keys) = DOMAIN r.map
      /\ r.vnodes \in Seq(Nat) /\ Len(r.vnodes) = i
      /\ IsFiniteSet(ToSet(r.vnodes)) /\ Cardinality(ToSet(r.vnodes)) = i
      /\ DOMAIN r.map = DOMAIN ring_map \union ToSet(r.vnodes)
      BY DEF Grown
<1>2. /\ \A p \in ToSet(r.vnodes) : p \notin DOMAIN ring_map
      /\ \A p \in DOMAIN ring_map : r.map[p] = ring_map[p]
      /\ \A p \in ToSet(r.vnodes) : r.map[p] = n
      BY DEF Grown
<1>3. IsFiniteSet(DOMAIN r.map)
      BY <1>1, FinitePositions
<1>4. PICK pos \in Nat : /\ pos \notin DOMAIN r.map
                         /\ q.keys = Insort(r.keys, pos)
                         /\ q.map = With(r.map, pos, n)
                         /\ q.vnodes = Append(r.vnodes, pos)
  <2>1. PICK pos \in Nat :
          /\ pos \notin DOMAIN r.map
          /\ InsertVnode(r, h, n).keys = Insort(r.keys, pos)
          /\ InsertVnode(r, h, n).map = With(r.map, pos, n)
          /\ InsertVnode(r, h, n).vnodes = Append(r.vnodes, pos)
          /\ InsertVnode(r, h, n).sources
               = r.sources \o MigrationForInsert(Insort(r.keys, pos), With(r.map, pos, n), pos, n)
        BY <1>3, RoundResult
  <2> QED BY <2>1 DEF q
<1>5. /\ q.keys \in Lists /\ ToSet(q.keys) = DOMAIN r.map \union {pos}
      BY <1>1, <1>4, InsortKeeps
<1>6. /\ q.vnodes \in Seq(Nat) /\ Len(q.vnodes) = i + 1
      /\ ToSet(q.vnodes) = ToSet(r.vnodes) \union {pos}
      BY <1>1, <1>4, AppendedSet
<1>7. /\ DOMAIN q.map = DOMAIN r.map \union {pos}
      /\ q.map[pos] = n
      /\ \A p \in DOMAIN r.map : q.map[p] = r.map[p]
      BY <1>4 DEF With
<1>8. pos \notin ToSet(r.vnodes) /\ pos \notin DOMAIN ring_map
      BY <1>1, <1>4
<1>9. IsFiniteSet(ToSet(q.vnodes)) /\ Cardinality(ToSet(q.vnodes)) = i + 1
  <2> DEFINE V == ToSet(r.vnodes)
  <2>1. IsFiniteSet(V) /\ Cardinality(V) = i /\ pos \notin V
        BY <1>1, <1>8
  <2> HIDE DEF V
  <2>2. IsFiniteSet(V \union {pos}) /\ Cardinality(V \union {pos}) = i + 1
        BY <2>1, FS_AddElement
  <2> QED BY <1>6, <2>2 DEF V
<1>10. DOMAIN q.map = DOMAIN ring_map \union ToSet(q.vnodes)
       BY <1>1, <1>6, <1>7
<1>11. \A p \in ToSet(q.vnodes) : p \notin DOMAIN ring_map /\ q.map[p] = n
       BY <1>1, <1>2, <1>6, <1>7, <1>8
<1>12. \A p \in DOMAIN ring_map : q.map[p] = ring_map[p]
       BY <1>1, <1>2, <1>7
<1>13. Grown(q, i + 1, n)
       BY <1>5, <1>6, <1>7, <1>9, <1>10, <1>11, <1>12 DEF Grown
<1> QED BY <1>13 DEF q

(* The rounds of add_node exist, one for each virtual node.                 *)
LEMMA InsertionExists ==
  ASSUME NEW n, NEW K \in Nat
  PROVE  \E f : f = [i \in 0 .. K |->
                       IF i = 0 THEN [keys |-> ring_keys, map |-> ring_map,
                                      vnodes |-> <<>>, sources |-> <<>>]
                                ELSE InsertVnode(f[i-1], hash[n][i], n)]
<1> DEFINE first == [keys |-> ring_keys, map |-> ring_map, vnodes |-> <<>>, sources |-> <<>>]
           Rounds(f, k) == f = [i \in 0 .. k |-> IF i = 0 THEN first
                                                 ELSE InsertVnode(f[i-1], hash[n][i], n)]
           bad == {k \in 0 .. K : ~ \E f : Rounds(f, k)}
<1> HIDE DEF first
<1> SUFFICES ASSUME bad # {} PROVE FALSE
  <2>1. K \in 0 .. K
        OBVIOUS
  <2> QED BY <2>1 DEF first
<1>1. PICK m \in bad : \A k \in bad : m <= k
  <2>1. bad \in SUBSET Nat
        OBVIOUS
  <2> HIDE DEF bad
  <2> QED BY <2>1, LeastExists
<1>2. m \in 0 .. K
      OBVIOUS
<1>3. m # 0
  <2> SUFFICES ASSUME m = 0 PROVE FALSE
      OBVIOUS
  <2> DEFINE g == [i \in 0 .. 0 |-> first]
  <2>1. Rounds(g, 0)
        OBVIOUS
  <2> QED BY <2>1
<1>4. m - 1 \in 0 .. K /\ m - 1 < m
      BY <1>2, <1>3
<1>5. m - 1 \notin bad
  <2> HIDE DEF bad
  <2> QED BY <1>1, <1>2, <1>4
<1>6. PICK f : Rounds(f, m - 1)
      BY <1>4, <1>5
<1> DEFINE g == [i \in 0 .. m |-> IF i = m THEN InsertVnode(f[m-1], hash[n][m], n) ELSE f[i]]
<1>7. ASSUME NEW i \in 0 .. m
      PROVE  g[i] = IF i = 0 THEN first ELSE InsertVnode(g[i-1], hash[n][i], n)
  <2>1. CASE i = m
    <3>1. m - 1 \in 0 .. m /\ m - 1 # m
          BY <1>2, <1>3
    <3>2. g[m-1] = f[m-1]
          BY <3>1
    <3> QED BY <1>2, <1>3, <2>1, <3>2
  <2>2. CASE i # m
    <3>1. i \in 0 .. m - 1
          BY <1>2, <2>2
    <3>2. f[i] = IF i = 0 THEN first ELSE InsertVnode(f[i-1], hash[n][i], n)
          BY <1>6, <3>1
    <3>3. g[i] = f[i]
          BY <2>2
    <3>4. i # 0 => g[i-1] = f[i-1]
      <4>1. i # 0 => i - 1 \in 0 .. m /\ i - 1 # m
            BY <1>2, <2>2
      <4> QED BY <4>1
    <3> HIDE DEF g
    <3> QED BY <3>2, <3>3, <3>4
  <2> QED BY <2>1, <2>2
<1>8. Rounds(g, m)
  <2>1. g = [i \in 0 .. m |-> g[i]]
        OBVIOUS
  <2>2. [i \in 0 .. m |-> g[i]]
          = [i \in 0 .. m |-> IF i = 0 THEN first ELSE InsertVnode(g[i-1], hash[n][i], n)]
        BY <1>7
  <2> HIDE DEF g
  <2> QED BY <2>1, <2>2
<1> QED BY <1>1, <1>8

(* So the loop of add_node starts from the ring, and each round follows from*)
(* the one before.                                                          *)
LEMMA InsertionRounds ==
  ASSUME NEW n, NEW w \in Nat
  PROVE  /\ VnodesPerWeight * w \in Nat
         /\ Insertion(n, w)[0] = [keys |-> ring_keys, map |-> ring_map,
                                  vnodes |-> <<>>, sources |-> <<>>]
         /\ \A i \in 1 .. VnodesPerWeight * w :
              Insertion(n, w)[i] = InsertVnode(Insertion(n, w)[i-1], hash[n][i], n)
<1> DEFINE K == VnodesPerWeight * w
           first == [keys |-> ring_keys, map |-> ring_map, vnodes |-> <<>>, sources |-> <<>>]
<1>1. K \in Nat
      BY RingAssumption
<1> HIDE DEF K
<1>2. PICK f : f = [i \in 0 .. K |-> IF i = 0 THEN first ELSE InsertVnode(f[i-1], hash[n][i], n)]
      BY <1>1, InsertionExists
<1>3. Insertion(n, w)
        = [i \in 0 .. K |-> IF i = 0 THEN first
                            ELSE InsertVnode(Insertion(n, w)[i-1], hash[n][i], n)]
      BY <1>2 DEF Insertion, K
<1>4. 0 \in 0 .. K /\ \A i \in 1 .. K : i \in 0 .. K /\ i # 0
      BY <1>1
<1> DEFINE F == Insertion(n, w)
<1> HIDE DEF F
<1>5. F = [i \in 0 .. K |-> IF i = 0 THEN first ELSE InsertVnode(F[i-1], hash[n][i], n)]
      BY <1>3 DEF F
<1> HIDE DEF first
<1>6. F[0] = first
      BY <1>4, <1>5
<1>7. \A i \in 1 .. K : F[i] = InsertVnode(F[i-1], hash[n][i], n)
      BY <1>4, <1>5
<1> QED BY <1>1, <1>6, <1>7 DEF F, K, first

(* Every hash that a round of add_node uses is a number.                    *)
LEMMA HashesUsed ==
  ASSUME NEW n \in Node, NEW w \in Weights[n], TypeOK
  PROVE  /\ w \in Nat
         /\ \A i \in 1 .. VnodesPerWeight * w : hash[n][i] \in Nat
<1>1. w \in Nat /\ w <= MaxWeight /\ VnodesPerWeight \in Nat /\ MaxWeight \in Nat
      BY RingAssumption
<1>2. VnodesPerWeight * w <= VnodesPerWeight * MaxWeight
  <2>1. \A x, y, z \in Nat : y <= z => x * y <= x * z
        OBVIOUS
  <2> QED BY <1>1, <2>1
<1>3. /\ VnodesPerWeight * w \in Nat /\ VnodesPerWeight * MaxWeight \in Nat
      BY <1>1
<1>4. \A i \in 1 .. VnodesPerWeight * w : i \in 1 .. MaxVnodes
  <2> DEFINE k == VnodesPerWeight * w
             K == VnodesPerWeight * MaxWeight
  <2>1. k \in Nat /\ K \in Nat /\ k <= K
        BY <1>2, <1>3
  <2> HIDE DEF k, K
  <2>2. \A i \in 1 .. k : i \in 1 .. K
        BY <2>1
  <2> QED BY <2>2 DEF k, K, MaxVnodes
<1>5. \A i \in 1 .. MaxVnodes : hash[n][i] \in HashValue
      BY DEF TypeOK
<1>6. \A x \in HashValue : x \in Nat
      BY RingAssumption DEF HashValue
<1> QED BY <1>1, <1>4, <1>5, <1>6

(* After each round of add_node the ring has grown as it should: otherwise  *)
(* look at the first round after which it has not.                          *)
LEMMA RoundsGrow ==
  ASSUME NEW n \in Node, NEW w \in Weights[n], TypeOK,
         ring_keys \in Lists, ToSet(ring_keys) = DOMAIN ring_map
  PROVE  \A i \in 0 .. VnodesPerWeight * w : Grown(Insertion(n, w)[i], i, n)
<1> DEFINE K == VnodesPerWeight * w
           F == Insertion(n, w)
           bad == {i \in 0 .. K : ~ Grown(F[i], i, n)}
<1>1. w \in Nat /\ \A i \in 1 .. K : hash[n][i] \in Nat
      BY HashesUsed
<1>2. /\ K \in Nat
      /\ F[0] = [keys |-> ring_keys, map |-> ring_map, vnodes |-> <<>>, sources |-> <<>>]
      /\ \A i \in 1 .. K : F[i] = InsertVnode(F[i-1], hash[n][i], n)
      BY <1>1, InsertionRounds
<1> HIDE DEF K, F
<1>3. Grown(F[0], 0, n)
  <2>1. /\ F[0].keys = ring_keys /\ F[0].map = ring_map /\ F[0].vnodes = <<>>
        BY <1>2
  <2>2. <<>> \in Seq(Nat) /\ Len(<<>>) = 0 /\ ToSet(<<>>) = {}
        BY DEF ToSet
  <2>3. IsFiniteSet({}) /\ Cardinality({}) = 0
        BY FS_EmptySet
  <2> QED BY <2>1, <2>2, <2>3 DEF Grown
<1>4. bad = {}
  <2> SUFFICES ASSUME bad # {} PROVE FALSE
      OBVIOUS
  <2>1. bad \in SUBSET Nat
        BY <1>2
  <2>2. \A i \in bad : i \in 0 .. K /\ ~ Grown(F[i], i, n)
        OBVIOUS
  <2>3. \A i \in 0 .. K : i \notin bad => Grown(F[i], i, n)
        OBVIOUS
  <2> HIDE DEF bad
  <2>4. PICK m \in bad : \A k \in bad : m <= k
        BY <2>1, LeastExists
  <2>5. m \in 0 .. K /\ m # 0 /\ ~ Grown(F[m], m, n)
        BY <1>3, <2>2, <2>4
  <2>6. m - 1 \in 0 .. K /\ m - 1 \in Nat /\ m \in 1 .. K /\ m - 1 < m /\ (m - 1) + 1 = m
        BY <1>2, <2>5
  <2>7. m - 1 \notin bad
        BY <2>4, <2>5, <2>6
  <2>8. Grown(F[m-1], m - 1, n)
        BY <2>3, <2>6, <2>7
  <2>9. Grown(InsertVnode(F[m-1], hash[n][m], n), m, n)
    <3>1. hash[n][m] \in Nat
          BY <1>1, <2>6
    <3>2. Grown(InsertVnode(F[m-1], hash[n][m], n), (m - 1) + 1, n)
          BY <2>6, <2>8, <3>1, RoundGrows
    <3> QED BY <2>6, <3>2
  <2> QED BY <1>2, <2>5, <2>6, <2>9
<1> QED BY <1>4 DEF F, K

(* After i rounds of remove_node the first i positions of n are gone, and   *)
(* the others have their owners still.                                      *)
Shrunk(r, i, n) ==
  /\ r.keys \in Lists
  /\ ToSet(r.keys) = DOMAIN r.map
  /\ DOMAIN r.map = DOMAIN ring_map \ {node_vnodes[n][j] : j \in 1 .. i}
  /\ \A p \in DOMAIN r.map : r.map[p] = ring_map[p]

(* One round of remove_node takes the position it is for from the list and  *)
(* from the map (consistent_hash.py:150-159).                               *)
LEMMA PopRemoves ==
  ASSUME NEW r, r.keys \in Lists, ToSet(r.keys) = DOMAIN r.map, NEW x \in Nat
  PROVE  /\ Pop(r, x).keys \in Lists
         /\ ToSet(Pop(r, x).keys) = DOMAIN r.map \ {x}
         /\ DOMAIN Pop(r, x).map = DOMAIN r.map \ {x}
         /\ \A p \in DOMAIN r.map \ {x} : Pop(r, x).map[p] = r.map[p]
<1> DEFINE s == r.keys
           l == BisectLeft(s, x)
<1>1. /\ Len(s) \in Nat /\ DOMAIN s = 1 .. Len(s)
      /\ \A i \in 1 .. Len(s) : s[i] \in Nat
      /\ \A i, j \in 1 .. Len(s) : i < j => s[i] < s[j]
      BY ListShape
<1>2. l \in Nat /\ l <= Len(s) /\ \A i \in 1 .. Len(s) : s[i] < x <=> i <= l
      BY BisectLeftSplits
<1>3. CASE l + 1 <= Len(s) /\ s[l + 1] = x
  <2>1. Pop(r, x) = [keys |-> RemoveAt(s, l + 1), map |-> Restrict(r.map, DOMAIN r.map \ {x})]
        BY <1>3 DEF Pop
  <2>2. l + 1 \in 1 .. Len(s)
        BY <1>1, <1>2, <1>3
  <2> HIDE DEF l
  <2>3. RemoveAt(s, l + 1) \in Lists /\ ToSet(RemoveAt(s, l + 1)) = ToSet(s) \ {x}
        BY <1>3, <2>2, RemoveKeeps
  <2> QED BY <2>1, <2>3 DEF Restrict
<1>4. CASE ~(l + 1 <= Len(s) /\ s[l + 1] = x)
  <2>1. Pop(r, x) = r
        BY <1>4 DEF Pop
  <2>2. x \notin ToSet(s)
    <3> SUFFICES ASSUME NEW i \in DOMAIN s, s[i] = x PROVE FALSE
        BY DEF ToSet
    <3> HIDE DEF l, s
    <3>1. i \in 1 .. Len(s) /\ ~(i <= l)
          BY <1>1, <1>2
    <3>2. l + 1 \in 1 .. Len(s) /\ ~(s[l + 1] < x) /\ s[l + 1] \in Nat
          BY <1>1, <1>2, <3>1
    <3>3. i # l + 1
          BY <1>4, <3>2
    <3>4. l + 1 < i
          BY <1>2, <3>1, <3>3
    <3>5. s[l + 1] < s[i]
          BY <1>1, <3>1, <3>2, <3>4
    <3> QED BY <3>2, <3>5
  <2> QED BY <2>1, <2>2
<1> QED BY <1>3, <1>4

(* The rounds of remove_node exist, one for each position of n.             *)
LEMMA PoppingExists ==
  ASSUME NEW n, NEW K \in Nat
  PROVE  \E f : f = [i \in 0 .. K |->
                       IF i = 0 THEN [keys |-> ring_keys, map |-> ring_map]
                                ELSE Pop(f[i-1], node_vnodes[n][i])]
<1> DEFINE first == [keys |-> ring_keys, map |-> ring_map]
           Rounds(f, k) == f = [i \in 0 .. k |-> IF i = 0 THEN first
                                                 ELSE Pop(f[i-1], node_vnodes[n][i])]
           bad == {k \in 0 .. K : ~ \E f : Rounds(f, k)}
<1> HIDE DEF first
<1> SUFFICES ASSUME bad # {} PROVE FALSE
  <2>1. K \in 0 .. K
        OBVIOUS
  <2> QED BY <2>1 DEF first
<1>1. PICK m \in bad : \A k \in bad : m <= k
  <2>1. bad \in SUBSET Nat
        OBVIOUS
  <2> HIDE DEF bad
  <2> QED BY <2>1, LeastExists
<1>2. m \in 0 .. K
      OBVIOUS
<1>3. m # 0
  <2> SUFFICES ASSUME m = 0 PROVE FALSE
      OBVIOUS
  <2> DEFINE g == [i \in 0 .. 0 |-> first]
  <2>1. Rounds(g, 0)
        OBVIOUS
  <2> QED BY <2>1
<1>4. m - 1 \in 0 .. K /\ m - 1 < m
      BY <1>2, <1>3
<1>5. m - 1 \notin bad
  <2> HIDE DEF bad
  <2> QED BY <1>1, <1>2, <1>4
<1>6. PICK f : Rounds(f, m - 1)
      BY <1>4, <1>5
<1> DEFINE g == [i \in 0 .. m |-> IF i = m THEN Pop(f[m-1], node_vnodes[n][m]) ELSE f[i]]
<1>7. ASSUME NEW i \in 0 .. m
      PROVE  g[i] = IF i = 0 THEN first ELSE Pop(g[i-1], node_vnodes[n][i])
  <2>1. CASE i = m
    <3>1. m - 1 \in 0 .. m /\ m - 1 # m
          BY <1>2, <1>3
    <3>2. g[m-1] = f[m-1]
          BY <3>1
    <3> QED BY <1>2, <1>3, <2>1, <3>2
  <2>2. CASE i # m
    <3>1. i \in 0 .. m - 1
          BY <1>2, <2>2
    <3>2. f[i] = IF i = 0 THEN first ELSE Pop(f[i-1], node_vnodes[n][i])
          BY <1>6, <3>1
    <3>3. g[i] = f[i]
          BY <2>2
    <3>4. i # 0 => g[i-1] = f[i-1]
      <4>1. i # 0 => i - 1 \in 0 .. m /\ i - 1 # m
            BY <1>2, <2>2
      <4> QED BY <4>1
    <3> HIDE DEF g
    <3> QED BY <3>2, <3>3, <3>4
  <2> QED BY <2>1, <2>2
<1>8. Rounds(g, m)
  <2>1. g = [i \in 0 .. m |-> g[i]]
        OBVIOUS
  <2>2. [i \in 0 .. m |-> g[i]]
          = [i \in 0 .. m |-> IF i = 0 THEN first ELSE Pop(g[i-1], node_vnodes[n][i])]
        BY <1>7
  <2> HIDE DEF g
  <2> QED BY <2>1, <2>2
<1> QED BY <1>1, <1>8

(* So the loop of remove_node starts from the ring, and each round follows  *)
(* from the one before.                                                     *)
LEMMA PoppingRounds ==
  ASSUME NEW n, Len(node_vnodes[n]) \in Nat
  PROVE  /\ Popping(n)[0] = [keys |-> ring_keys, map |-> ring_map]
         /\ \A i \in 1 .. Len(node_vnodes[n]) :
              Popping(n)[i] = Pop(Popping(n)[i-1], node_vnodes[n][i])
<1> DEFINE K == Len(node_vnodes[n])
           first == [keys |-> ring_keys, map |-> ring_map]
<1>1. K \in Nat
      OBVIOUS
<1> HIDE DEF K
<1>2. PICK f : f = [i \in 0 .. K |-> IF i = 0 THEN first ELSE Pop(f[i-1], node_vnodes[n][i])]
      BY <1>1, PoppingExists
<1>3. Popping(n)
        = [i \in 0 .. K |-> IF i = 0 THEN first ELSE Pop(Popping(n)[i-1], node_vnodes[n][i])]
      BY <1>2 DEF Popping, K
<1>4. 0 \in 0 .. K /\ \A i \in 1 .. K : i \in 0 .. K /\ i # 0
      BY <1>1
<1> DEFINE F == Popping(n)
<1> HIDE DEF F
<1>5. F = [i \in 0 .. K |-> IF i = 0 THEN first ELSE Pop(F[i-1], node_vnodes[n][i])]
      BY <1>3 DEF F
<1> HIDE DEF first
<1>6. F[0] = first
      BY <1>4, <1>5
<1>7. \A i \in 1 .. K : F[i] = Pop(F[i-1], node_vnodes[n][i])
      BY <1>4, <1>5
<1> QED BY <1>6, <1>7 DEF F, K, first

(* After each round of remove_node the positions so far are gone: otherwise *)
(* look at the first round after which they are not.                        *)
LEMMA RoundsShrink ==
  ASSUME NEW n, node_vnodes[n] \in Seq(Nat),
         ring_keys \in Lists, ToSet(ring_keys) = DOMAIN ring_map
  PROVE  \A i \in 0 .. Len(node_vnodes[n]) : Shrunk(Popping(n)[i], i, n)
<1> DEFINE v == node_vnodes[n]
           K == Len(v)
           F == Popping(n)
           bad == {i \in 0 .. K : ~ Shrunk(F[i], i, n)}
<1>1. K \in Nat /\ \A i \in 1 .. K : v[i] \in Nat
  <2> HIDE DEF v
  <2>1. v \in Seq(Nat)
        BY DEF v
  <2> QED BY <2>1, LenProperties, ElementOfSeq
<1>2. /\ F[0] = [keys |-> ring_keys, map |-> ring_map]
      /\ \A i \in 1 .. K : F[i] = Pop(F[i-1], v[i])
      BY <1>1, PoppingRounds
<1>3. \A r, i : Shrunk(r, i, n) <=>
        /\ r.keys \in Lists
        /\ ToSet(r.keys) = DOMAIN r.map
        /\ DOMAIN r.map = DOMAIN ring_map \ {v[j] : j \in 1 .. i}
        /\ \A p \in DOMAIN r.map : r.map[p] = ring_map[p]
      BY DEF Shrunk
<1> HIDE DEF K, F, v
<1>4. Shrunk(F[0], 0, n)
  <2>1. F[0].keys = ring_keys /\ F[0].map = ring_map
        BY <1>2
  <2>2. {v[j] : j \in 1 .. 0} = {}
        OBVIOUS
  <2> QED BY <1>3, <2>1, <2>2
<1>5. bad = {}
  <2> SUFFICES ASSUME bad # {} PROVE FALSE
      OBVIOUS
  <2>1. bad \in SUBSET Nat
        BY <1>1
  <2>2. \A i \in bad : i \in 0 .. K /\ ~ Shrunk(F[i], i, n)
        OBVIOUS
  <2>3. \A i \in 0 .. K : i \notin bad => Shrunk(F[i], i, n)
        OBVIOUS
  <2> HIDE DEF bad
  <2>4. PICK m \in bad : \A k \in bad : m <= k
        BY <2>1, LeastExists
  <2>5. m \in 0 .. K /\ m # 0 /\ ~ Shrunk(F[m], m, n)
        BY <1>4, <2>2, <2>4
  <2>6. m - 1 \in 0 .. K /\ m - 1 \in Nat /\ m \in 1 .. K /\ m - 1 < m /\ (m - 1) + 1 = m
        BY <1>1, <2>5
  <2>7. m - 1 \notin bad
        BY <2>4, <2>5, <2>6
  <2>8. Shrunk(F[m-1], m - 1, n)
        BY <2>3, <2>6, <2>7
  <2> DEFINE q == Pop(F[m-1], v[m])
  <2>9. /\ q.keys \in Lists
        /\ ToSet(q.keys) = DOMAIN F[m-1].map \ {v[m]}
        /\ DOMAIN q.map = DOMAIN F[m-1].map \ {v[m]}
        /\ \A p \in DOMAIN F[m-1].map \ {v[m]} : q.map[p] = F[m-1].map[p]
    <3>1. F[m-1].keys \in Lists /\ ToSet(F[m-1].keys) = DOMAIN F[m-1].map /\ v[m] \in Nat
          BY <1>1, <1>3, <2>6, <2>8
    <3> QED BY <3>1, PopRemoves
  <2> HIDE DEF q
  <2>10. {v[j] : j \in 1 .. m} = {v[j] : j \in 1 .. m - 1} \union {v[m]}
    <3>1. \A j \in 1 .. m : j \in 1 .. m - 1 \/ j = m
          BY <2>5
    <3>2. \A j \in 1 .. m - 1 : j \in 1 .. m
          BY <2>5
    <3>3. m \in 1 .. m
          BY <2>6
    <3> QED BY <3>1, <3>2, <3>3
  <2>11. Shrunk(q, m, n)
         BY <1>3, <2>8, <2>9, <2>10
  <2> QED BY <1>2, <2>5, <2>6, <2>11 DEF q
<1> QED BY <1>5 DEF F, K, v

-----------------------------------------------------------------------------
(* The inductive invariant: the lists and maps agree, and what a node holds *)
(* is a list of positions.                                                  *)
RingInv ==
  /\ RingConsistent
  /\ \A n \in DOMAIN node_vnodes : node_vnodes[n] \in Seq(Nat)

(* What the proofs use of the invariant.                                    *)
LEMMA RingParts ==
  ASSUME RingInv
  PROVE  /\ TypeOK
         /\ ring_keys \in Lists /\ ToSet(ring_keys) = DOMAIN ring_map
         /\ \A n \in DOMAIN node_vnodes : node_vnodes[n] \in Seq(Nat)
         /\ DOMAIN node_vnodes = {n \in DOMAIN nodes : nodes[n] # BadWeight}
         /\ \A p \in DOMAIN ring_map : ring_map[p] \in DOMAIN node_vnodes
BY DEF RingInv, RingConsistent, TypeOK, Lists, Sorted, Members

(* The empty ring is consistent.                                            *)
LEMMA RingInit == Init => RingInv
<1> SUFFICES ASSUME Init PROVE RingInv
    OBVIOUS
<1>1. /\ ring_keys = <<>> /\ ring_map = <<>> /\ nodes = <<>> /\ node_vnodes = <<>>
      BY DEF Init
<1>2. DOMAIN <<>> = {} /\ <<>> \in Seq(Nat)
      OBVIOUS
<1>3. TypeOK
      BY <1>1, <1>2 DEF TypeOK, Members, Init
<1>4. ToSet(<<>>) = {}
      BY <1>2 DEF ToSet
<1> QED BY <1>1, <1>2, <1>3, <1>4 DEF RingInv, RingConsistent, Members

(* add_node (consistent_hash.py:71-100).                                    *)
LEMMA AddKeepsRing ==
  ASSUME RingInv, NEW n \in Node, NEW w \in Weights[n], AddNode(n, w)
  PROVE  RingInv'
<1> DEFINE K == VnodesPerWeight * w
<1>1. /\ TypeOK
      /\ ring_keys \in Lists /\ ToSet(ring_keys) = DOMAIN ring_map
      /\ \A m \in DOMAIN node_vnodes : node_vnodes[m] \in Seq(Nat)
      /\ DOMAIN node_vnodes = {m \in DOMAIN nodes : nodes[m] # BadWeight}
      /\ \A p \in DOMAIN ring_map : ring_map[p] \in DOMAIN node_vnodes
      BY RingParts
<1>2. w \in Nat /\ K \in Nat /\ w # BadWeight
  <2>1. w \in Nat
        BY <1>1, HashesUsed
  <2> QED BY <2>1, InsertionRounds, RingAssumption
<1>3. PICK r : r = Inserted(n, w) /\ Grown(r, K, n)
  <2>1. K \in 0 .. K
        BY <1>2
  <2>2. Grown(Insertion(n, w)[K], K, n)
        BY <1>1, <2>1, RoundsGrow
  <2> QED BY <2>2 DEF Inserted
<1>4. /\ n \notin DOMAIN nodes
      /\ ring_keys' = r.keys
      /\ ring_map' = r.map
      /\ node_vnodes' = With(node_vnodes, n, r.vnodes)
      /\ nodes' = With(nodes, n, w)
      /\ hash' = hash
      BY <1>3 DEF AddNode
<1> HIDE DEF K
<1>5. /\ r.keys \in Lists /\ ToSet(r.keys) = DOMAIN r.map
      /\ r.vnodes \in Seq(Nat) /\ Len(r.vnodes) = K
      /\ Cardinality(ToSet(r.vnodes)) = K
      /\ DOMAIN r.map = DOMAIN ring_map \union ToSet(r.vnodes)
      BY <1>3 DEF Grown
<1>6. /\ \A p \in ToSet(r.vnodes) : p \notin DOMAIN ring_map /\ r.map[p] = n
      /\ \A p \in DOMAIN ring_map : r.map[p] = ring_map[p]
      BY <1>3 DEF Grown
<1>7. /\ DOMAIN nodes' = DOMAIN nodes \union {n} /\ nodes'[n] = w
      /\ \A m \in DOMAIN nodes : nodes'[m] = nodes[m]
      BY <1>4 DEF With
<1>8. /\ DOMAIN node_vnodes' = DOMAIN node_vnodes \union {n} /\ node_vnodes'[n] = r.vnodes
      /\ \A m \in DOMAIN node_vnodes : node_vnodes'[m] = node_vnodes[m]
      BY <1>1, <1>4 DEF With
<1>9. r.keys \in Seq(Nat) /\ Sorted(r.keys)
      BY <1>5 DEF Lists
<1>10. DOMAIN node_vnodes' = {m \in DOMAIN nodes' : nodes'[m] # BadWeight}
       BY <1>1, <1>2, <1>4, <1>7, <1>8
<1>11. PositionsOf(r.map, n) = ToSet(r.vnodes)
       BY <1>1, <1>4, <1>5, <1>6 DEF PositionsOf
<1>12. \A m \in DOMAIN node_vnodes : PositionsOf(r.map, m) = PositionsOf(ring_map, m)
  <2>1. \A m \in DOMAIN node_vnodes : m # n
        BY <1>1, <1>4
  <2> QED BY <1>5, <1>6, <2>1 DEF PositionsOf
<1>13. \A p \in DOMAIN r.map : r.map[p] \in DOMAIN node_vnodes \union {n}
       BY <1>1, <1>5, <1>6
<1>14. TypeOK'
  <2>1. \A p \in DOMAIN r.map : p \in Nat /\ r.map[p] \in Node
    <3>1. \A p \in DOMAIN ring_map : p \in Nat /\ ring_map[p] \in Node
          BY <1>1 DEF TypeOK, Members
    <3>2. \A p \in ToSet(r.vnodes) : p \in Nat
          BY <1>5, LenProperties, ElementOfSeq DEF ToSet
    <3> QED BY <1>5, <1>6, <3>1, <3>2
  <2>2. \A m \in DOMAIN nodes' : m \in Node /\ nodes'[m] \in Weights[m] \union {BadWeight}
        BY <1>1, <1>7 DEF TypeOK
  <2>3. hash' \in [Node -> [1..MaxVnodes -> HashValue]]
        BY <1>1, <1>4 DEF TypeOK
  <2> QED BY <1>4, <1>9, <2>1, <2>2, <2>3 DEF TypeOK, Members
<1>15. ASSUME NEW m \in DOMAIN node_vnodes'
       PROVE  /\ ToSet(node_vnodes'[m]) = PositionsOf(ring_map', m)
              /\ Len(node_vnodes'[m]) = Cardinality(PositionsOf(ring_map', m))
              /\ Len(node_vnodes'[m]) = VnodesPerWeight * nodes'[m]
              /\ node_vnodes'[m] \in Seq(Nat)
  <2>1. CASE m = n
        BY <1>4, <1>5, <1>7, <1>8, <1>11, <2>1 DEF K
  <2>2. CASE m # n
    <3>1. m \in DOMAIN node_vnodes /\ m \in DOMAIN nodes
          BY <1>1, <1>8, <2>2
    <3>2. /\ ToSet(node_vnodes[m]) = PositionsOf(ring_map, m)
          /\ Len(node_vnodes[m]) = Cardinality(PositionsOf(ring_map, m))
          /\ Len(node_vnodes[m]) = VnodesPerWeight * nodes[m]
          /\ node_vnodes[m] \in Seq(Nat)
          BY <3>1 DEF RingInv, RingConsistent
    <3> QED BY <1>4, <1>7, <1>8, <1>12, <3>1, <3>2
  <2> QED BY <2>1, <2>2
<1>16. RingConsistent'
  <2>1. \A i, j \in DOMAIN ring_keys' : i < j => ring_keys'[i] < ring_keys'[j]
        BY <1>4, <1>9 DEF Sorted
  <2>2. ToSet(ring_keys') = DOMAIN ring_map'
        BY <1>4, <1>5
  <2>3. Members(ring_map') \subseteq DOMAIN node_vnodes'
        BY <1>4, <1>8, <1>13 DEF Members
  <2> QED BY <1>10, <1>14, <1>15, <2>1, <2>2, <2>3 DEF RingConsistent
<1> QED BY <1>15, <1>16 DEF RingInv

(* remove_node (consistent_hash.py:135-163).                                *)
LEMMA RemoveKeepsRing ==
  ASSUME RingInv, NEW n \in Node, RemoveNode(n)
  PROVE  RingInv'
<1>1. /\ TypeOK
      /\ ring_keys \in Lists /\ ToSet(ring_keys) = DOMAIN ring_map
      /\ \A m \in DOMAIN node_vnodes : node_vnodes[m] \in Seq(Nat)
      /\ DOMAIN node_vnodes = {m \in DOMAIN nodes : nodes[m] # BadWeight}
      /\ \A p \in DOMAIN ring_map : ring_map[p] \in DOMAIN node_vnodes
      BY RingParts
<1>2. n \in DOMAIN node_vnodes /\ node_vnodes[n] \in Seq(Nat)
      BY <1>1 DEF RemoveNode
<1> DEFINE K == Len(node_vnodes[n])
<1>3. PICK r : r = Popped(n) /\ Shrunk(r, K, n)
  <2>1. K \in 0 .. K
        BY <1>2, LenProperties
  <2>2. Shrunk(Popping(n)[K], K, n)
        BY <1>1, <1>2, <2>1, RoundsShrink
  <2> QED BY <2>2 DEF Popped
<1>4. /\ ring_keys' = r.keys
      /\ ring_map' = r.map
      /\ nodes' = Restrict(nodes, DOMAIN nodes \ {n})
      /\ node_vnodes' = Restrict(node_vnodes, DOMAIN node_vnodes \ {n})
      /\ hash' = hash
      BY <1>3 DEF RemoveNode
<1>5. {node_vnodes[n][j] : j \in 1 .. K} = PositionsOf(ring_map, n)
  <2>1. DOMAIN node_vnodes[n] = 1 .. K
        BY <1>2, LenProperties
  <2>2. ToSet(node_vnodes[n]) = PositionsOf(ring_map, n)
        BY <1>2 DEF RingInv, RingConsistent
  <2> QED BY <2>1, <2>2 DEF ToSet
<1>6. /\ r.keys \in Lists /\ ToSet(r.keys) = DOMAIN r.map
      /\ DOMAIN r.map = DOMAIN ring_map \ PositionsOf(ring_map, n)
      /\ \A p \in DOMAIN r.map : r.map[p] = ring_map[p]
      BY <1>3, <1>5 DEF Shrunk
<1> HIDE DEF K
<1>7. /\ DOMAIN nodes' = DOMAIN nodes \ {n}
      /\ \A m \in DOMAIN nodes' : nodes'[m] = nodes[m]
      BY <1>4 DEF Restrict
<1>8. /\ DOMAIN node_vnodes' = DOMAIN node_vnodes \ {n}
      /\ \A m \in DOMAIN node_vnodes' : node_vnodes'[m] = node_vnodes[m]
      BY <1>4 DEF Restrict
<1>9. r.keys \in Seq(Nat) /\ Sorted(r.keys)
      BY <1>6 DEF Lists
<1>10. DOMAIN node_vnodes' = {m \in DOMAIN nodes' : nodes'[m] # BadWeight}
       BY <1>1, <1>7, <1>8
<1>11. \A m \in DOMAIN node_vnodes' : PositionsOf(r.map, m) = PositionsOf(ring_map, m)
       BY <1>6, <1>8 DEF PositionsOf
<1>12. \A p \in DOMAIN r.map : r.map[p] \in DOMAIN node_vnodes \ {n}
       BY <1>1, <1>6 DEF PositionsOf
<1>13. TypeOK'
  <2>1. \A p \in DOMAIN r.map : p \in Nat /\ r.map[p] \in Node
        BY <1>1, <1>6 DEF TypeOK, Members
  <2>2. \A m \in DOMAIN nodes' : m \in Node /\ nodes'[m] \in Weights[m] \union {BadWeight}
        BY <1>1, <1>7 DEF TypeOK
  <2>3. hash' \in [Node -> [1..MaxVnodes -> HashValue]]
        BY <1>1, <1>4 DEF TypeOK
  <2> QED BY <1>4, <1>9, <2>1, <2>2, <2>3 DEF TypeOK, Members
<1>14. ASSUME NEW m \in DOMAIN node_vnodes'
       PROVE  /\ ToSet(node_vnodes'[m]) = PositionsOf(ring_map', m)
              /\ Len(node_vnodes'[m]) = Cardinality(PositionsOf(ring_map', m))
              /\ Len(node_vnodes'[m]) = VnodesPerWeight * nodes'[m]
              /\ node_vnodes'[m] \in Seq(Nat)
  <2>1. m \in DOMAIN node_vnodes /\ m \in DOMAIN nodes'
        BY <1>8, <1>10
  <2>2. /\ ToSet(node_vnodes[m]) = PositionsOf(ring_map, m)
        /\ Len(node_vnodes[m]) = Cardinality(PositionsOf(ring_map, m))
        /\ Len(node_vnodes[m]) = VnodesPerWeight * nodes[m]
        /\ node_vnodes[m] \in Seq(Nat)
        BY <2>1 DEF RingInv, RingConsistent
  <2> QED BY <1>4, <1>7, <1>8, <1>11, <2>1, <2>2
<1>15. RingConsistent'
  <2>1. \A i, j \in DOMAIN ring_keys' : i < j => ring_keys'[i] < ring_keys'[j]
        BY <1>4, <1>9 DEF Sorted
  <2>2. ToSet(ring_keys') = DOMAIN ring_map'
        BY <1>4, <1>6
  <2>3. Members(ring_map') \subseteq DOMAIN node_vnodes'
        BY <1>4, <1>8, <1>12 DEF Members
  <2> QED BY <1>10, <1>13, <1>14, <2>1, <2>2, <2>3 DEF RingConsistent
<1> QED BY <1>14, <1>15 DEF RingInv

(* An addition that fails on the weight, and the removal of such a node:    *)
(* only _nodes changes.                                                     *)
LEMMA HalfwayKeepsRing ==
  ASSUME RingInv, NEW n \in Node, AddNodeHalfway(n) \/ RemoveNodeHalfway(n)
  PROVE  RingInv'
<1>1. /\ ring_keys' = ring_keys /\ ring_map' = ring_map /\ node_vnodes' = node_vnodes
      /\ hash' = hash
      BY DEF AddNodeHalfway, RemoveNodeHalfway
<1>2. /\ TypeOK
      /\ DOMAIN node_vnodes = {m \in DOMAIN nodes : nodes[m] # BadWeight}
      BY RingParts
<1>3. /\ \A m \in DOMAIN nodes' : m \in Node /\ nodes'[m] \in Weights[m] \union {BadWeight}
      /\ DOMAIN node_vnodes = {m \in DOMAIN nodes' : nodes'[m] # BadWeight}
      /\ \A m \in DOMAIN node_vnodes : nodes'[m] = nodes[m]
  <2>1. CASE AddNodeHalfway(n)
    <3>1. n \notin DOMAIN nodes /\ nodes' = With(nodes, n, BadWeight)
          BY <2>1 DEF AddNodeHalfway
    <3>2. /\ DOMAIN nodes' = DOMAIN nodes \union {n} /\ nodes'[n] = BadWeight
          /\ \A m \in DOMAIN nodes : nodes'[m] = nodes[m]
          BY <3>1 DEF With
    <3> QED BY <1>2, <3>1, <3>2 DEF TypeOK
  <2>2. CASE RemoveNodeHalfway(n)
    <3>1. /\ n \in DOMAIN nodes \ DOMAIN node_vnodes
          /\ nodes' = Restrict(nodes, DOMAIN nodes \ {n})
          BY <2>2 DEF RemoveNodeHalfway
    <3>2. /\ DOMAIN nodes' = DOMAIN nodes \ {n}
          /\ \A m \in DOMAIN nodes' : nodes'[m] = nodes[m]
          BY <3>1 DEF Restrict
    <3> QED BY <1>2, <3>1, <3>2 DEF TypeOK
  <2> QED BY <2>1, <2>2
<1>4. TypeOK'
      BY <1>1, <1>2, <1>3 DEF TypeOK, Members
<1>5. \A m \in DOMAIN node_vnodes' :
        /\ ToSet(node_vnodes'[m]) = PositionsOf(ring_map', m)
        /\ Len(node_vnodes'[m]) = Cardinality(PositionsOf(ring_map', m))
        /\ Len(node_vnodes'[m]) = VnodesPerWeight * nodes'[m]
        /\ node_vnodes'[m] \in Seq(Nat)
      BY <1>1, <1>3 DEF RingInv, RingConsistent
<1>6. /\ \A i, j \in DOMAIN ring_keys' : i < j => ring_keys'[i] < ring_keys'[j]
      /\ ToSet(ring_keys') = DOMAIN ring_map'
      /\ Members(ring_map') \subseteq DOMAIN node_vnodes'
      BY <1>1 DEF RingInv, RingConsistent
<1> QED BY <1>1, <1>3, <1>4, <1>5, <1>6 DEF RingInv, RingConsistent

(* Every step keeps the invariant.                                          *)
LEMMA RingNext == RingInv /\ [Next]_vars => RingInv'
<1> SUFFICES ASSUME RingInv, [Next]_vars PROVE RingInv'
    OBVIOUS
<1>1. CASE UNCHANGED vars
  <2>1. /\ hash' = hash /\ ring_keys' = ring_keys /\ ring_map' = ring_map
        /\ nodes' = nodes /\ node_vnodes' = node_vnodes
        BY <1>1 DEF vars
  <2>2. TypeOK'
        BY <2>1 DEF RingInv, RingConsistent, TypeOK
  <2> QED BY <2>1, <2>2 DEF RingInv, RingConsistent
<1>2. CASE Next
  <2>1. PICK n \in Node : \/ \E w \in Weights[n] : AddNode(n, w)
                          \/ AddNodeHalfway(n)
                          \/ RemoveNode(n)
                          \/ RemoveNodeHalfway(n)
        BY <1>2 DEF Next
  <2>2. CASE \E w \in Weights[n] : AddNode(n, w)
        BY <2>2, AddKeepsRing
  <2>3. CASE AddNodeHalfway(n) \/ RemoveNodeHalfway(n)
        BY <2>3, HalfwayKeepsRing
  <2>4. CASE RemoveNode(n)
        BY <2>4, RemoveKeepsRing
  <2> QED BY <2>1, <2>2, <2>3, <2>4
<1> QED BY <1>1, <1>2

(* The list and the maps describe one ring after any sequence of additions  *)
(* and removals, for any hash function, so however often virtual nodes      *)
(* collide and however far probing goes past the hash space, and also when  *)
(* additions fail halfway (consistent_hash.py:71-106, 135-163).             *)
THEOREM RingStaysConsistent == Spec => []RingConsistent
<1>1. RingInv => RingConsistent
      BY DEF RingInv
<1> QED BY <1>1, RingInit, RingNext, PTL DEF Spec

-----------------------------------------------------------------------------
(* What the lists say is what RingOps says of the map.  A clockwise walk    *)
(* meets the positions in one order.                                        *)
LEMMA WalkOrdersPositions ==
  ASSUME NEW h \in Nat
  PROVE  /\ \A p \in Nat : ~Before(h, p, p)
         /\ \A p, q \in Nat : p # q => Before(h, p, q) \/ Before(h, q, p)
         /\ \A p, q \in Nat : Before(h, p, q) => ~Before(h, q, p)
BY DEF Before

(* The one position that is met before all others is FirstAfter.            *)
LEMMA FirstAfterIs ==
  ASSUME NEW h \in Nat, NEW P \in SUBSET Nat, NEW p \in P,
         \A q \in P \ {p} : Before(h, p, q)
  PROVE  FirstAfter(h, P) = p
<1> DEFINE f == FirstAfter(h, P)
<1>1. f \in P /\ \A q \in P \ {f} : Before(h, f, q)
      BY DEF FirstAfter
<1> HIDE DEF f
<1>2. ~(f # p)
  <2> SUFFICES ASSUME f # p PROVE FALSE
      OBVIOUS
  <2>1. Before(h, f, p) /\ Before(h, p, f) /\ f \in Nat /\ p \in Nat
        BY <1>1
  <2> QED BY <2>1, WalkOrdersPositions
<1> QED BY <1>2 DEF f

(* The one position that is met after all others is LastBefore.             *)
LEMMA LastBeforeIs ==
  ASSUME NEW h \in Nat, NEW P \in SUBSET Nat, NEW p \in P,
         \A q \in P \ {p} : Before(h, q, p)
  PROVE  LastBefore(h, P) = p
<1> DEFINE f == LastBefore(h, P)
<1>1. f \in P /\ \A q \in P \ {f} : Before(h, q, f)
      BY DEF LastBefore
<1> HIDE DEF f
<1>2. ~(f # p)
  <2> SUFFICES ASSUME f # p PROVE FALSE
      OBVIOUS
  <2>1. Before(h, f, p) /\ Before(h, p, f) /\ f \in Nat /\ p \in Nat
        BY <1>1
  <2> QED BY <2>1, WalkOrdersPositions
<1> QED BY <1>2 DEF f

(* The walk of get_nodes_for_key meets every position of the list once, in  *)
(* the order of Before (consistent_hash.py:180-192).                        *)
LEMMA WalkOrder ==
  ASSUME NEW s \in Lists, NEW h \in Nat
  PROVE  /\ DOMAIN Walk(s, h) = 1 .. Len(s)
         /\ \A i \in 1 .. Len(s) : Walk(s, h)[i] \in ToSet(s) /\ Walk(s, h)[i] \in Nat
         /\ \A p \in ToSet(s) : \E i \in 1 .. Len(s) : Walk(s, h)[i] = p
         /\ \A i, j \in 1 .. Len(s) : i < j => Before(h, Walk(s, h)[i], Walk(s, h)[j])
<1> DEFINE start == StartIndex(s, h)
           L == Len(s)
           at(i) == IF start + i - 1 <= L THEN start + i - 1 ELSE start + i - 1 - L
           b == BisectRight(s, h)
<1>1. /\ L \in Nat /\ DOMAIN s = 1 .. L
      /\ \A i \in 1 .. L : s[i] \in Nat
      /\ \A i, j \in 1 .. L : i < j => s[i] < s[j]
      BY ListShape
<1>2. b \in Nat /\ b <= L /\ \A i \in 1 .. L : s[i] <= h <=> i <= b
      BY BisectRightSplits
<1>3. start = IF b = L THEN 1 ELSE b + 1
      BY DEF StartIndex
<1>4. Walk(s, h) = [i \in 1 .. L |-> s[at(i)]]
  <2>1. Walk(s, h) = [i \in 1 .. L |-> IF start + i - 1 <= L THEN s[start + i - 1]
                                       ELSE s[start + i - 1 - L]]
        BY <1>1 DEF Walk
  <2> HIDE DEF start, L
  <2>2. \A i \in 1 .. L : (IF start + i - 1 <= L THEN s[start + i - 1] ELSE s[start + i - 1 - L])
                            = s[at(i)]
        OBVIOUS
  <2> HIDE DEF at
  <2> QED BY <2>1, <2>2
<1> HIDE DEF L, b, start
<1>5. \A i \in 1 .. L : at(i) \in 1 .. L
      BY <1>1, <1>2, <1>3
<1>6. \A k \in 1 .. L : \E i \in 1 .. L : at(i) = k
  <2> SUFFICES ASSUME NEW k \in 1 .. L PROVE \E i \in 1 .. L : at(i) = k
      OBVIOUS
  <2>1. CASE k >= start
    <3>1. k - start + 1 \in 1 .. L /\ at(k - start + 1) = k
          BY <1>1, <1>2, <1>3, <2>1
    <3> QED BY <3>1
  <2>2. CASE ~(k >= start)
    <3>1. k + L - start + 1 \in 1 .. L /\ at(k + L - start + 1) = k
          BY <1>1, <1>2, <1>3, <2>2
    <3> QED BY <3>1
  <2> QED BY <2>1, <2>2
<1>7. ASSUME NEW i \in 1 .. L, NEW j \in 1 .. L, i < j
      PROVE  \/ at(i) < at(j) /\ (at(j) <= b \/ at(i) > b)
             \/ at(i) > b /\ at(j) <= b
      BY <1>1, <1>2, <1>3, <1>7
<1> HIDE DEF at
<1>8. ASSUME NEW i \in 1 .. L, NEW j \in 1 .. L, i < j
      PROVE  Before(h, s[at(i)], s[at(j)])
  <2>1. at(i) \in 1 .. L /\ at(j) \in 1 .. L
        BY <1>5
  <2>2. s[at(i)] \in Nat /\ s[at(j)] \in Nat
        BY <1>1, <2>1
  <2>3. (s[at(i)] <= h <=> at(i) <= b) /\ (s[at(j)] <= h <=> at(j) <= b)
        BY <1>2, <2>1
  <2>4. CASE at(i) < at(j) /\ (at(j) <= b \/ at(i) > b)
    <3>1. s[at(i)] < s[at(j)]
          BY <1>1, <2>1, <2>4
    <3>2. (s[at(i)] <= h) = (s[at(j)] <= h)
          BY <1>2, <2>1, <2>3, <2>4
    <3> QED BY <2>2, <3>1, <3>2 DEF Before
  <2>5. CASE at(i) > b /\ at(j) <= b
        BY <1>2, <2>1, <2>2, <2>3, <2>5 DEF Before
  <2> QED BY <1>7, <1>8, <2>4, <2>5
<1>9. \A p \in ToSet(s) : \E i \in 1 .. L : s[at(i)] = p
  <2> SUFFICES ASSUME NEW k \in 1 .. L PROVE \E i \in 1 .. L : s[at(i)] = s[k]
      BY <1>1 DEF ToSet
  <2> QED BY <1>6
<1>10. \A i \in 1 .. L : s[at(i)] \in ToSet(s) /\ s[at(i)] \in Nat
       BY <1>1, <1>5 DEF ToSet
<1> QED BY <1>4, <1>8, <1>9, <1>10 DEF L

(* get_node (consistent_hash.py:170-178).                                   *)
LEMMA LookupFinds == RingInv => LookupIsSuccessor
<1> SUFFICES ASSUME RingInv, ring_keys # <<>>, NEW h \in HashValue
             PROVE  GetNode(ring_keys, ring_map, h) = OwnerOf(ring_map, h)
    BY DEF LookupIsSuccessor
<1>1. ring_keys \in Lists /\ ToSet(ring_keys) = DOMAIN ring_map
      BY RingParts
<1>2. h \in Nat
      BY RingAssumption DEF HashValue
<1> DEFINE L == Len(ring_keys)
           w == Walk(ring_keys, h)
           start == StartIndex(ring_keys, h)
<1>3. L \in Nat /\ L # 0 /\ DOMAIN ring_keys = 1 .. L
  <2>1. ring_keys \in Seq(Nat)
        BY <1>1 DEF Lists
  <2> QED BY <2>1, EmptySeq, LenProperties
<1>4. start \in 1 .. L
  <2>1. BisectRight(ring_keys, h) \in Nat /\ BisectRight(ring_keys, h) <= L
        BY <1>1, <1>2, BisectRightSplits
  <2> QED BY <1>3, <2>1 DEF StartIndex
<1>5. w[1] = ring_keys[start]
  <2>1. 1 \in DOMAIN ring_keys
        BY <1>3
  <2>2. w[1] = IF start + 1 - 1 <= L THEN ring_keys[start + 1 - 1]
               ELSE ring_keys[start + 1 - 1 - L]
        BY <2>1 DEF Walk
  <2> HIDE DEF w, start, L
  <2> QED BY <1>3, <1>4, <2>2
<1>6. /\ \A i \in 1 .. L : w[i] \in ToSet(ring_keys) /\ w[i] \in Nat
      /\ \A p \in ToSet(ring_keys) : \E i \in 1 .. L : w[i] = p
      /\ \A i, j \in 1 .. L : i < j => Before(h, w[i], w[j])
      BY <1>1, <1>2, WalkOrder
<1> HIDE DEF w, L, start
<1> DEFINE P == ToSet(ring_keys)
<1>7. w[1] \in P /\ \A q \in P \ {w[1]} : Before(h, w[1], q)
  <2>1. 1 \in 1 .. L
        BY <1>3
  <2>2. ASSUME NEW q \in P, q # w[1] PROVE Before(h, w[1], q)
    <3>1. PICK i \in 1 .. L : w[i] = q
          BY <1>6
    <3>2. 1 < i
          BY <2>2, <3>1
    <3> QED BY <1>6, <2>1, <3>1, <3>2
  <2> QED BY <1>6, <2>1, <2>2
<1>8. P \in SUBSET Nat
      BY <1>6
<1> HIDE DEF P
<1>9. FirstAfter(h, P) = w[1]
  <2>1. PICK p \in P : p = w[1] /\ \A q \in P \ {p} : Before(h, p, q)
        BY <1>7
  <2>2. FirstAfter(h, P) = p
        BY <1>2, <1>8, <2>1, FirstAfterIs
  <2> QED BY <2>1, <2>2
<1> QED BY <1>1, <1>5, <1>9 DEF GetNode, OwnerOf, P, start

(* How many members of S there are up to i.                                 *)
Rank(S, i) == Cardinality({j \in S : j <= i})

(* The rank grows by one at each member of S and nowhere else.              *)
LEMMA RankSteps ==
  ASSUME NEW N \in Nat, NEW S \in SUBSET (1 .. N)
  PROVE  /\ IsFiniteSet(S) /\ Cardinality(S) \in Nat
         /\ Rank(S, 0) = 0 /\ Rank(S, N) = Cardinality(S)
         /\ \A i \in 0 .. N : Rank(S, i) \in 0 .. Cardinality(S)
         /\ \A i \in 1 .. N : Rank(S, i) = IF i \in S THEN Rank(S, i-1) + 1 ELSE Rank(S, i-1)
         /\ \A i, j \in 0 .. N : i <= j => Rank(S, i) <= Rank(S, j)
<1> DEFINE Upto(i) == {j \in S : j <= i}
<1>0. \A j \in S : j \in Int /\ 1 <= j /\ j <= N
      OBVIOUS
<1>1. \A i : Rank(S, i) = Cardinality(Upto(i))
      BY DEF Rank
<1>2. IsFiniteSet(S) /\ Cardinality(S) \in Nat
  <2>1. IsFiniteSet(1 .. N)
        BY IntervalSize
  <2>2. IsFiniteSet(S)
        BY <2>1, FS_Subset
  <2> QED BY <2>2, FS_CardinalityType
<1>3. \A i : Upto(i) \in SUBSET S
      OBVIOUS
<1>4. Upto(0) = {} /\ Upto(N) = S
  <2>1. \A j \in S : ~(j <= 0)
        BY <1>0
  <2>2. \A j \in S : j <= N
        BY <1>0
  <2> QED BY <2>1, <2>2
<1>5. ASSUME NEW i \in 1 .. N, i \in S
      PROVE  Upto(i) = Upto(i-1) \union {i} /\ i \notin Upto(i-1)
  <2>1. i \notin Upto(i-1)
        OBVIOUS
  <2>2. \A j \in S : j <= i <=> j <= i - 1 \/ j = i
        BY <1>0
  <2> QED BY <1>5, <2>1, <2>2
<1>6. ASSUME NEW i \in 1 .. N, i \notin S
      PROVE  Upto(i) = Upto(i-1)
  <2>1. \A j \in S : j <= i <=> j <= i - 1
        BY <1>0, <1>6
  <2> QED BY <2>1
<1>7. ASSUME NEW i \in 0 .. N, NEW j \in 0 .. N, i <= j
      PROVE  Upto(i) \in SUBSET Upto(j)
  <2>1. \A k \in S : k <= i => k <= j
        BY <1>0, <1>7
  <2> QED BY <2>1
<1> HIDE DEF Upto
<1>8. \A i : IsFiniteSet(Upto(i)) /\ Cardinality(Upto(i)) \in 0 .. Cardinality(S)
  <2> SUFFICES ASSUME NEW i
               PROVE  IsFiniteSet(Upto(i)) /\ Cardinality(Upto(i)) \in 0 .. Cardinality(S)
      OBVIOUS
  <2>1. IsFiniteSet(Upto(i)) /\ Cardinality(Upto(i)) <= Cardinality(S)
        BY <1>2, <1>3, FS_Subset
  <2>2. Cardinality(Upto(i)) \in Nat
        BY <2>1, FS_CardinalityType
  <2> QED BY <1>2, <2>1, <2>2
<1>9. ASSUME NEW i \in 1 .. N
      PROVE  Rank(S, i) = IF i \in S THEN Rank(S, i-1) + 1 ELSE Rank(S, i-1)
  <2>1. CASE i \in S
    <3>1. Cardinality(Upto(i-1) \union {i}) = Cardinality(Upto(i-1)) + 1
          BY <1>5, <1>8, <2>1, FS_AddElement
    <3> QED BY <1>1, <1>5, <2>1, <3>1
  <2>2. CASE i \notin S
        BY <1>1, <1>6, <2>2
  <2> QED BY <2>1, <2>2
<1>10. ASSUME NEW i \in 0 .. N, NEW j \in 0 .. N, i <= j
       PROVE  Rank(S, i) <= Rank(S, j)
  <2>1. Cardinality(Upto(i)) <= Cardinality(Upto(j))
        BY <1>7, <1>8, <1>10, FS_Subset
  <2> QED BY <1>1, <2>1
<1>11. Rank(S, 0) = 0 /\ Rank(S, N) = Cardinality(S)
       BY <1>1, <1>4, FS_EmptySet
<1> QED BY <1>1, <1>2, <1>8, <1>9, <1>10, <1>11

(* The ranks of the members of S are the numbers up to its size, each once, *)
(* and Nth finds the member of a rank.                                      *)
LEMMA NthHasRank ==
  ASSUME NEW N \in Nat, NEW S \in SUBSET (1 .. N)
  PROVE  /\ \A i \in S : Rank(S, i) \in 1 .. Cardinality(S) /\ Nth(S, Rank(S, i)) = i
         /\ \A i, j \in S : i < j <=> Rank(S, i) < Rank(S, j)
         /\ \A k \in 1 .. Cardinality(S) : Nth(S, k) \in S /\ Rank(S, Nth(S, k)) = k
<1> DEFINE c == Cardinality(S)
<1>1. /\ IsFiniteSet(S) /\ c \in Nat
      /\ \A i \in 0 .. N : Rank(S, i) \in 0 .. c
      /\ \A i \in 1 .. N : Rank(S, i) = IF i \in S THEN Rank(S, i-1) + 1 ELSE Rank(S, i-1)
      /\ \A i, j \in 0 .. N : i <= j => Rank(S, i) <= Rank(S, j)
      BY RankSteps
<1> HIDE DEF c
<1>2. \A i \in S : i \in 1 .. N /\ i \in 0 .. N /\ i - 1 \in 0 .. N
      OBVIOUS
<1>3. ASSUME NEW i \in S
      PROVE  Rank(S, i) = Rank(S, i-1) + 1 /\ Rank(S, i) \in 1 .. c
  <2>1. Rank(S, i) = Rank(S, i-1) + 1
        BY <1>1, <1>2
  <2>2. Rank(S, i) \in 0 .. c /\ Rank(S, i-1) \in 0 .. c
        BY <1>1, <1>2
  <2> QED BY <1>1, <2>1, <2>2
<1>4. ASSUME NEW i \in S, NEW j \in S, i < j
      PROVE  Rank(S, i) < Rank(S, j)
  <2>1. i <= j - 1
        BY <1>2, <1>4
  <2>2. Rank(S, i) <= Rank(S, j-1)
        BY <1>1, <1>2, <2>1
  <2>3. Rank(S, j) = Rank(S, j-1) + 1 /\ Rank(S, j-1) \in 0 .. c /\ Rank(S, i) \in 0 .. c
        BY <1>1, <1>2, <1>3
  <2> QED BY <1>1, <2>2, <2>3
<1>5. ASSUME NEW i \in S, NEW j \in S
      PROVE  i < j <=> Rank(S, i) < Rank(S, j)
  <2>1. i \in Nat /\ j \in Nat /\ Rank(S, i) \in Nat /\ Rank(S, j) \in Nat
        BY <1>1, <1>2, <1>3
  <2> QED BY <1>4, <2>1
<1>6. \A i, j \in S : Rank(S, i) = Rank(S, j) => i = j
  <2> SUFFICES ASSUME NEW i \in S, NEW j \in S, i # j PROVE Rank(S, i) # Rank(S, j)
      OBVIOUS
  <2>1. i < j \/ j < i
        BY <1>2
  <2>2. Rank(S, i) \in Nat /\ Rank(S, j) \in Nat
        BY <1>1, <1>3
  <2> QED BY <1>4, <2>1, <2>2
<1> DEFINE f == [i \in S |-> Rank(S, i)]
<1>7. f \in [S -> 1 .. c] /\ \A i, j \in S : f[i] = f[j] => i = j
      BY <1>3, <1>6
<1>8. f \in Surjection(S, 1 .. c)
  <2> HIDE DEF f
  <2>1. f \in Injection(S, 1 .. c)
        BY <1>7 DEF Injection, IsInjective
  <2>2. IsFiniteSet(1 .. c) /\ Cardinality(1 .. c) = c
        BY <1>1, IntervalSize
  <2> QED BY <2>1, <2>2, FS_Injection DEF c
<1>9. \A k \in 1 .. c : \E i \in S : Rank(S, i) = k
      BY <1>8 DEF Surjection
<1>10. \A k : Nth(S, k) = CHOOSE i \in S : Rank(S, i) = k
       BY DEF Nth, Rank
<1>11. \A k \in 1 .. c : Nth(S, k) \in S /\ Rank(S, Nth(S, k)) = k
       BY <1>9, <1>10
<1>12. \A i \in S : Nth(S, Rank(S, i)) = i
       BY <1>3, <1>6, <1>11
<1> QED BY <1>3, <1>5, <1>11, <1>12 DEF c

(* get_nodes_for_key (consistent_hash.py:180-198) on any consistent list    *)
(* and map: the chain holds the replicas, nearest first; ahead of each of   *)
(* them are just those before it in the chain, and who has fewer than       *)
(* replication_factor nodes ahead comes right behind these.                 *)
AheadOf(map, h, n) == {m \in Members(map) \ {n} : Closer(map, h, m, n)}

IsChain(chain, map, h) ==
  /\ ToSet(chain) = ReplicasOf(map, h, ReplicationFactor)
  /\ \E len \in Nat : len <= ReplicationFactor /\ DOMAIN chain = 1 .. len
  /\ \A i, j \in DOMAIN chain : i < j => Closer(map, h, chain[i], chain[j])
  /\ \A i, j \in DOMAIN chain : chain[i] = chain[j] => i = j
  /\ \A i \in DOMAIN chain :
       chain[i] \in Members(map) /\ AheadOf(map, h, chain[i]) = {chain[k] : k \in 1 .. i-1}
  /\ \A n \in Members(map) :
       LET ahead == Cardinality(AheadOf(map, h, n))
       IN  ahead < ReplicationFactor => ahead + 1 \in DOMAIN chain /\ chain[ahead + 1] = n

(* The turn at which a node is met for the first time is where the walk     *)
(* comes to the first of its positions, so that the order of the turns is   *)
(* the order of Closer.                                                     *)
LEMMA ChainIs ==
  ASSUME NEW keys \in Lists, NEW map, ToSet(keys) = DOMAIN map, NEW h \in HashValue
  PROVE  IsChain(GetNodesForKey(keys, map, h), map, h)
<1>2. h \in Nat
      BY RingAssumption DEF HashValue
<1> DEFINE L == Len(keys)
           w == Walk(keys, h)
           owners == [i \in DOMAIN w |-> map[w[i]]]
           turns == FirstMeetings(owners)
           met == Cardinality(turns)
           lim == IF met < ReplicationFactor THEN met ELSE ReplicationFactor
           chain == [j \in 1 .. lim |-> owners[Nth(turns, j)]]
           M == Members(map)
<1>3. GetNodesForKey(keys, map, h) = chain
      BY DEF GetNodesForKey
<1>4. /\ L \in Nat /\ DOMAIN w = 1 .. L
      /\ \A i \in 1 .. L : w[i] \in DOMAIN map /\ w[i] \in Nat
      /\ \A p \in DOMAIN map : \E i \in 1 .. L : w[i] = p
      /\ \A i, j \in 1 .. L : i < j => Before(h, w[i], w[j])
      BY <1>2, WalkOrder, ListShape
<1> HIDE DEF L, w
<1>5. DOMAIN owners = 1 .. L /\ \A i \in 1 .. L : owners[i] = map[w[i]]
      BY <1>4
<1> HIDE DEF owners
<1>6. turns = {i \in 1 .. L : \A j \in 1 .. i-1 : owners[j] # owners[i]}
      BY <1>5 DEF FirstMeetings
<1> HIDE DEF turns
<1>7. turns \in SUBSET (1 .. L)
      BY <1>6
<1>8. ASSUME NEW n \in M
      PROVE  \E i \in turns : owners[i] = n
  <2> DEFINE S == {i \in 1 .. L : owners[i] = n}
  <2>1. S # {}
        BY <1>4, <1>5 DEF Members
  <2>2. S \in SUBSET Nat
        OBVIOUS
  <2>3. PICK i \in S : \A j \in S : i <= j
    <3> HIDE DEF S
    <3> QED BY <2>1, <2>2, LeastExists
  <2>4. i \in 1 .. L /\ owners[i] = n
        OBVIOUS
  <2>5. ASSUME NEW j \in 1 .. i-1 PROVE owners[j] # n
    <3> HIDE DEF S
    <3>1. j \in 1 .. L /\ ~(i <= j)
          BY <1>4, <2>4
    <3>2. j \notin S
          BY <2>3, <3>1
    <3> QED BY <3>1, <3>2 DEF S
  <2> QED BY <1>6, <2>4, <2>5
<1>9. ASSUME NEW i \in turns, NEW j \in 1 .. L, owners[i] = owners[j], i # j
      PROVE  i < j
  <2>1. i \in 1 .. L /\ j \notin 1 .. i-1
        BY <1>6, <1>9
  <2> QED BY <1>9, <2>1
<1>10. ASSUME NEW i \in turns
       PROVE  owners[i] \in M /\ FirstAfter(h, PositionsOf(map, owners[i])) = w[i]
  <2>1. i \in 1 .. L
        BY <1>7
  <2>2. owners[i] \in M
        BY <1>4, <1>5, <2>1 DEF Members
  <2> DEFINE P == PositionsOf(map, owners[i])
  <2>3. P \in SUBSET Nat /\ w[i] \in P
        BY <1>4, <1>5, <2>1 DEF PositionsOf
  <2>4. ASSUME NEW q \in P, q # w[i]
        PROVE  Before(h, w[i], q)
    <3>1. PICK j \in 1 .. L : w[j] = q
          BY <1>4 DEF PositionsOf
    <3>2. owners[j] = owners[i] /\ i # j
          BY <1>5, <2>4, <3>1 DEF PositionsOf
    <3>3. i < j
          BY <1>9, <3>2
    <3> QED BY <1>4, <2>1, <3>1, <3>3
  <2>5. PICK p \in P : p = w[i] /\ \A q \in P \ {p} : Before(h, p, q)
        BY <2>3, <2>4
  <2> HIDE DEF P
  <2>6. FirstAfter(h, P) = p
        BY <1>2, <2>3, <2>5, FirstAfterIs
  <2> QED BY <2>2, <2>5, <2>6 DEF P
<1>11. ASSUME NEW i \in turns, NEW j \in turns
       PROVE  Closer(map, h, owners[i], owners[j]) <=> i < j
  <2>1. Closer(map, h, owners[i], owners[j]) <=> Before(h, w[i], w[j])
        BY <1>10 DEF Closer
  <2>2. i \in 1 .. L /\ j \in 1 .. L /\ w[i] \in Nat /\ w[j] \in Nat
        BY <1>4, <1>7
  <2>3. i < j => Before(h, w[i], w[j])
        BY <1>4, <2>2
  <2>4. j < i => Before(h, w[j], w[i])
        BY <1>4, <2>2
  <2>5. i = j \/ i < j \/ j < i
        BY <2>2
  <2>6. /\ Before(h, w[i], w[j]) => ~Before(h, w[j], w[i])
        /\ ~Before(h, w[i], w[i])
        BY <1>2, <2>2, WalkOrdersPositions
  <2>7. i < j => ~(j < i)
        BY <2>2
  <2> QED BY <2>1, <2>3, <2>4, <2>5, <2>6, <2>7
<1>12. ASSUME NEW i \in turns
       PROVE  Cardinality({m \in M \ {owners[i]} : Closer(map, h, m, owners[i])})
                = Rank(turns, i) - 1
  <2> DEFINE ahead == {m \in M \ {owners[i]} : Closer(map, h, m, owners[i])}
             before == {j \in turns : j <= i - 1}
             f == [j \in before |-> owners[j]]
  <2>1. i \in 1 .. L /\ \A j \in turns : j \in 1 .. L
        BY <1>7
  <2>2. \A j \in turns : j <= i - 1 <=> j < i
        BY <2>1
  <2>3. \A j \in before : owners[j] \in ahead
    <3> SUFFICES ASSUME NEW j \in before PROVE owners[j] \in ahead
        OBVIOUS
    <3>1. j \in turns /\ j < i
          BY <2>2
    <3>2. owners[j] # owners[i]
      <4> SUFFICES ASSUME owners[j] = owners[i] PROVE FALSE
          OBVIOUS
      <4>1. i # j /\ ~(i < j)
            BY <2>1, <3>1
      <4> QED BY <1>9, <2>1, <3>1, <4>1
    <3> QED BY <1>10, <1>11, <3>1, <3>2
  <2>4. \A m \in ahead : \E j \in before : owners[j] = m
    <3> SUFFICES ASSUME NEW m \in ahead PROVE \E j \in before : owners[j] = m
        OBVIOUS
    <3>1. PICK j \in turns : owners[j] = m
          BY <1>8
    <3>2. j < i
          BY <1>11, <3>1
    <3> QED BY <2>2, <3>1, <3>2
  <2>5. \A j, k \in before : owners[j] = owners[k] => j = k
    <3> SUFFICES ASSUME NEW j \in before, NEW k \in before, owners[j] = owners[k], j # k
                 PROVE  FALSE
        OBVIOUS
    <3>1. j < k /\ k < j
          BY <1>9, <2>1
    <3> QED BY <2>1, <3>1
  <2>6. f \in [before -> ahead] /\ \A m \in ahead : \E j \in before : f[j] = m
        BY <2>3, <2>4
  <2>7. \A j, k \in before : f[j] = f[k] => j = k
        BY <2>5
  <2>8. IsFiniteSet(turns) /\ before \in SUBSET turns
        BY <1>4, <1>7, RankSteps
  <2>9. Cardinality(before) = Rank(turns, i - 1)
        BY DEF Rank
  <2> HIDE DEF f, before, ahead
  <2>10. f \in Bijection(before, ahead)
         BY <2>6, <2>7 DEF Bijection, Injection, Surjection, IsInjective
  <2>11. IsFiniteSet(before)
         BY <2>8, FS_Subset
  <2>12. Cardinality(ahead) = Cardinality(before)
         BY <2>10, <2>11, FS_Bijection DEF ExistsBijection
  <2>13. Rank(turns, i) = Rank(turns, i - 1) + 1 /\ Rank(turns, i - 1) \in Nat
    <3>1. /\ Rank(turns, i) = IF i \in turns THEN Rank(turns, i - 1) + 1 ELSE Rank(turns, i - 1)
          BY <1>4, <1>7, <2>1, RankSteps
    <3>2. i - 1 \in 0 .. L
          BY <1>4, <2>1
    <3>3. \A k \in 0 .. L : Rank(turns, k) \in 0 .. Cardinality(turns)
          BY <1>4, <1>7, RankSteps
    <3>4. Rank(turns, i - 1) \in 0 .. Cardinality(turns)
          BY <3>2, <3>3
    <3> QED BY <3>1, <3>4
  <2> QED BY <2>9, <2>12, <2>13 DEF ahead
<1>13. /\ met \in Nat
       /\ \A i \in turns : Rank(turns, i) \in 1 .. met /\ Nth(turns, Rank(turns, i)) = i
       /\ \A i, j \in turns : i < j <=> Rank(turns, i) < Rank(turns, j)
       /\ \A k \in 1 .. met : Nth(turns, k) \in turns /\ Rank(turns, Nth(turns, k)) = k
       BY <1>4, <1>7, RankSteps, NthHasRank
<1>14. \A i \in turns : owners[i] \in ReplicasOf(map, h, ReplicationFactor)
                          <=> Rank(turns, i) <= ReplicationFactor
  <2> SUFFICES ASSUME NEW i \in turns
               PROVE  owners[i] \in ReplicasOf(map, h, ReplicationFactor)
                        <=> Rank(turns, i) <= ReplicationFactor
      OBVIOUS
  <2>1. owners[i] \in ReplicasOf(map, h, ReplicationFactor)
          <=> Rank(turns, i) - 1 < ReplicationFactor
        BY <1>10, <1>12 DEF ReplicasOf
  <2>2. Rank(turns, i) \in Nat /\ ReplicationFactor \in Nat
        BY <1>13, RingAssumption
  <2> QED BY <2>1, <2>2
<1>15. \A k \in 1 .. lim : k \in 1 .. met /\ k <= ReplicationFactor
  <2> HIDE DEF met
  <2> QED BY <1>13, RingAssumption
<1>16. \A k \in 1 .. met : k <= ReplicationFactor => k \in 1 .. lim
  <2> HIDE DEF met
  <2> QED BY <1>13, RingAssumption
<1> HIDE DEF met, lim, M
<1>17. DOMAIN chain = 1 .. lim /\ \A k \in 1 .. lim : chain[k] = owners[Nth(turns, k)]
       OBVIOUS
<1> HIDE DEF chain
<1>18. ToSet(chain) = ReplicasOf(map, h, ReplicationFactor)
  <2>1. ASSUME NEW k \in 1 .. lim
        PROVE  chain[k] \in ReplicasOf(map, h, ReplicationFactor)
        BY <1>13, <1>14, <1>15, <1>17
  <2>2. ASSUME NEW n \in ReplicasOf(map, h, ReplicationFactor)
        PROVE  \E k \in 1 .. lim : chain[k] = n
    <3>1. n \in M
          BY DEF ReplicasOf, M
    <3>2. PICK i \in turns : owners[i] = n
          BY <1>8, <3>1
    <3>3. Rank(turns, i) \in 1 .. lim
          BY <1>13, <1>14, <1>16, <3>2
    <3>4. chain[Rank(turns, i)] = n
          BY <1>13, <1>17, <3>2, <3>3
    <3> QED BY <3>3, <3>4
  <2> QED BY <1>17, <2>1, <2>2 DEF ToSet
<1>19. ASSUME NEW i \in 1 .. lim, NEW j \in 1 .. lim, i < j
       PROVE  Closer(map, h, chain[i], chain[j])
  <2>1. Nth(turns, i) \in turns /\ Nth(turns, j) \in turns /\ Nth(turns, i) < Nth(turns, j)
        BY <1>13, <1>15, <1>19
  <2> QED BY <1>11, <1>17, <2>1
<1>20. lim \in Nat /\ lim <= ReplicationFactor
       BY <1>13, RingAssumption DEF lim
<1>21. ASSUME NEW i \in 1 .. lim, NEW j \in 1 .. lim, chain[i] = chain[j]
       PROVE  i = j
  <2>1. /\ Nth(turns, i) \in turns /\ Nth(turns, j) \in turns
        /\ Rank(turns, Nth(turns, i)) = i /\ Rank(turns, Nth(turns, j)) = j
        BY <1>13, <1>15
  <2>2. owners[Nth(turns, i)] = owners[Nth(turns, j)]
        BY <1>17, <1>21
  <2>3. Nth(turns, i) = Nth(turns, j)
    <3> SUFFICES ASSUME Nth(turns, i) # Nth(turns, j) PROVE FALSE
        OBVIOUS
    <3>1. Nth(turns, i) \in 1 .. L /\ Nth(turns, j) \in 1 .. L
          BY <1>7, <2>1
    <3>2. Nth(turns, i) < Nth(turns, j) /\ Nth(turns, j) < Nth(turns, i)
          BY <1>9, <2>1, <2>2, <3>1
    <3> QED BY <1>4, <3>1, <3>2
  <2> QED BY <2>1, <2>3
<1>22. ASSUME NEW i \in 1 .. lim
       PROVE  chain[i] \in M /\ AheadOf(map, h, chain[i]) = {chain[k] : k \in 1 .. i-1}
  <2>1. /\ chain[i] = owners[Nth(turns, i)]
        /\ Nth(turns, i) \in turns /\ Rank(turns, Nth(turns, i)) = i
        BY <1>13, <1>15, <1>17
  <2>2. chain[i] \in M
        BY <1>10, <2>1
  <2>3. ASSUME NEW k \in 1 .. i-1 PROVE chain[k] \in AheadOf(map, h, chain[i])
    <3>1. k \in 1 .. lim /\ k < i /\ k # i
          BY <1>20
    <3>2. Closer(map, h, chain[k], chain[i]) /\ chain[k] # chain[i]
          BY <1>19, <1>21, <3>1
    <3>3. chain[k] \in M
          BY <1>10, <1>13, <1>15, <1>17, <3>1
    <3> QED BY <3>2, <3>3 DEF AheadOf, M
  <2>4. ASSUME NEW m \in AheadOf(map, h, chain[i]) PROVE \E k \in 1 .. i-1 : chain[k] = m
    <3>1. m \in M /\ Closer(map, h, m, chain[i])
          BY DEF AheadOf, M
    <3>2. PICK j \in turns : owners[j] = m
          BY <1>8, <3>1
    <3>3. j < Nth(turns, i)
          BY <1>11, <2>1, <3>1, <3>2
    <3>4. Rank(turns, j) \in 1 .. met /\ Rank(turns, j) < i /\ Nth(turns, Rank(turns, j)) = j
          BY <1>13, <2>1, <3>3
    <3>5. Rank(turns, j) \in 1 .. i-1 /\ Rank(turns, j) \in 1 .. lim
          BY <1>13, <1>15, <1>16, <3>4, RingAssumption
    <3> QED BY <1>17, <3>2, <3>4, <3>5
  <2> QED BY <2>2, <2>3, <2>4
<1>23. ASSUME NEW n \in M, Cardinality(AheadOf(map, h, n)) < ReplicationFactor
       PROVE  /\ Cardinality(AheadOf(map, h, n)) + 1 \in 1 .. lim
              /\ chain[Cardinality(AheadOf(map, h, n)) + 1] = n
  <2>1. PICK i \in turns : owners[i] = n
        BY <1>8
  <2>2. Cardinality(AheadOf(map, h, n)) = Rank(turns, i) - 1 /\ Rank(turns, i) \in 1 .. met
        BY <1>12, <1>13, <2>1 DEF AheadOf, M
  <2>3. Cardinality(AheadOf(map, h, n)) + 1 = Rank(turns, i) /\ Rank(turns, i) <= ReplicationFactor
        BY <1>13, <1>23, <2>2, RingAssumption
  <2>4. Rank(turns, i) \in 1 .. lim /\ Nth(turns, Rank(turns, i)) = i
        BY <1>13, <1>16, <2>2, <2>3
  <2> QED BY <1>17, <2>1, <2>3, <2>4
<1> QED BY <1>3, <1>17, <1>18, <1>19, <1>20, <1>21, <1>22, <1>23 DEF M, IsChain

(* get_nodes_for_key in the reachable states.                               *)
LEMMA ChainFinds == RingInv => ChainIsReplicas
<1> SUFFICES ASSUME RingInv, NEW h \in HashValue
             PROVE  LET chain == GetNodesForKey(ring_keys, ring_map, h)
                    IN  /\ ToSet(chain) = ReplicasOf(ring_map, h, ReplicationFactor)
                        /\ \A i, j \in DOMAIN chain :
                             i < j => Closer(ring_map, h, chain[i], chain[j])
    BY DEF ChainIsReplicas
<1>1. IsChain(GetNodesForKey(ring_keys, ring_map, h), ring_map, h)
      BY RingParts, ChainIs
<1> QED BY <1>1 DEF IsChain

(* _compute_migration_for_insert finds the owner of the position met last   *)
(* before the new one (consistent_hash.py:108-133).                         *)
LEMMA MigrationNamesPredecessor ==
  ASSUME NEW s \in Lists, NEW x \in ToSet(s), NEW map, NEW n
  PROVE  LET before == ToSet(s) \ {x}
             owner  == map[LastBefore(x, before)]
         IN  /\ MigrationForInsert(s, map, x, n)
                  = IF before = {} \/ owner = n THEN <<>> ELSE <<owner>>
             /\ before # {} => LastBefore(x, before) \in before
<1> DEFINE L == Len(s)
           b == BisectLeft(s, x)
           at == IF b = 0 THEN L ELSE b
           before == ToSet(s) \ {x}
<1>1. /\ L \in Nat /\ DOMAIN s = 1 .. L
      /\ \A i \in 1 .. L : s[i] \in Nat
      /\ \A i, j \in 1 .. L : i < j => s[i] < s[j]
      BY ListShape
<1>2. x \in Nat
      BY <1>1 DEF ToSet
<1>3. b \in Nat /\ b <= L /\ \A i \in 1 .. L : s[i] < x <=> i <= b
      BY <1>2, BisectLeftSplits
<1>4. MigrationForInsert(s, map, x, n)
        = IF L <= 1 \/ map[s[at]] = n THEN <<>> ELSE <<map[s[at]]>>
      BY DEF MigrationForInsert
<1> HIDE DEF L, b
<1>5. PICK k \in 1 .. L : s[k] = x
      BY <1>1 DEF ToSet
<1>6. k = b + 1
  <2>1. ~(k <= b)
        BY <1>2, <1>3, <1>5
  <2>2. \A i \in 1 .. L : i < k => i <= b
        BY <1>1, <1>3, <1>5
  <2>3. k - 1 <= b
    <3>1. CASE k = 1
          BY <1>3, <3>1
    <3>2. CASE k # 1
      <4>1. k - 1 \in 1 .. L /\ k - 1 < k
            BY <1>1, <1>5, <3>2
      <4> QED BY <2>2, <4>1
    <3> QED BY <3>1, <3>2
  <2> QED BY <1>3, <1>5, <2>1, <2>3
<1>7. CASE L <= 1
  <2>1. \A i \in 1 .. L : i = k
        BY <1>1, <1>5, <1>7
  <2>2. before = {}
        BY <1>1, <1>5, <2>1 DEF ToSet
  <2> QED BY <1>4, <1>7, <2>2
<1>8. CASE ~(L <= 1)
  <2>1. at \in 1 .. L /\ at # k
        BY <1>1, <1>3, <1>5, <1>6, <1>8
  <2>2. s[at] \in before
    <3>1. s[at] # s[k]
      <4>1. s[at] < s[k] \/ s[k] < s[at]
            BY <1>1, <1>5, <2>1
      <4>2. s[at] \in Nat /\ s[k] \in Nat
            BY <1>1, <1>5, <2>1
      <4> QED BY <4>1, <4>2
    <3> QED BY <1>1, <1>5, <2>1, <3>1 DEF ToSet
  <2>3. ASSUME NEW j \in 1 .. L, j # k, j # at
        PROVE  Before(x, s[j], s[at])
    <3>1. s[j] \in Nat /\ s[at] \in Nat
          BY <1>1, <2>1
    <3>2. CASE b = 0
      <4>1. j < at /\ k < j /\ k < at
            BY <1>1, <1>5, <1>6, <2>1, <2>3, <3>2
      <4>2. s[j] < s[at] /\ x < s[j] /\ x < s[at]
            BY <1>1, <1>5, <2>1, <4>1
      <4> QED BY <1>2, <3>1, <4>2 DEF Before
    <3>3. CASE b # 0
      <4>1. at < k /\ (j < at \/ k < j)
            BY <1>1, <1>3, <1>5, <1>6, <2>1, <2>3, <3>3
      <4>2. s[at] < x
            BY <1>1, <1>5, <2>1, <4>1
      <4>3. s[j] < s[at] \/ x < s[j]
            BY <1>1, <1>5, <2>1, <4>1
      <4> QED BY <1>2, <3>1, <4>2, <4>3 DEF Before
    <3> QED BY <3>2, <3>3
  <2> HIDE DEF at
  <2>4. ASSUME NEW q \in before, q # s[at]
        PROVE  Before(x, q, s[at])
    <3>1. PICK j \in 1 .. L : s[j] = q
          BY <1>1 DEF ToSet
    <3>2. j # k /\ j # at
          BY <1>5, <2>4, <3>1
    <3> QED BY <2>3, <3>1, <3>2
  <2>5. before \in SUBSET Nat
        BY <1>1 DEF ToSet
  <2>6. PICK p \in before : p = s[at] /\ \A q \in before \ {p} : Before(x, q, p)
        BY <2>2, <2>4
  <2> HIDE DEF before
  <2>7. LastBefore(x, before) = p
        BY <1>2, <2>5, <2>6, LastBeforeIs
  <2>8. before # {}
        BY <2>6
  <2>9. LastBefore(x, before) = s[at]
        BY <2>6, <2>7
  <2>10. MigrationForInsert(s, map, x, n)
           = IF map[s[at]] = n THEN <<>> ELSE <<map[s[at]]>>
         BY <1>4, <1>8 DEF at
  <2> QED BY <2>2, <2>8, <2>9, <2>10 DEF before
<1> QED BY <1>7, <1>8

(* The source of one plan, which there is unless it is n itself.            *)
OneUnless(n, x) == IF x = n THEN <<>> ELSE <<x>>

(* The list "out" after each of K rounds, in which the members of "planned" *)
(* added their source.                                                      *)
Collects(out, K, src, n, planned) ==
  /\ out[0] = <<>>
  /\ \A i \in 1 .. K : out[i] = out[i-1] \o OneUnless(n, src[i])
  /\ planned \in SUBSET (1 .. K)
  /\ \A i \in 1 .. K : i \in planned <=> src[i] # n

(* The sources of the rounds in "planned", in their order.                  *)
Listed(src, planned) == [j \in 1 .. Cardinality(planned) |-> src[Nth(planned, j)]]

(* A list that gets, one after the other, those of K values that are not n. *)
LEMMA CollectedInOrder ==
  ASSUME NEW K \in Nat, NEW src \in [1 .. K -> Node], NEW n, NEW out,
         NEW planned, Collects(out, K, src, n, planned)
  PROVE  out[K] = Listed(src, planned)
<1> DEFINE c == Cardinality(planned)
           Holds(i) == /\ out[i] \in Seq(Node) /\ Len(out[i]) = Rank(planned, i)
                       /\ \A j \in planned : j <= i => out[i][Rank(planned, j)] = src[j]
           bad == {i \in 0 .. K : ~ Holds(i)}
<1>1. planned \in SUBSET (1 .. K)
      BY DEF Collects
<1>2. /\ out[0] = <<>>
      /\ \A i \in 1 .. K : out[i] = out[i-1] \o OneUnless(n, src[i])
      /\ \A i \in 1 .. K : i \in planned <=> src[i] # n
      BY DEF Collects
<1>3. /\ c \in Nat /\ Rank(planned, 0) = 0 /\ Rank(planned, K) = c
      /\ \A i \in 0 .. K : Rank(planned, i) \in 0 .. c
      /\ \A i \in 1 .. K : Rank(planned, i) = IF i \in planned THEN Rank(planned, i-1) + 1
                                              ELSE Rank(planned, i-1)
      /\ \A i, j \in 0 .. K : i <= j => Rank(planned, i) <= Rank(planned, j)
      BY <1>1, RankSteps
<1>4. /\ \A i \in planned : Rank(planned, i) \in 1 .. c
      /\ \A k \in 1 .. c : Nth(planned, k) \in planned /\ Rank(planned, Nth(planned, k)) = k
      BY <1>1, NthHasRank
<1> HIDE DEF c
<1>5. Holds(0)
  <2>1. <<>> \in Seq(Node) /\ Len(<<>>) = 0
        OBVIOUS
  <2>2. \A j \in planned : ~(j <= 0)
        BY <1>1
  <2> QED BY <1>2, <1>3, <2>1, <2>2
<1>6. ASSUME NEW i \in 1 .. K, Holds(i-1)
      PROVE  Holds(i)
  <2>1. PICK o : o = out[i-1]
        OBVIOUS
  <2>2. PICK rank \in Nat : rank = Rank(planned, i-1)
    <3>1. i - 1 \in 0 .. K
          OBVIOUS
    <3> QED BY <1>3, <3>1
  <2>3. /\ o \in Seq(Node) /\ Len(o) = rank
        /\ \A j \in planned : j <= i-1 => o[Rank(planned, j)] = src[j]
        BY <1>6, <2>1, <2>2
  <2>4. \A j \in planned : j <= i-1 => Rank(planned, j) \in 1 .. rank
    <3> SUFFICES ASSUME NEW j \in planned, j <= i-1 PROVE Rank(planned, j) \in 1 .. rank
        OBVIOUS
    <3>1. j \in 0 .. K /\ i - 1 \in 0 .. K
          BY <1>1
    <3>2. Rank(planned, j) <= rank
          BY <1>3, <2>2, <3>1
    <3>3. Rank(planned, j) \in 1 .. c
          BY <1>4
    <3> QED BY <1>3, <3>2, <3>3
  <2>5. \A j \in planned : j <= i <=> j <= i-1 \/ j = i
        BY <1>1
  <2>6. CASE i \in planned
    <3>1. src[i] # n /\ src[i] \in Node
          BY <1>2, <2>6
    <3>2. out[i] = o \o <<src[i]>>
          BY <1>2, <2>1, <3>1 DEF OneUnless
    <3> DEFINE e == src[i]
    <3> HIDE DEF e
    <3>3. e \in Node /\ out[i] = o \o <<e>>
          BY <3>1, <3>2 DEF e
    <3>4. /\ o \o <<e>> \in Seq(Node) /\ Len(o \o <<e>>) = rank + 1
          /\ \A k \in 1 .. rank : (o \o <<e>>)[k] = o[k]
          /\ (o \o <<e>>)[rank + 1] = e
      <4>1. <<e>> \in Seq(Node) /\ Len(<<e>>) = 1 /\ <<e>>[1] = e
            BY <3>3
      <4>2. /\ o \o <<e>> \in Seq(Node) /\ Len(o \o <<e>>) = Len(o) + Len(<<e>>)
            /\ \A k \in 1 .. Len(o) + Len(<<e>>) :
                 (o \o <<e>>)[k] = IF k <= Len(o) THEN o[k] ELSE <<e>>[k - Len(o)]
            BY <2>3, <4>1, ConcatProperties
      <4>3. rank + 1 - rank = 1 /\ rank + 1 \in 1 .. rank + 1 /\ ~(rank + 1 <= rank)
            OBVIOUS
      <4>4. \A k \in 1 .. rank : k \in 1 .. rank + 1 /\ k <= rank
            OBVIOUS
      <4> QED BY <2>3, <4>1, <4>2, <4>3, <4>4
    <3>5. Rank(planned, i) = rank + 1
          BY <1>3, <2>2, <2>6
    <3>6. ASSUME NEW j \in planned, j <= i
          PROVE  out[i][Rank(planned, j)] = src[j]
      <4>1. CASE j = i
            BY <3>3, <3>4, <3>5, <4>1 DEF e
      <4>2. CASE j <= i-1
            BY <2>3, <2>4, <3>3, <3>4, <4>2
      <4> QED BY <2>5, <3>6, <4>1, <4>2
    <3> QED BY <3>3, <3>4, <3>5, <3>6
  <2>7. CASE i \notin planned
    <3>1. out[i] = o \o <<>>
          BY <1>2, <2>1, <2>7 DEF OneUnless
    <3>2. out[i] = o
          BY <2>3, <3>1, ConcatEmptySeq
    <3>3. Rank(planned, i) = rank
          BY <1>3, <2>2, <2>7
    <3>4. \A j \in planned : j <= i => j <= i-1
          BY <2>5, <2>7
    <3> QED BY <2>3, <3>2, <3>3, <3>4
  <2> QED BY <2>6, <2>7
<1>7. bad = {}
  <2> SUFFICES ASSUME bad # {} PROVE FALSE
      OBVIOUS
  <2>1. bad \in SUBSET Nat
        OBVIOUS
  <2>2. \A i \in bad : i \in 0 .. K /\ ~ Holds(i)
        OBVIOUS
  <2>3. \A i \in 0 .. K : i \notin bad => Holds(i)
        OBVIOUS
  <2> HIDE DEF bad, Holds
  <2>4. PICK m \in bad : \A k \in bad : m <= k
        BY <2>1, LeastExists
  <2>5. m \in 0 .. K /\ m # 0 /\ ~ Holds(m)
        BY <1>5, <2>2, <2>4
  <2>6. m - 1 \in 0 .. K /\ m \in 1 .. K /\ ~(m <= m - 1)
        BY <2>5
  <2>7. Holds(m - 1)
        BY <2>3, <2>4, <2>6
  <2> QED BY <1>6, <2>5, <2>6, <2>7
<1>8. Holds(K)
  <2>1. K \in 0 .. K
        OBVIOUS
  <2> HIDE DEF Holds
  <2> QED BY <1>7, <2>1
<1>9. \A k \in 1 .. c : out[K][k] = src[Nth(planned, k)]
  <2> SUFFICES ASSUME NEW k \in 1 .. c PROVE out[K][k] = src[Nth(planned, k)]
      OBVIOUS
  <2>1. Nth(planned, k) \in planned /\ Rank(planned, Nth(planned, k)) = k
        BY <1>4
  <2>2. Nth(planned, k) <= K
    <3>1. \A j \in planned : j <= K
          BY <1>1
    <3> QED BY <2>1, <3>1
  <2> QED BY <1>8, <2>1, <2>2
<1>10. out[K] \in Seq(Node) /\ DOMAIN out[K] = 1 .. c
       BY <1>3, <1>8, LenProperties
<1>11. out[K] = [j \in 1 .. c |-> out[K][j]]
  <2>1. PICK o \in Seq(Node) : o = out[K] /\ Len(o) = c
        BY <1>3, <1>8
  <2>2. o \in [1 .. c -> Node]
        BY <2>1, LenProperties
  <2>3. o = [j \in 1 .. c |-> o[j]]
        BY <2>2
  <2> QED BY <2>1, <2>3
<1>12. out[K] = [j \in 1 .. c |-> src[Nth(planned, j)]]
       BY <1>9, <1>11
<1> QED BY <1>12 DEF c, Listed

(* add_node's plans (consistent_hash.py:71-133): SourcesFor says the same   *)
(* of the map before the node came, its new positions taken one by one.     *)
LEMMA PlansFound == RingInv => PlansNamePredecessors
<1> SUFFICES ASSUME RingInv, NEW n \in Node \ DOMAIN nodes, NEW w \in Weights[n]
             PROVE  Inserted(n, w).sources = SourcesFor(ring_map, n, Inserted(n, w).vnodes)
    BY DEF PlansNamePredecessors
<1> DEFINE K == VnodesPerWeight * w
           F == Insertion(n, w)
           V == F[K].vnodes
<1>1. /\ TypeOK /\ ring_keys \in Lists /\ ToSet(ring_keys) = DOMAIN ring_map
      BY RingParts
<1>2. /\ w \in Nat /\ \A i \in 1 .. K : hash[n][i] \in Nat
      BY <1>1, HashesUsed
<1>3. /\ K \in Nat
      /\ F[0] = [keys |-> ring_keys, map |-> ring_map, vnodes |-> <<>>, sources |-> <<>>]
      /\ \A i \in 1 .. K : F[i] = InsertVnode(F[i-1], hash[n][i], n)
      BY <1>2, InsertionRounds
<1>4. \A i \in 0 .. K : Grown(F[i], i, n)
      BY <1>1, RoundsGrow
<1>5. Inserted(n, w) = F[K]
      BY DEF Inserted
<1> HIDE DEF K, F
<1>6. \A i \in 0 .. K :
        /\ F[i].keys \in Lists /\ ToSet(F[i].keys) = DOMAIN F[i].map
        /\ F[i].vnodes \in Seq(Nat) /\ Len(F[i].vnodes) = i
        /\ DOMAIN F[i].map = DOMAIN ring_map \union ToSet(F[i].vnodes)
        /\ \A p \in DOMAIN ring_map : F[i].map[p] = ring_map[p]
        /\ \A p \in ToSet(F[i].vnodes) : F[i].map[p] = n
      BY <1>4 DEF Grown
<1>7. ASSUME NEW i \in 1 .. K
      PROVE  \E pos \in Nat :
               /\ pos \notin DOMAIN F[i-1].map
               /\ F[i].keys = Insort(F[i-1].keys, pos)
               /\ F[i].vnodes = Append(F[i-1].vnodes, pos)
               /\ F[i].sources = F[i-1].sources \o MigrationForInsert(F[i].keys, F[i].map, pos, n)
  <2>1. i - 1 \in 0 .. K /\ hash[n][i] \in Nat /\ F[i] = InsertVnode(F[i-1], hash[n][i], n)
        BY <1>2, <1>3
  <2>2. PICK g : g = F[i-1]
        OBVIOUS
  <2>3. PICK h \in Nat : h = hash[n][i]
        BY <2>1
  <2>4. IsFiniteSet(DOMAIN g.map)
        BY <1>6, <2>1, <2>2, FinitePositions
  <2>5. PICK pos \in Nat :
          /\ pos \notin DOMAIN g.map
          /\ InsertVnode(g, h, n).keys = Insort(g.keys, pos)
          /\ InsertVnode(g, h, n).map = With(g.map, pos, n)
          /\ InsertVnode(g, h, n).vnodes = Append(g.vnodes, pos)
          /\ InsertVnode(g, h, n).sources
               = g.sources \o MigrationForInsert(Insort(g.keys, pos), With(g.map, pos, n), pos, n)
        BY <2>4, RoundResult
  <2> QED BY <2>1, <2>2, <2>3, <2>5
<1>8. ASSUME NEW i \in 1 .. K
      PROVE  /\ F[i].vnodes[i] \notin DOMAIN F[i-1].map
             /\ ToSet(F[i].keys) = DOMAIN F[i-1].map \union {F[i].vnodes[i]}
             /\ F[i].sources = F[i-1].sources
                  \o MigrationForInsert(F[i].keys, F[i].map, F[i].vnodes[i], n)
             /\ \A j \in 1 .. i-1 : F[i].vnodes[j] = F[i-1].vnodes[j]
  <2>1. PICK pos \in Nat :
          /\ pos \notin DOMAIN F[i-1].map
          /\ F[i].keys = Insort(F[i-1].keys, pos)
          /\ F[i].vnodes = Append(F[i-1].vnodes, pos)
          /\ F[i].sources = F[i-1].sources \o MigrationForInsert(F[i].keys, F[i].map, pos, n)
        BY <1>7
  <2>2. i - 1 \in 0 .. K /\ (i - 1) + 1 = i
        BY <1>3
  <2>3. /\ F[i-1].keys \in Lists /\ ToSet(F[i-1].keys) = DOMAIN F[i-1].map
        /\ F[i-1].vnodes \in Seq(Nat) /\ Len(F[i-1].vnodes) = i - 1
        BY <1>6, <2>2
  <2>4. ToSet(F[i].keys) = DOMAIN F[i-1].map \union {pos}
        BY <2>1, <2>3, InsortKeeps
  <2>5. F[i].vnodes[i] = pos /\ \A j \in 1 .. i-1 : F[i].vnodes[j] = F[i-1].vnodes[j]
        BY <2>1, <2>2, <2>3, AppendedSet
  <2> QED BY <2>1, <2>4, <2>5
<1>9. \A i \in 0 .. K : \A j \in 1 .. i : F[i].vnodes[j] = F[j].vnodes[j]
  <2> DEFINE Same(i) == \A j \in 1 .. i : F[i].vnodes[j] = F[j].vnodes[j]
             bad == {i \in 0 .. K : ~ Same(i)}
  <2> SUFFICES ASSUME bad # {} PROVE FALSE
      OBVIOUS
  <2>1. bad \in SUBSET Nat
        BY <1>3
  <2>2. \A i \in bad : i \in 0 .. K /\ ~ Same(i)
        OBVIOUS
  <2>3. \A i \in 0 .. K : i \notin bad => Same(i)
        OBVIOUS
  <2> HIDE DEF bad
  <2>4. PICK m \in bad : \A k \in bad : m <= k
        BY <2>1, LeastExists
  <2>5. Same(0)
        OBVIOUS
  <2>6. m \in 0 .. K /\ m # 0 /\ ~ Same(m)
        BY <2>2, <2>4, <2>5
  <2>7. m - 1 \in 0 .. K /\ m \in 1 .. K /\ ~(m <= m - 1)
        BY <1>3, <2>6
  <2>8. Same(m - 1)
    <3> HIDE DEF Same
    <3> QED BY <2>3, <2>4, <2>7
  <2>9. \A j \in 1 .. m : j \in 1 .. m-1 \/ j = m
        BY <2>7
  <2>10. \A j \in 1 .. m-1 : F[m].vnodes[j] = F[m-1].vnodes[j]
         BY <1>8, <2>7
  <2> QED BY <2>6, <2>8, <2>9, <2>10
<1>10. /\ \A i \in 1 .. K : V[i] = F[i].vnodes[i]
       /\ \A i \in 0 .. K : \A j \in 1 .. i : F[i].vnodes[j] = V[j]
  <2>1. K \in 0 .. K
        BY <1>3
  <2>2. \A j \in 1 .. K : V[j] = F[j].vnodes[j]
        BY <1>9, <2>1
  <2>3. \A i \in 0 .. K : \A j \in 1 .. i : j \in 1 .. K
        BY <1>3
  <2> HIDE DEF V
  <2> QED BY <1>9, <2>2, <2>3
<1>11. V \in Seq(Nat) /\ Len(V) = K /\ DOMAIN V = 1 .. K
  <2>1. K \in 0 .. K
        BY <1>3
  <2> QED BY <1>6, <2>1, LenProperties
<1> HIDE DEF V
<1> DEFINE Earlier(i) == DOMAIN ring_map \union {V[j] : j \in 1 .. i-1}
           Source(i) == LET prev == LastBefore(V[i], Earlier(i))
                        IN  IF Earlier(i) # {} /\ prev \in DOMAIN ring_map THEN ring_map[prev]
                                                                          ELSE n
           planned == {i \in DOMAIN V : Source(i) # n}
<1>12. SourcesFor(ring_map, n, V) = [j \in 1 .. Cardinality(planned) |-> Source(Nth(planned, j))]
       BY DEF SourcesFor
<1>13. ASSUME NEW i \in 1 .. K
       PROVE  Earlier(i) = DOMAIN F[i-1].map /\ Earlier(i) = ToSet(F[i].keys) \ {V[i]}
  <2>1. i - 1 \in 0 .. K
        BY <1>3
  <2>2. DOMAIN F[i-1].map = DOMAIN ring_map \union ToSet(F[i-1].vnodes)
        BY <1>6, <2>1
  <2>3. DOMAIN F[i-1].vnodes = 1 .. i-1
        BY <1>6, <2>1, LenProperties
  <2>4. \A j \in 1 .. i-1 : F[i-1].vnodes[j] = V[j]
        BY <1>10, <2>1
  <2>5. ToSet(F[i-1].vnodes) = {V[j] : j \in 1 .. i-1}
        BY <2>3, <2>4 DEF ToSet
  <2>6. Earlier(i) = DOMAIN F[i-1].map
        BY <2>2, <2>5
  <2>7. V[i] \notin DOMAIN F[i-1].map /\ ToSet(F[i].keys) = DOMAIN F[i-1].map \union {V[i]}
        BY <1>8, <1>10
  <2> QED BY <2>6, <2>7
<1>14. ASSUME NEW i \in 1 .. K
       PROVE  MigrationForInsert(F[i].keys, F[i].map, V[i], n)
                = IF Source(i) = n THEN <<>> ELSE <<Source(i)>>
  <2>1. i \in 0 .. K
        OBVIOUS
  <2>2. F[i].keys \in Lists /\ V[i] \in ToSet(F[i].keys)
        BY <1>6, <1>8, <1>10, <2>1
  <2> DEFINE before == Earlier(i)
             prev == LastBefore(V[i], before)
             owner == F[i].map[prev]
  <2>3. before = ToSet(F[i].keys) \ {V[i]}
        BY <1>13
  <2>4. Source(i) = IF before # {} /\ prev \in DOMAIN ring_map THEN ring_map[prev] ELSE n
        OBVIOUS
  <2>5. ASSUME NEW p \in before
        PROVE  F[i].map[p] = IF p \in DOMAIN ring_map THEN ring_map[p] ELSE n
    <3>1. CASE p \in DOMAIN ring_map
          BY <1>6, <2>1, <3>1
    <3>2. CASE p \notin DOMAIN ring_map
      <4>1. PICK j \in 1 .. i-1 : V[j] = p
            BY <3>2
      <4>2. j \in 1 .. i
            BY <4>1
      <4>3. F[i].vnodes[j] = p /\ DOMAIN F[i].vnodes = 1 .. i
            BY <1>6, <1>10, <2>1, <4>1, <4>2, LenProperties
      <4>4. p \in ToSet(F[i].vnodes)
            BY <4>2, <4>3 DEF ToSet
      <4> QED BY <1>6, <2>1, <3>2, <4>4
    <3> QED BY <3>1, <3>2
  <2> HIDE DEF Earlier, Source
  <2>6. /\ MigrationForInsert(F[i].keys, F[i].map, V[i], n)
             = IF before = {} \/ owner = n THEN <<>> ELSE <<owner>>
        /\ before # {} => prev \in before
    <3>1. PICK s, x, map : /\ s \in Lists /\ s = F[i].keys
                           /\ x \in ToSet(s) /\ x = V[i] /\ map = F[i].map
          BY <2>2
    <3>2. /\ MigrationForInsert(s, map, x, n)
               = IF ToSet(s) \ {x} = {} \/ map[LastBefore(x, ToSet(s) \ {x})] = n
                   THEN <<>> ELSE <<map[LastBefore(x, ToSet(s) \ {x})]>>
          /\ ToSet(s) \ {x} # {} => LastBefore(x, ToSet(s) \ {x}) \in ToSet(s) \ {x}
          BY <3>1, MigrationNamesPredecessor
    <3> QED BY <2>3, <3>1, <3>2
  <2> HIDE DEF before
  <2>7. before # {} => owner = Source(i)
        BY <2>4, <2>5, <2>6
  <2>8. before = {} => Source(i) = n
        BY <2>4
  <2> HIDE DEF owner, prev
  <2> QED BY <2>6, <2>7, <2>8
<1>15. \A i \in 1 .. K : Source(i) \in Node
       BY <1>1 DEF TypeOK, Members
<1> HIDE DEF Source, Earlier
<1> DEFINE src == [i \in 1 .. K |-> Source(i)]
           out == [i \in 0 .. K |-> F[i].sources]
           wanted == {i \in 1 .. K : src[i] # n}
<1>16. src \in [1 .. K -> Node] /\ \A i \in 1 .. K : src[i] = Source(i)
       BY <1>15
<1>17. /\ 0 \in 0 .. K /\ K \in 0 .. K
       /\ \A i \in 1 .. K : i \in 0 .. K /\ i - 1 \in 0 .. K
       BY <1>3
<1>18. out[0] = <<>> /\ out[K] = F[K].sources
       BY <1>3, <1>17
<1>19. ASSUME NEW i \in 1 .. K
       PROVE  out[i] = out[i-1] \o OneUnless(n, src[i])
  <2>1. F[i].sources = F[i-1].sources \o MigrationForInsert(F[i].keys, F[i].map, V[i], n)
        BY <1>8, <1>10
  <2>2. MigrationForInsert(F[i].keys, F[i].map, V[i], n)
          = OneUnless(n, src[i])
        BY <1>14, <1>16 DEF OneUnless
  <2>3. out[i] = F[i].sources /\ out[i-1] = F[i-1].sources
        BY <1>17
  <2> HIDE DEF out, src
  <2> QED BY <2>1, <2>2, <2>3
<1>20. planned = wanted
       BY <1>11, <1>16
<1> HIDE DEF out, src
<1>21. out[K] = [j \in 1 .. Cardinality(wanted) |-> src[Nth(wanted, j)]]
  <2>1. \A i \in 1 .. K : out[i] = out[i-1] \o OneUnless(n, src[i])
        BY <1>19
  <2>2. K \in Nat /\ src \in [1 .. K -> Node] /\ out[0] = <<>>
        BY <1>3, <1>16, <1>18
  <2>3. wanted \in SUBSET (1 .. K) /\ \A i \in 1 .. K : i \in wanted <=> src[i] # n
        OBVIOUS
  <2> HIDE DEF wanted
  <2>4. Collects(out, K, src, n, wanted)
        BY <2>1, <2>2, <2>3 DEF Collects
  <2>5. PICK k \in Nat : k = K
        BY <2>2
  <2>6. PICK s \in [1 .. k -> Node] : s = src
        BY <2>2, <2>5
  <2>7. PICK o, p : o = out /\ p = wanted
        OBVIOUS
  <2>8. Collects(o, k, s, n, p)
        BY <2>4, <2>5, <2>6, <2>7
  <2>9. o[k] = Listed(s, p)
        BY <2>8, CollectedInOrder
  <2> QED BY <2>5, <2>6, <2>7, <2>9 DEF Listed
<1>22. \A j \in 1 .. Cardinality(wanted) : src[Nth(wanted, j)] = Source(Nth(wanted, j))
  <2>1. wanted \in SUBSET (1 .. K)
        OBVIOUS
  <2> HIDE DEF wanted
  <2>2. \A j \in 1 .. Cardinality(wanted) : Nth(wanted, j) \in wanted
        BY <1>3, <2>1, NthHasRank
  <2> QED BY <1>16, <2>1, <2>2
<1> HIDE DEF wanted, planned
<1>23. out[K] = [j \in 1 .. Cardinality(wanted) |-> Source(Nth(wanted, j))]
       BY <1>21, <1>22
<1> QED BY <1>5, <1>12, <1>18, <1>20, <1>23 DEF V

(* The lists compute the ring operators that NodeManager is written with,   *)
(* in every reachable state: get_node, get_nodes_for_key and the plans of   *)
(* add_node (consistent_hash.py:108-133, 170-198).                          *)
THEOREM ListsComputeRing == Spec => []ListsMeanRingOps
<1>1. RingInv => ListsMeanRingOps
      BY LookupFinds, ChainFinds, PlansFound DEF ListsMeanRingOps
<1> QED BY <1>1, RingInit, RingNext, PTL DEF Spec

-----------------------------------------------------------------------------
(* compute_load_distribution.  The hashes that get_node answers with the    *)
(* i-th position are those between it and the position before, around zero  *)
(* for the first one.                                                       *)
Served(i) == {h \in HashValue : StartIndex(ring_keys, h) = i}

(* There are y - x numbers from x on below y.                               *)
LEMMA SpanSize ==
  ASSUME NEW x \in Nat, NEW y \in Nat, x <= y
  PROVE  IsFiniteSet(x .. y - 1) /\ Cardinality(x .. y - 1) = y - x
<1>1. PICK b \in Int : b = y - 1
      OBVIOUS
<1>2. IsFiniteSet(x .. b) /\ Cardinality(x .. b) = IF x > b THEN 0 ELSE b - x + 1
      BY FS_Interval
<1> QED BY <1>1, <1>2

(* They are as many as the stretch before the position is long.             *)
LEMMA StretchIsServed ==
  ASSUME RingInv, InSpace, NEW i \in 1 .. Len(ring_keys)
  PROVE  Stretch(i) \in Nat /\ IsFiniteSet(Served(i)) /\ Cardinality(Served(i)) = Stretch(i)
<1> DEFINE L == Len(ring_keys)
           k(j) == ring_keys[j]
<1>1. ring_keys \in Lists /\ ToSet(ring_keys) = DOMAIN ring_map
      BY RingParts
<1>2. /\ L \in Nat /\ DOMAIN ring_keys = 1 .. L
      /\ \A j \in 1 .. L : k(j) \in Nat
      /\ \A j, m \in 1 .. L : j < m => k(j) < k(m)
      BY <1>1, ListShape
<1>3. \A j \in 1 .. L : k(j) <= Space
      BY <1>1, <1>2 DEF InSpace, ToSet
<1>4. Space \in Nat /\ HashValue = 0 .. Space - 1
      BY RingAssumption DEF HashValue
<1>5. Served(i) = {h \in 0 .. Space - 1 :
                     IF BisectRight(ring_keys, h) = L THEN i = 1
                                                      ELSE i = BisectRight(ring_keys, h) + 1}
      BY <1>2, <1>4 DEF Served, StartIndex
<1>6. \A h \in 0 .. Space - 1 :
        /\ BisectRight(ring_keys, h) \in Nat /\ BisectRight(ring_keys, h) <= L
        /\ \A j \in 1 .. L : k(j) <= h <=> j <= BisectRight(ring_keys, h)
  <2> SUFFICES ASSUME NEW h \in 0 .. Space - 1
               PROVE  /\ BisectRight(ring_keys, h) \in Nat /\ BisectRight(ring_keys, h) <= L
                      /\ \A j \in 1 .. L : k(j) <= h <=> j <= BisectRight(ring_keys, h)
      OBVIOUS
  <2>1. h \in Nat
        BY <1>4
  <2> QED BY <1>1, <2>1, BisectRightSplits
<1>7. i \in 1 .. L /\ 1 \in 1 .. L /\ L \in 1 .. L
      BY <1>2
<1>8. Stretch(i) = IF i = 1 THEN (Space - k(L)) + k(1) ELSE k(i) - k(i - 1)
      BY DEF Stretch
<1> HIDE DEF L, k
<1>9. CASE i = 1
  <2> DEFINE low  == 0 .. k(1) - 1
             high == k(L) .. Space - 1
  <2>1. k(1) \in Nat /\ k(L) \in Nat /\ k(1) <= k(L) /\ k(L) <= Space
    <3>1. 1 = L \/ 1 < L
          BY <1>7
    <3> QED BY <1>2, <1>3, <1>7, <3>1
  <2>2. \A h \in 0 .. Space - 1 : h \in Served(i) <=> h < k(1) \/ k(L) <= h
    <3> SUFFICES ASSUME NEW h \in 0 .. Space - 1
                 PROVE  h \in Served(i) <=> h < k(1) \/ k(L) <= h
        OBVIOUS
    <3> DEFINE b == BisectRight(ring_keys, h)
    <3>1. b \in Nat /\ b <= L /\ (k(1) <= h <=> 1 <= b) /\ (k(L) <= h <=> L <= b)
          BY <1>6, <1>7
    <3>2. h \in Served(i) <=> IF b = L THEN i = 1 ELSE i = b + 1
          BY <1>5
    <3> HIDE DEF b
    <3> QED BY <1>4, <1>7, <1>9, <2>1, <3>1, <3>2
  <2>3. Served(i) = low \union high
    <3>1. Served(i) \subseteq 0 .. Space - 1
          BY <1>5
    <3>2. \A h : h \in low \union high <=> h \in 0 .. Space - 1 /\ (h < k(1) \/ k(L) <= h)
          BY <1>4, <2>1
    <3> HIDE DEF low, high
    <3> QED BY <2>2, <3>1, <3>2
  <2>4. IsFiniteSet(low) /\ Cardinality(low) = k(1)
    <3>1. 0 \in Nat /\ 0 <= k(1) /\ k(1) - 0 = k(1)
          BY <2>1
    <3> QED BY <2>1, <3>1, SpanSize
  <2>5. IsFiniteSet(high) /\ Cardinality(high) = Space - k(L)
        BY <1>4, <2>1, SpanSize
  <2>6. low \intersect high = {}
        BY <2>1
  <2> HIDE DEF low, high
  <2>7. IsFiniteSet(Served(i)) /\ Cardinality(Served(i)) = k(1) + (Space - k(L)) - 0
    <3>1. /\ IsFiniteSet(low \union high)
          /\ Cardinality(low \union high)
               = Cardinality(low) + Cardinality(high) - Cardinality(low \intersect high)
          BY <2>4, <2>5, FS_Union
    <3> QED BY <2>3, <2>4, <2>5, <2>6, <3>1, FS_EmptySet
  <2> QED BY <1>4, <1>8, <1>9, <2>1, <2>7
<1>10. CASE i # 1
  <2>1. /\ i - 1 \in 1 .. L /\ i - 1 < i
        BY <1>2, <1>7, <1>10
  <2>2. k(i) \in Nat /\ k(i - 1) \in Nat /\ k(i - 1) < k(i) /\ k(i) <= Space
        BY <1>2, <1>3, <1>7, <2>1
  <2>3. \A h \in 0 .. Space - 1 : h \in Served(i) <=> k(i - 1) <= h /\ h < k(i)
    <3> SUFFICES ASSUME NEW h \in 0 .. Space - 1
                 PROVE  h \in Served(i) <=> k(i - 1) <= h /\ h < k(i)
        OBVIOUS
    <3> DEFINE b == BisectRight(ring_keys, h)
    <3>1. b \in Nat /\ b <= L /\ (k(i) <= h <=> i <= b) /\ (k(i - 1) <= h <=> i - 1 <= b)
          BY <1>6, <1>7, <2>1
    <3>2. h \in Served(i) <=> IF b = L THEN i = 1 ELSE i = b + 1
          BY <1>5
    <3> HIDE DEF b
    <3> QED BY <1>4, <1>7, <1>10, <2>2, <3>1, <3>2
  <2>4. Served(i) = k(i - 1) .. k(i) - 1
    <3>1. Served(i) \subseteq 0 .. Space - 1
          BY <1>5
    <3>2. \A h : h \in k(i - 1) .. k(i) - 1 <=> h \in 0 .. Space - 1 /\ k(i - 1) <= h /\ h < k(i)
          BY <1>4, <2>2
    <3> QED BY <2>3, <3>1, <3>2
  <2>5. /\ IsFiniteSet(k(i - 1) .. k(i) - 1)
        /\ Cardinality(k(i - 1) .. k(i) - 1) = k(i) - k(i - 1)
    <3>1. k(i - 1) <= k(i)
          BY <2>2
    <3> QED BY <2>2, <3>1, SpanSize
  <2> QED BY <1>8, <1>10, <2>2, <2>4, <2>5
<1> QED BY <1>9, <1>10

(* What the i-th round of compute_load_distribution adds for n.             *)
StretchFor(n, i) == IF ring_map[ring_keys[i]] = n THEN Stretch(i) ELSE 0

(* The rounds of compute_load_distribution exist.                           *)
LEMMA NodeRangeExists ==
  ASSUME NEW n, NEW K \in Nat
  PROVE  \E f : f = [i \in 0 .. K |->
                       IF i = 0 THEN 0 ELSE f[i-1] + StretchFor(n, i)]
<1> DEFINE Rounds(f, k) == f = [i \in 0 .. k |-> IF i = 0 THEN 0 ELSE f[i-1] + StretchFor(n, i)]
           bad == {k \in 0 .. K : ~ \E f : Rounds(f, k)}
<1> SUFFICES ASSUME bad # {} PROVE FALSE
  <2>1. K \in 0 .. K
        OBVIOUS
  <2> QED BY <2>1
<1>1. PICK m \in bad : \A k \in bad : m <= k
  <2>1. bad \in SUBSET Nat
        OBVIOUS
  <2> HIDE DEF bad
  <2> QED BY <2>1, LeastExists
<1>2. m \in 0 .. K
      OBVIOUS
<1>3. m # 0
  <2> SUFFICES ASSUME m = 0 PROVE FALSE
      OBVIOUS
  <2> DEFINE g == [i \in 0 .. 0 |-> 0]
  <2>1. Rounds(g, 0)
        OBVIOUS
  <2> QED BY <2>1
<1>4. m - 1 \in 0 .. K /\ m - 1 < m
      BY <1>2, <1>3
<1>5. m - 1 \notin bad
  <2> HIDE DEF bad
  <2> QED BY <1>1, <1>2, <1>4
<1>6. PICK f : Rounds(f, m - 1)
      BY <1>4, <1>5
<1> DEFINE g == [i \in 0 .. m |-> IF i = m THEN f[m-1] + StretchFor(n, m) ELSE f[i]]
<1>7. ASSUME NEW i \in 0 .. m
      PROVE  g[i] = IF i = 0 THEN 0 ELSE g[i-1] + StretchFor(n, i)
  <2>1. CASE i = m
    <3>1. m - 1 \in 0 .. m /\ m - 1 # m
          BY <1>2, <1>3
    <3>2. g[m-1] = f[m-1]
          BY <3>1
    <3> QED BY <1>2, <1>3, <2>1, <3>2
  <2>2. CASE i # m
    <3>1. i \in 0 .. m - 1
          BY <1>2, <2>2
    <3>2. f[i] = IF i = 0 THEN 0 ELSE f[i-1] + StretchFor(n, i)
          BY <1>6, <3>1
    <3>3. g[i] = f[i]
          BY <2>2
    <3>4. i # 0 => g[i-1] = f[i-1]
      <4>1. i # 0 => i - 1 \in 0 .. m /\ i - 1 # m
            BY <1>2, <2>2
      <4> QED BY <4>1
    <3> HIDE DEF g
    <3> QED BY <3>2, <3>3, <3>4
  <2> QED BY <2>1, <2>2
<1>8. Rounds(g, m)
  <2>1. g = [i \in 0 .. m |-> g[i]]
        OBVIOUS
  <2>2. [i \in 0 .. m |-> g[i]] = [i \in 0 .. m |-> IF i = 0 THEN 0 ELSE g[i-1] + StretchFor(n, i)]
        BY <1>7
  <2> HIDE DEF g
  <2> QED BY <2>1, <2>2
<1> QED BY <1>1, <1>8

(* So node_ranges[n] starts at zero, and each round adds the stretch before *)
(* a position of n.                                                         *)
LEMMA NodeRangeRounds ==
  ASSUME NEW n, Len(ring_keys) \in Nat
  PROVE  /\ NodeRange(n)[0] = 0
         /\ \A i \in 1 .. Len(ring_keys) :
              NodeRange(n)[i] = NodeRange(n)[i-1] + StretchFor(n, i)
<1> DEFINE K == Len(ring_keys)
<1>1. K \in Nat
      OBVIOUS
<1> HIDE DEF K
<1>2. PICK f : f = [i \in 0 .. K |-> IF i = 0 THEN 0 ELSE f[i-1] + StretchFor(n, i)]
      BY <1>1, NodeRangeExists
<1>3. NodeRange(n) = [i \in 0 .. K |-> IF i = 0 THEN 0 ELSE NodeRange(n)[i-1] + StretchFor(n, i)]
      BY <1>2 DEF NodeRange, StretchFor, K
<1>4. 0 \in 0 .. K /\ \A i \in 1 .. K : i \in 0 .. K /\ i # 0
      BY <1>1
<1> DEFINE F == NodeRange(n)
<1> HIDE DEF F
<1>5. F = [i \in 0 .. K |-> IF i = 0 THEN 0 ELSE F[i-1] + StretchFor(n, i)]
      BY <1>3 DEF F
<1>6. F[0] = 0
      BY <1>4, <1>5
<1>7. \A i \in 1 .. K : F[i] = F[i-1] + StretchFor(n, i)
      BY <1>4, <1>5
<1> QED BY <1>6, <1>7 DEF F, K

(* After each round node_ranges[n] counts the hashes that get_node answers  *)
(* with n at one of the positions so far: otherwise look at the first round *)
(* after which it does not.                                                 *)
LEMMA RangesCountHashes ==
  ASSUME RingInv, InSpace, NEW n
  PROVE  \A i \in 0 .. Len(ring_keys) :
           LET far == {h \in HashValue : /\ StartIndex(ring_keys, h) <= i
                                         /\ GetNode(ring_keys, ring_map, h) = n}
           IN  IsFiniteSet(far) /\ Cardinality(far) = NodeRange(n)[i]
<1> DEFINE L == Len(ring_keys)
           at(h) == StartIndex(ring_keys, h)
           owner(i) == ring_map[ring_keys[i]]
           far(i) == {h \in HashValue : at(h) <= i /\ GetNode(ring_keys, ring_map, h) = n}
           F == NodeRange(n)
           Counted(i) == IsFiniteSet(far(i)) /\ Cardinality(far(i)) = F[i]
           bad == {i \in 0 .. L : ~ Counted(i)}
<1>1. L \in Nat
      BY RingParts, ListShape
<1>2. /\ F[0] = 0
      /\ \A i \in 1 .. L : F[i] = F[i-1] + IF owner(i) = n THEN Stretch(i) ELSE 0
      BY <1>1, NodeRangeRounds DEF StretchFor
<1>3. \A h \in HashValue : at(h) \in Nat /\ at(h) >= 1
  <2> SUFFICES ASSUME NEW h \in HashValue PROVE at(h) \in Nat /\ at(h) >= 1
      OBVIOUS
  <2>1. h \in Nat
        BY RingAssumption DEF HashValue
  <2>2. BisectRight(ring_keys, h) \in Nat
        BY <2>1, RingParts, BisectRightSplits
  <2> QED BY <2>2 DEF StartIndex
<1>4. \A i \in 1 .. L : /\ Stretch(i) \in Nat
                        /\ IsFiniteSet(Served(i)) /\ Cardinality(Served(i)) = Stretch(i)
      BY StretchIsServed
<1>5. \A i : Served(i) = {h \in HashValue : at(h) = i}
      BY DEF Served
<1>6. \A h \in HashValue : GetNode(ring_keys, ring_map, h) = owner(at(h))
      BY DEF GetNode
<1>7. \A i : far(i) = {h \in HashValue : at(h) <= i /\ owner(at(h)) = n}
      BY <1>6
<1>8. \A i \in 0 .. L : Counted(i) <=> IsFiniteSet(far(i)) /\ Cardinality(far(i)) = F[i]
      OBVIOUS
<1> HIDE DEF L, at, owner, far, F, Counted
<1>9. Counted(0)
  <2>1. far(0) = {}
        BY <1>3, <1>7
  <2>2. 0 \in 0 .. L
        BY <1>1
  <2> QED BY <1>2, <1>8, <2>1, <2>2, FS_EmptySet
<1>10. ASSUME NEW m \in 1 .. L, Counted(m - 1)
       PROVE  Counted(m)
  <2>1. m \in 0 .. L /\ m - 1 \in 0 .. L /\ m \in Nat /\ m - 1 \in Nat
        BY <1>1
  <2>2. IsFiniteSet(far(m - 1)) /\ Cardinality(far(m - 1)) = F[m - 1]
        BY <1>8, <1>10, <2>1
  <2>3. \A h \in HashValue : at(h) <= m <=> at(h) <= m - 1 \/ at(h) = m
        BY <1>3, <2>1
  <2>4. \A h \in HashValue : ~(at(h) <= m - 1 /\ at(h) = m)
        BY <1>3, <2>1
  <2>5. CASE owner(m) = n
    <3>1. far(m) = far(m - 1) \union Served(m)
          BY <1>5, <1>7, <2>3, <2>5
    <3>2. far(m - 1) \intersect Served(m) = {}
          BY <1>5, <1>7, <2>4
    <3>3. IsFiniteSet(Served(m)) /\ Cardinality(Served(m)) = Stretch(m) /\ Stretch(m) \in Nat
          BY <1>4
    <3>4. Cardinality(far(m - 1)) \in Nat
          BY <2>2, FS_CardinalityType
    <3>5. IsFiniteSet(far(m)) /\ Cardinality(far(m)) = F[m - 1] + Stretch(m) - 0
          BY <2>2, <3>1, <3>2, <3>3, FS_Union, FS_EmptySet
    <3>6. F[m] = F[m - 1] + Stretch(m)
          BY <1>2, <2>5
    <3>7. Cardinality(far(m)) = F[m]
          BY <2>2, <3>3, <3>4, <3>5, <3>6
    <3> QED BY <1>8, <2>1, <3>5, <3>7
  <2>6. CASE owner(m) # n
    <3>1. far(m) = far(m - 1)
          BY <1>7, <2>3, <2>6
    <3>2. Cardinality(far(m - 1)) \in Nat
          BY <2>2, FS_CardinalityType
    <3>3. F[m] = F[m - 1] + 0
          BY <1>2, <2>6
    <3>4. F[m] = F[m - 1]
          BY <2>2, <3>2, <3>3
    <3> QED BY <1>8, <2>1, <2>2, <3>1, <3>4
  <2> QED BY <2>5, <2>6
<1>11. bad = {}
  <2> SUFFICES ASSUME bad # {} PROVE FALSE
      OBVIOUS
  <2>1. bad \in SUBSET Nat
        BY <1>1
  <2>2. \A i \in 0 .. L : i \in bad <=> ~ Counted(i)
        OBVIOUS
  <2>3. bad \subseteq 0 .. L
        OBVIOUS
  <2> HIDE DEF bad
  <2>4. PICK m \in bad : \A k \in bad : m <= k
        BY <2>1, LeastExists
  <2>5. m \in 1 .. L
        BY <1>1, <1>9, <2>2, <2>3, <2>4
  <2>6. m - 1 \in 0 .. L /\ m - 1 < m
        BY <1>1, <2>5
  <2>7. m - 1 \notin bad
        BY <2>4, <2>5, <2>6
  <2>8. Counted(m - 1)
        BY <2>2, <2>6, <2>7
  <2> QED BY <1>10, <2>2, <2>3, <2>4, <2>5, <2>8
<1>12. \A i \in 0 .. L : IsFiniteSet(far(i)) /\ Cardinality(far(i)) = F[i]
       BY <1>8, <1>11
<1> QED BY <1>12 DEF L, at, far, F

(* compute_load_distribution gives a node the part of the hash space whose  *)
(* keys get_node sends there (consistent_hash.py:216-235).                  *)
LEMMA SharesFound == RingInv => ShareIsOwnership
<1> SUFFICES ASSUME RingInv, ring_keys # <<>>, InSpace, NEW n \in DOMAIN nodes
             PROVE  Share(n)
                      = Cardinality({h \in HashValue : GetNode(ring_keys, ring_map, h) = n})
    BY DEF ShareIsOwnership
<1> DEFINE L == Len(ring_keys)
           far == {h \in HashValue : /\ StartIndex(ring_keys, h) <= L
                                     /\ GetNode(ring_keys, ring_map, h) = n}
<1>1. ring_keys \in Lists /\ ring_keys \in Seq(Nat)
      BY RingParts DEF Lists
<1>2. L \in Nat /\ L # 0
      BY <1>1, EmptySeq, LenProperties
<1>3. \A h \in HashValue : StartIndex(ring_keys, h) <= L
  <2> SUFFICES ASSUME NEW h \in HashValue PROVE StartIndex(ring_keys, h) <= L
      OBVIOUS
  <2>1. h \in Nat
        BY RingAssumption DEF HashValue
  <2>2. BisectRight(ring_keys, h) \in Nat /\ BisectRight(ring_keys, h) <= L
        BY <1>1, <2>1, BisectRightSplits
  <2> QED BY <1>2, <2>2 DEF StartIndex
<1>4. far = {h \in HashValue : GetNode(ring_keys, ring_map, h) = n}
      BY <1>3
<1>5. L \in 0 .. L
      BY <1>2
<1>6. Cardinality(far) = NodeRange(n)[L]
      BY <1>5, RangesCountHashes
<1> HIDE DEF far
<1> QED BY <1>4, <1>6 DEF Share

(* The share the load distribution gives a node is the part of the hash     *)
(* space whose keys get_node sends there, after any additions and removals  *)
(* that kept probing within one position of the hash space                  *)
(* (consistent_hash.py:170-178, 216-235).                                   *)
THEOREM SharesAreOwnership == Spec => []ShareIsOwnership
BY RingInit, RingNext, SharesFound, PTL DEF Spec

-----------------------------------------------------------------------------
(* compute_rebalance_plan.  The order in which the weights are added up.    *)
FirstOf(s) == CHOOSE n \in s : TRUE

(* A product of a sum.                                                      *)
LEMMA Distributes ==
  ASSUME NEW x \in Int, NEW y \in Int, NEW z \in Int
  PROVE  x * (y + z) = x * y + x * z /\ x * y \in Int
OBVIOUS

(* One member less, and the size is one less.                               *)
LEMMA WithoutOne ==
  ASSUME NEW s, IsFiniteSet(s), s # {}
  PROVE  /\ FirstOf(s) \in s /\ IsFiniteSet(s \ {FirstOf(s)})
         /\ Cardinality(s) \in Nat /\ Cardinality(s \ {FirstOf(s)}) \in Nat
         /\ Cardinality(s) = Cardinality(s \ {FirstOf(s)}) + 1
<1>1. FirstOf(s) \in s
      BY DEF FirstOf
<1>2. /\ IsFiniteSet(s \ {FirstOf(s)})
      /\ Cardinality(s \ {FirstOf(s)}) = Cardinality(s) - 1
      BY <1>1, FS_RemoveElement
<1>3. Cardinality(s) \in Nat /\ Cardinality(s \ {FirstOf(s)}) \in Nat
      BY <1>2, FS_CardinalityType
<1> QED BY <1>1, <1>2, <1>3

(* The sums of weights over the sets of online nodes exist.                 *)
LEMMA WeightSumExists ==
  ASSUME NEW on, IsFiniteSet(on)
  PROVE  \E f : f = [s \in SUBSET on |-> IF s = {} THEN 0
                                         ELSE nodes[FirstOf(s)] + f[s \ {FirstOf(s)}]]
<1> DEFINE K == Cardinality(on)
           Small(k) == {s \in SUBSET on : Cardinality(s) <= k}
           Sums(f, k) == f = [s \in Small(k) |-> IF s = {} THEN 0
                                                ELSE nodes[FirstOf(s)] + f[s \ {FirstOf(s)}]]
           bad == {k \in 0 .. K : ~ \E f : Sums(f, k)}
<1>1. K \in Nat /\ Small(K) = SUBSET on
  <2>1. \A s \in SUBSET on : Cardinality(s) <= K
        BY FS_Subset
  <2> QED BY <2>1, FS_CardinalityType
<1>2. \A s \in SUBSET on : IsFiniteSet(s) /\ Cardinality(s) \in Nat
      BY FS_Subset, FS_CardinalityType
<1>3. \A s \in SUBSET on : s # {} =>
        /\ s \ {FirstOf(s)} \in SUBSET on
        /\ Cardinality(s) = Cardinality(s \ {FirstOf(s)}) + 1
      BY <1>2, WithoutOne
<1> HIDE DEF K
<1> SUFFICES ASSUME bad # {} PROVE FALSE
  <2>1. K \in 0 .. K
        BY <1>1
  <2>2. PICK f : Sums(f, K)
        BY <2>1
  <2> QED BY <1>1, <2>2
<1>4. PICK m \in bad : \A k \in bad : m <= k
  <2>1. bad \in SUBSET Nat
        BY <1>1
  <2> HIDE DEF bad
  <2> QED BY <2>1, LeastExists
<1>5. m \in 0 .. K
      OBVIOUS
<1>6. m # 0
  <2> SUFFICES ASSUME m = 0 PROVE FALSE
      OBVIOUS
  <2>1. \A s \in Small(0) : s = {}
        BY <1>2, FS_EmptySet
  <2> DEFINE g == [s \in Small(0) |-> 0]
  <2>2. Sums(g, 0)
        BY <2>1
  <2> QED BY <2>2
<1>7. m - 1 \in 0 .. K /\ m - 1 < m
      BY <1>1, <1>5, <1>6
<1>8. m - 1 \notin bad
  <2> HIDE DEF bad
  <2> QED BY <1>4, <1>5, <1>7
<1>9. PICK f : Sums(f, m - 1)
      BY <1>7, <1>8
<1> DEFINE g == [s \in Small(m) |-> IF s = {} THEN 0
                                    ELSE nodes[FirstOf(s)] + f[s \ {FirstOf(s)}]]
<1>10. ASSUME NEW s \in Small(m), s # {}
       PROVE  g[s \ {FirstOf(s)}] = f[s \ {FirstOf(s)}]
  <2> DEFINE t == s \ {FirstOf(s)}
  <2>1. t \in SUBSET on /\ Cardinality(s) = Cardinality(t) + 1 /\ Cardinality(t) \in Nat
        BY <1>2, <1>3, <1>10
  <2>2. Cardinality(t) <= m - 1 /\ Cardinality(t) <= m
        BY <1>1, <1>5, <2>1
  <2> HIDE DEF t
  <2>3. t \in Small(m - 1) /\ t \in Small(m)
        BY <2>1, <2>2
  <2> HIDE DEF Small
  <2>4. f[t] = IF t = {} THEN 0 ELSE nodes[FirstOf(t)] + f[t \ {FirstOf(t)}]
        BY <1>9, <2>3
  <2>5. g[t] = IF t = {} THEN 0 ELSE nodes[FirstOf(t)] + f[t \ {FirstOf(t)}]
        BY <2>3
  <2> QED BY <2>4, <2>5 DEF t
<1>11. Sums(g, m)
  <2>1. \A s \in Small(m) :
          (IF s = {} THEN 0 ELSE nodes[FirstOf(s)] + f[s \ {FirstOf(s)}])
            = IF s = {} THEN 0 ELSE nodes[FirstOf(s)] + g[s \ {FirstOf(s)}]
        BY <1>10
  <2> HIDE DEF Small
  <2>2. [s \in Small(m) |-> IF s = {} THEN 0 ELSE nodes[FirstOf(s)] + f[s \ {FirstOf(s)}]]
          = [s \in Small(m) |-> IF s = {} THEN 0 ELSE nodes[FirstOf(s)] + g[s \ {FirstOf(s)}]]
        BY <2>1
  <2> QED BY <2>2
<1> QED BY <1>4, <1>11

(* So the total weight is a sum in which each node counts once.             *)
LEMMA TotalAddsUp ==
  ASSUME NEW on, IsFiniteSet(on)
  PROVE  \E sum : /\ sum[{}] = 0
                  /\ \A s \in SUBSET on : s # {} =>
                       sum[s] = nodes[FirstOf(s)] + sum[s \ {FirstOf(s)}]
                  /\ TotalWeight(on) = sum[on]
<1>1. PICK f : f = [s \in SUBSET on |-> IF s = {} THEN 0
                                        ELSE nodes[FirstOf(s)] + f[s \ {FirstOf(s)}]]
      BY WeightSumExists
<1> DEFINE iter == CHOOSE g : g = [s \in SUBSET on |-> IF s = {} THEN 0
                                         ELSE nodes[FirstOf(s)] + g[s \ {FirstOf(s)}]]
<1>2. iter = [s \in SUBSET on |-> IF s = {} THEN 0
                                  ELSE nodes[FirstOf(s)] + iter[s \ {FirstOf(s)}]]
      BY <1>1
<1>3. TotalWeight(on) = iter[on]
      BY DEF TotalWeight, MapThenSumSet, MapThenFoldSet, FirstOf
<1> HIDE DEF iter
<1>4. {} \in SUBSET on
      OBVIOUS
<1>5. iter[{}] = 0
      BY <1>2, <1>4
<1>6. \A s \in SUBSET on : s # {} => iter[s] = nodes[FirstOf(s)] + iter[s \ {FirstOf(s)}]
      BY <1>2
<1> QED BY <1>3, <1>5, <1>6

(* Among sets of online nodes there is one that is empty or would not be    *)
(* among them with one node less.                                           *)
LEMMA LeastSet ==
  ASSUME NEW on, IsFiniteSet(on), NEW bad \in SUBSET (SUBSET on), bad # {}
  PROVE  \E s \in bad : s = {} \/ s \ {FirstOf(s)} \notin bad
<1> DEFINE sizes == {Cardinality(s) : s \in bad}
<1>1. \A s \in bad : IsFiniteSet(s) /\ Cardinality(s) \in Nat
      BY FS_Subset, FS_CardinalityType
<1>2. sizes \in SUBSET Nat /\ sizes # {}
      BY <1>1
<1>3. PICK k \in sizes : \A j \in sizes : k <= j
  <2> HIDE DEF sizes
  <2> QED BY <1>2, LeastExists
<1>4. PICK s \in bad : k = Cardinality(s)
      OBVIOUS
<1>5. ASSUME s # {}, s \ {FirstOf(s)} \in bad
      PROVE  FALSE
  <2>1. Cardinality(s) = Cardinality(s \ {FirstOf(s)}) + 1
        BY <1>1, <1>5, WithoutOne
  <2>2. Cardinality(s \ {FirstOf(s)}) \in Nat
        BY <1>1, <1>5
  <2>3. Cardinality(s) <= Cardinality(s \ {FirstOf(s)})
        BY <1>3, <1>4, <1>5
  <2> QED BY <2>1, <2>2, <2>3
<1> QED BY <1>5

(* What the plan reckons with are natural numbers.                          *)
LEMMA FiguresAreNumbers ==
  ASSUME RingInv, ring_keys # <<>>, InSpace,
         NEW on \in SUBSET DOMAIN node_vnodes, IsFiniteSet(on)
  PROVE  /\ TotalWeight(on) \in Nat /\ Whole(on) \in Nat
         /\ \A n \in on : /\ nodes[n] \in Nat /\ Share(n) \in Nat
                          /\ Actual(n, on) \in Nat /\ Expected(n, on) \in Nat
                          /\ Deficit(n, on) \in Int
<1>1. Space \in Nat /\ SkewThreshold \in Nat
      BY RingAssumption
<1>2. ASSUME NEW n \in on
      PROVE  nodes[n] \in Nat
  <2>1. n \in DOMAIN nodes /\ nodes[n] # BadWeight /\ n \in Node
        BY RingParts DEF TypeOK
  <2>2. nodes[n] \in Weights[n] /\ Weights[n] \in SUBSET (0 .. MaxWeight)
        BY <2>1, RingParts, RingAssumption DEF TypeOK
  <2> QED BY <2>2, RingAssumption
<1>3. ASSUME NEW n \in on
      PROVE  Share(n) \in Nat
  <2> DEFINE own == {h \in HashValue : GetNode(ring_keys, ring_map, h) = n}
  <2>1. n \in DOMAIN nodes
        BY RingParts
  <2>2. Share(n) = Cardinality(own)
        BY <2>1, SharesFound DEF ShareIsOwnership
  <2>3. IsFiniteSet(HashValue)
        BY <1>1, FS_Interval DEF HashValue
  <2>4. IsFiniteSet(own)
        BY <2>3, FS_Subset
  <2> QED BY <2>2, <2>4, FS_CardinalityType
<1>4. TotalWeight(on) \in Nat
  <2>1. PICK sum : /\ sum[{}] = 0
                   /\ \A s \in SUBSET on : s # {} =>
                        sum[s] = nodes[FirstOf(s)] + sum[s \ {FirstOf(s)}]
                   /\ TotalWeight(on) = sum[on]
        BY TotalAddsUp
  <2> DEFINE bad == {s \in SUBSET on : sum[s] \notin Nat}
  <2>2. bad = {}
    <3> SUFFICES ASSUME bad # {} PROVE FALSE
        OBVIOUS
    <3>1. bad \in SUBSET (SUBSET on) /\ \A s \in SUBSET on : s \in bad <=> sum[s] \notin Nat
          OBVIOUS
    <3> HIDE DEF bad
    <3>2. PICK s \in bad : s = {} \/ s \ {FirstOf(s)} \notin bad
          BY <3>1, LeastSet
    <3>3. s # {} /\ s \in SUBSET on
      <4>1. sum[{}] \in Nat
            BY <2>1
      <4>2. s \in SUBSET on /\ sum[s] \notin Nat
            BY <3>1
      <4> QED BY <4>1, <4>2
    <3>4. FirstOf(s) \in on /\ s \ {FirstOf(s)} \in SUBSET on
          BY <3>3 DEF FirstOf
    <3>5. nodes[FirstOf(s)] \in Nat
          BY <1>2, <3>4
    <3>6. sum[s \ {FirstOf(s)}] \in Nat
          BY <3>1, <3>2, <3>3, <3>4
    <3>7. sum[s] = nodes[FirstOf(s)] + sum[s \ {FirstOf(s)}]
          BY <2>1, <3>3
    <3>8. sum[s] \in Nat
          BY <3>5, <3>6, <3>7
    <3> QED BY <3>1, <3>8
  <2>3. on \in SUBSET on
        OBVIOUS
  <2> QED BY <2>1, <2>2, <2>3
<1>5. Whole(on) \in Nat
      BY <1>1, <1>4 DEF Whole
<1>6. ASSUME NEW n \in on
      PROVE  Actual(n, on) \in Nat /\ Expected(n, on) \in Nat /\ Deficit(n, on) \in Int
      BY <1>1, <1>2, <1>3, <1>4, <1>6 DEF Actual, Expected, Deficit
<1> QED BY <1>2, <1>3, <1>4, <1>5, <1>6

(* If all the online nodes lack no more than goes unnoticed, none of them   *)
(* can have more than its share by a threshold that shows: their weights    *)
(* add up to the whole, and their shares to no more than the hash space.    *)
LEMMA SomeoneLacks ==
  ASSUME RingInv, ring_keys # <<>>, InSpace,
         NEW on \in SUBSET DOMAIN node_vnodes, IsFiniteSet(on),
         NEW n \in on, Overloaded(n, on), ThresholdShows(n, on)
  PROVE  Underloaded(on) # {}
<1> SUFFICES ASSUME Underloaded(on) = {} PROVE FALSE
    OBVIOUS
<1> DEFINE W == TotalWeight(on)
           e == Epsilon * Whole(on)
           k == SkewThreshold * Expected(n, on)
           owned(s) == {h \in HashValue : GetNode(ring_keys, ring_map, h) \in s}
           C(s) == Cardinality(owned(s))
<1>1. PICK sum : /\ sum[{}] = 0
                 /\ \A s \in SUBSET on : s # {} =>
                      sum[s] = nodes[FirstOf(s)] + sum[s \ {FirstOf(s)}]
                 /\ W = sum[on]
      BY TotalAddsUp
<1>2. /\ Space \in Nat /\ W \in Nat /\ e \in Nat /\ k \in Nat /\ Whole(on) \in Nat
      /\ \A m \in on : nodes[m] \in Nat /\ Share(m) \in Nat /\ Deficit(m, on) \in Int
      /\ Actual(n, on) \in Nat /\ Expected(n, on) \in Nat
  <2>1. /\ W \in Nat /\ Whole(on) \in Nat /\ Expected(n, on) \in Nat
        BY FiguresAreNumbers
  <2>2. Epsilon \in Nat /\ SkewThreshold \in Nat /\ Space \in Nat
        BY RingAssumption
  <2>3. e \in Nat /\ k \in Nat
        BY <2>1, <2>2
  <2> QED BY <2>1, <2>2, <2>3, FiguresAreNumbers
<1>3. \A m \in on : Deficit(m, on) = Space * nodes[m] - W * Share(m)
  <2> SUFFICES ASSUME NEW m \in on
               PROVE  Deficit(m, on) = Space * nodes[m] - W * Share(m)
      OBVIOUS
  <2>1. Deficit(m, on) = nodes[m] * Space - Share(m) * W
        BY DEF Deficit, Expected, Actual
  <2>2. nodes[m] * Space = Space * nodes[m] /\ Share(m) * W = W * Share(m)
        BY <1>2
  <2> QED BY <2>1, <2>2
<1>4. \A m \in on : 1000 * Deficit(m, on) <= e
      BY <1>2 DEF Underloaded
<1>5. 1000 * Deficit(n, on) + k + 1 <= 0
  <2>1. 1000 * (Actual(n, on) - Expected(n, on)) > k
        BY DEF Overloaded
  <2>2. Deficit(n, on) = Expected(n, on) - Actual(n, on)
        BY DEF Deficit
  <2>3. PICK x \in Int, y \in Int : x = Expected(n, on) /\ y = Actual(n, on)
        BY <1>2
  <2>4. 1000 * (y - x) > k => 1000 * (x - y) + k + 1 <= 0
        BY <1>2
  <2> QED BY <2>1, <2>2, <2>3, <2>4
<1>6. IsFiniteSet(HashValue) /\ Cardinality(HashValue) = Space
      BY RingAssumption, SpanSize DEF HashValue
<1>7. \A s : IsFiniteSet(owned(s)) /\ C(s) \in Nat /\ C(s) <= Space
      BY <1>6, FS_Subset, FS_CardinalityType
<1>7a. ASSUME NEW s \in SUBSET on, s # {}
       PROVE  /\ FirstOf(s) \in s
              /\ Cardinality(s) \in Nat /\ Cardinality(s \ {FirstOf(s)}) \in Nat
              /\ Cardinality(s) = Cardinality(s \ {FirstOf(s)}) + 1
  <2>1. IsFiniteSet(s)
        BY FS_Subset
  <2> QED BY <1>7a, <2>1, WithoutOne
<1>8. ASSUME NEW s, NEW x \in s, x \in on
      PROVE  C(s) = Share(x) + C(s \ {x})
  <2> DEFINE own == {h \in HashValue : GetNode(ring_keys, ring_map, h) = x}
  <2>1. Share(x) = Cardinality(own)
    <3>1. x \in DOMAIN nodes
          BY <1>8, RingParts
    <3> QED BY <3>1, SharesFound DEF ShareIsOwnership
  <2>2. IsFiniteSet(own)
        BY <1>6, FS_Subset
  <2>3. owned(s) = own \union owned(s \ {x}) /\ own \intersect owned(s \ {x}) = {}
        OBVIOUS
  <2>4. Share(x) \in Nat /\ C(s \ {x}) \in Nat /\ IsFiniteSet(owned(s \ {x}))
        BY <1>2, <1>7, <1>8
  <2> HIDE DEF own, owned
  <2>5. Cardinality(own \union owned(s \ {x}))
          = Cardinality(own) + Cardinality(owned(s \ {x})) - Cardinality({})
        BY <2>2, <2>3, <2>4, FS_Union
  <2>6. C(s) = Share(x) + C(s \ {x}) - 0
        BY <2>1, <2>3, <2>5, FS_EmptySet
  <2> QED BY <2>4, <2>6
<1> DEFINE Lack(s) == 1000 * (Space * sum[s] - W * C(s))
           Known(s) == /\ sum[s] \in Nat
                       /\ Lack(s) + (IF n \in s THEN k + 1 ELSE 0) <= Cardinality(s) * e
           bad == {s \in SUBSET on : ~ Known(s)}
<1> HIDE DEF W, e, k, C, owned
<1>9. Known({})
  <2>1. C({}) = 0
    <3>1. owned({}) = {}
          BY DEF owned
    <3> QED BY <3>1, FS_EmptySet DEF C
  <2>2. Lack({}) = 0
        BY <1>1, <1>2, <2>1
  <2>3. Cardinality({}) * e = 0
        BY <1>2, FS_EmptySet
  <2> QED BY <1>1, <2>2, <2>3
<1>10. ASSUME NEW s \in SUBSET on, s # {}, Known(s \ {FirstOf(s)})
       PROVE  Known(s)
  <2> DEFINE x == FirstOf(s)
             t == s \ {FirstOf(s)}
  <2>1. /\ x \in s /\ x \in on /\ x \notin t /\ \A m : m # x => (m \in s <=> m \in t)
        /\ Cardinality(s) \in Nat /\ Cardinality(t) \in Nat /\ Cardinality(s) = Cardinality(t) + 1
    <3> HIDE DEF Known, Lack, bad, x, t
    <3>1. s # {}
          BY <1>10
    <3>2. /\ FirstOf(s) \in s
          /\ Cardinality(s) \in Nat /\ Cardinality(s \ {FirstOf(s)}) \in Nat
          /\ Cardinality(s) = Cardinality(s \ {FirstOf(s)}) + 1
          BY <1>7a, <3>1
    <3> QED BY <3>2 DEF x, t
  <2>2. sum[s] = nodes[x] + sum[t]
        BY <1>1, <1>10
  <2>3. C(s) = Share(x) + C(t)
        BY <1>8, <2>1
  <2>4. sum[t] \in Nat /\ Lack(t) + (IF n \in t THEN k + 1 ELSE 0) <= Cardinality(t) * e
        BY <1>10
  <2>5. nodes[x] \in Nat /\ Share(x) \in Nat /\ C(t) \in Nat /\ Deficit(x, on) \in Int
        BY <1>2, <1>7, <2>1
  <2>6. Deficit(x, on) = Space * nodes[x] - W * Share(x) /\ 1000 * Deficit(x, on) <= e
        BY <1>3, <1>4, <2>1
  <2>7. x = n => 1000 * Deficit(x, on) + k + 1 <= 0
        BY <1>5
  <2> HIDE DEF x, t, Lack
  <2>8. Lack(s) = 1000 * Deficit(x, on) + Lack(t) /\ Lack(t) \in Int
    <3>1. Space * sum[s] = Space * nodes[x] + Space * sum[t] /\ Space * sum[t] \in Int
      <4>1. Space \in Int /\ nodes[x] \in Int /\ sum[t] \in Int
            BY <1>2, <2>4, <2>5
      <4>2. /\ Space * (nodes[x] + sum[t]) = Space * nodes[x] + Space * sum[t]
            /\ Space * sum[t] \in Int
            BY <4>1, Distributes
      <4> QED BY <2>2, <4>2
    <3>2. W * C(s) = W * Share(x) + W * C(t) /\ W * C(t) \in Int
      <4>1. W \in Int /\ Share(x) \in Int /\ C(t) \in Int
            BY <1>2, <2>5
      <4>2. /\ W * (Share(x) + C(t)) = W * Share(x) + W * C(t)
            /\ W * C(t) \in Int
            BY <4>1, Distributes
      <4> QED BY <2>3, <4>2
    <3>3. Space * nodes[x] \in Int /\ W * Share(x) \in Int
          BY <1>2, <2>5
    <3> QED BY <2>6, <3>1, <3>2, <3>3 DEF Lack
  <2>9. Cardinality(s) * e = Cardinality(t) * e + e /\ Cardinality(t) * e \in Int
    <3>1. PICK c \in Nat : c = Cardinality(t) /\ Cardinality(s) = c + 1
          BY <2>1
    <3>2. (c + 1) * e = c * e + e /\ c * e \in Int
          BY <1>2
    <3> QED BY <3>1, <3>2
  <2>10. Lack(s) + (IF n \in s THEN k + 1 ELSE 0) <= Cardinality(s) * e
    <3>1. PICK l \in Int, d \in Int, c \in Int :
            /\ l = Lack(t) /\ d = 1000 * Deficit(x, on) /\ c = Cardinality(t) * e
          BY <2>5, <2>8, <2>9
    <3>2. Lack(s) = d + l /\ Cardinality(s) * e = c + e
          BY <2>8, <2>9, <3>1
    <3>3. CASE x = n
      <4>1. n \in s /\ n \notin t
            BY <2>1, <3>3
      <4>2. l + 0 <= c /\ d + k + 1 <= 0
            BY <2>4, <2>7, <3>1, <3>3, <4>1
      <4>3. d + l + (k + 1) <= c + e
            BY <1>2, <4>2
      <4> QED BY <3>2, <4>1, <4>3
    <3>4. CASE x # n
      <4>1. n \in s <=> n \in t
            BY <2>1, <3>4
      <4>2. PICK b \in Int : b = IF n \in s THEN k + 1 ELSE 0
            BY <1>2
      <4>3. l + b <= c /\ d <= e
            BY <2>4, <2>6, <3>1, <4>1, <4>2
      <4>4. d + l + b <= c + e
            BY <1>2, <4>3
      <4> QED BY <3>2, <4>2, <4>4
    <3> QED BY <3>3, <3>4
  <2>11. sum[s] \in Nat
         BY <2>2, <2>4, <2>5
  <2> QED BY <2>10, <2>11
<1>11. bad = {}
  <2> SUFFICES ASSUME bad # {} PROVE FALSE
      OBVIOUS
  <2> HIDE DEF Known
  <2>1. bad \in SUBSET (SUBSET on) /\ \A s \in SUBSET on : s \in bad <=> ~ Known(s)
        OBVIOUS
  <2> HIDE DEF bad
  <2>2. PICK s \in bad : s = {} \/ s \ {FirstOf(s)} \notin bad
        BY <2>1, LeastSet
  <2>3. s \in SUBSET on /\ s \ {FirstOf(s)} \in SUBSET on
        BY <2>1
  <2> QED BY <1>9, <1>10, <2>1, <2>2, <2>3
<1>12. Known(on)
  <2> HIDE DEF Known
  <2>1. on \in SUBSET on
        OBVIOUS
  <2> QED BY <1>11, <2>1
<1>13. Lack(on) >= 0 /\ Lack(on) \in Int
  <2>1. C(on) \in Nat /\ C(on) <= Space
        BY <1>7
  <2>2. PICK d \in Nat : Space = C(on) + d
    <3>1. Space - C(on) \in Nat /\ Space = C(on) + (Space - C(on))
          BY <1>2, <2>1
    <3> QED BY <3>1
  <2>3. W * Space = W * C(on) + W * d /\ W * C(on) \in Int
        BY <1>2, <2>1, <2>2, Distributes
  <2>4. W * d \in Nat /\ Space * W = W * Space
        BY <1>2, <2>2
  <2> QED BY <1>1, <2>3, <2>4
<1>14. Cardinality(on) * e <= k
       BY DEF ThresholdShows, e, k
<1> HIDE DEF Lack
<1>15. Lack(on) + (k + 1) <= Cardinality(on) * e
       BY <1>12
<1>16. Cardinality(on) * e \in Int
       BY <1>2, FS_CardinalityType
<1> QED BY <1>2, <1>13, <1>14, <1>15, <1>16

(* Sequences of sequences can be joined, from the first one on.             *)
LEMMA FlattenExists ==
  ASSUME NEW seqs, NEW K \in Nat, K # 0
  PROVE  \E f : f = [i \in 1 .. K |-> IF i = 1 THEN seqs[i] ELSE f[i-1] \o seqs[i]]
<1> DEFINE Joins(f, k) == f = [i \in 1 .. k |-> IF i = 1 THEN seqs[i] ELSE f[i-1] \o seqs[i]]
           bad == {k \in 1 .. K : ~ \E f : Joins(f, k)}
<1> SUFFICES ASSUME bad # {} PROVE FALSE
  <2>1. K \in 1 .. K
        OBVIOUS
  <2> QED BY <2>1
<1>1. PICK m \in bad : \A k \in bad : m <= k
  <2>1. bad \in SUBSET Nat
    <3>1. \A k \in 1 .. K : k \in Nat
          OBVIOUS
    <3>2. bad \subseteq 1 .. K
          OBVIOUS
    <3> HIDE DEF bad
    <3> QED BY <3>1, <3>2
  <2> HIDE DEF bad
  <2> QED BY <2>1, LeastExists
<1>2. m \in 1 .. K
      OBVIOUS
<1>3. m # 1
  <2> SUFFICES ASSUME m = 1 PROVE FALSE
      OBVIOUS
  <2> DEFINE g == [i \in 1 .. 1 |-> seqs[i]]
  <2>1. Joins(g, 1)
        OBVIOUS
  <2> QED BY <2>1
<1>4. m - 1 \in 1 .. K /\ m - 1 < m
      BY <1>2, <1>3
<1>5. m - 1 \notin bad
  <2> HIDE DEF bad
  <2> QED BY <1>1, <1>2, <1>4
<1>6. PICK f : Joins(f, m - 1)
      BY <1>4, <1>5
<1> DEFINE g == [i \in 1 .. m |-> IF i = m THEN f[m-1] \o seqs[m] ELSE f[i]]
<1>7. ASSUME NEW i \in 1 .. m
      PROVE  g[i] = IF i = 1 THEN seqs[i] ELSE g[i-1] \o seqs[i]
  <2>1. CASE i = m
    <3>1. m - 1 \in 1 .. m /\ m - 1 # m
          BY <1>2, <1>3
    <3>2. g[m-1] = f[m-1]
          BY <3>1
    <3> QED BY <1>2, <1>3, <2>1, <3>2
  <2>2. CASE i # m
    <3>1. i \in 1 .. m - 1
          BY <1>2, <2>2
    <3>2. f[i] = IF i = 1 THEN seqs[i] ELSE f[i-1] \o seqs[i]
          BY <1>6, <3>1
    <3>3. g[i] = f[i]
          BY <2>2
    <3>4. i # 1 => g[i-1] = f[i-1]
      <4>1. i # 1 => i - 1 \in 1 .. m /\ i - 1 # m
            BY <1>2, <2>2
      <4> QED BY <4>1
    <3> HIDE DEF g
    <3> QED BY <3>2, <3>3, <3>4
  <2> QED BY <2>1, <2>2
<1>8. Joins(g, m)
  <2>1. g = [i \in 1 .. m |-> g[i]]
        OBVIOUS
  <2>2. [i \in 1 .. m |-> g[i]] = [i \in 1 .. m |-> IF i = 1 THEN seqs[i] ELSE g[i-1] \o seqs[i]]
        BY <1>7
  <2> HIDE DEF g
  <2> QED BY <2>1, <2>2
<1> QED BY <1>1, <1>8

(* Sequences that are not empty, one after the other, are a sequence that   *)
(* is not empty either, over the same set.                                  *)
LEMMA FlattenKeeps ==
  ASSUME NEW T, NEW seqs \in Seq(Seq(T)), Len(seqs) # 0,
         \A i \in 1 .. Len(seqs) : Len(seqs[i]) # 0
  PROVE  FlattenSeq(seqs) \in Seq(T) /\ Len(FlattenSeq(seqs)) # 0
<1> DEFINE K == Len(seqs)
           F == CHOOSE g : g = [i \in 1 .. K |-> IF i = 1 THEN seqs[i] ELSE g[i-1] \o seqs[i]]
           Fine(s) == s \in Seq(T) /\ Len(s) # 0
           bad == {i \in 1 .. K : ~ Fine(F[i])}
<1>1. K \in Nat \ {0} /\ \A i \in 1 .. K : Fine(seqs[i])
      BY LenProperties, ElementOfSeq
<1>2. FlattenSeq(seqs) = F[K]
      BY <1>1 DEF FlattenSeq
<1> HIDE DEF K
<1>3. F = [i \in 1 .. K |-> IF i = 1 THEN seqs[i] ELSE F[i-1] \o seqs[i]]
  <2>1. PICK f : f = [i \in 1 .. K |-> IF i = 1 THEN seqs[i] ELSE f[i-1] \o seqs[i]]
        BY <1>1, FlattenExists
  <2> QED BY <2>1
<1> HIDE DEF F
<1>4. ASSUME NEW s, NEW t, Fine(s), Fine(t)
      PROVE  Fine(s \o t)
  <2>1. s \o t \in Seq(T) /\ Len(s \o t) = Len(s) + Len(t)
        BY <1>4, ConcatProperties
  <2>2. Len(s) \in Nat /\ Len(t) \in Nat
        BY <1>4, LenProperties
  <2> QED BY <1>4, <2>1, <2>2
<1> HIDE DEF Fine
<1>5. bad = {}
  <2> SUFFICES ASSUME bad # {} PROVE FALSE
      OBVIOUS
  <2>1. bad \in SUBSET Nat /\ \A i : i \in bad <=> i \in 1 .. K /\ ~ Fine(F[i])
        OBVIOUS
  <2> HIDE DEF bad
  <2>2. PICK m \in bad : \A i \in bad : m <= i
        BY <2>1, LeastExists
  <2>3. m \in 1 .. K /\ ~ Fine(F[m])
        BY <2>1
  <2>4. m # 1
    <3> SUFFICES ASSUME m = 1 PROVE FALSE
        OBVIOUS
    <3>1. F[m] = seqs[m]
          BY <1>3, <2>3
    <3> QED BY <1>1, <2>3, <3>1
  <2>5. m - 1 \in 1 .. K /\ m - 1 < m
        BY <1>1, <2>3, <2>4
  <2>6. m - 1 \notin bad
        BY <2>2, <2>3, <2>5
  <2>7. F[m] = F[m-1] \o seqs[m]
        BY <1>3, <2>3, <2>4
  <2>8. Fine(F[m-1]) /\ Fine(seqs[m])
        BY <1>1, <2>1, <2>3, <2>5, <2>6
  <2> QED BY <1>4, <2>3, <2>7, <2>8
<1>6. K \in 1 .. K
      BY <1>1
<1>7. Fine(F[K])
      BY <1>5, <1>6
<1> QED BY <1>2, <1>7 DEF Fine

(* As much as the divisor is divided at least once.                         *)
LEMMA DividedOnce ==
  ASSUME NEW x \in Int, NEW y \in Nat \ {0}
  PROVE  x \div y \in Int /\ (x >= y => x \div y >= 1)
OBVIOUS

(* The larger of two numbers is no less than the first.                     *)
LEMMA MaxOfTwo ==
  ASSUME NEW x \in Int, NEW y \in Int
  PROVE  Max({x, y}) \in Int /\ Max({x, y}) >= x
BY DEF Max

(* The smallest of three.                                                   *)
LEMMA MinOfThree ==
  ASSUME NEW x \in Int, NEW y \in Int, NEW z \in Int
  PROVE  /\ Min({x, y, z}) \in {x, y, z}
         /\ Min({x, y, z}) <= x /\ Min({x, y, z}) <= y /\ Min({x, y, z}) <= z
<1> DEFINE S == {x, y, z}
<1>1. \E m \in S : \A i \in S : m <= i
      OBVIOUS
<1>2. Min(S) \in S /\ \A i \in S : Min(S) <= i
      BY <1>1 DEF Min
<1> QED BY <1>2

(* The plan takes from n something for each of the first targets, and has   *)
(* only the needy for targets.                                              *)
LEMMA PlansForTheNeedy ==
  ASSUME RingInv, ring_keys # <<>>, InSpace,
         NEW on \in SUBSET DOMAIN node_vnodes, IsFiniteSet(on),
         NEW n \in on, Overloaded(n, on), Underloaded(on) # {}, NEW needy \in Neediest(on)
  PROVE  /\ PlansFrom(n, on, needy) # <<>>
         /\ \A i \in DOMAIN PlansFrom(n, on, needy) : PlansFrom(n, on, needy)[i] \in Underloaded(on)
<1> DEFINE U == Underloaded(on)
           W == Whole(on)
           u == Cardinality(U)
           turns(m) == PlansUntilFull(m, on)
           blocks == [i \in 1 .. u |-> [c \in 1 .. turns(needy[i]) |-> needy[i]]]
           targets == FlattenSeq(blocks)
           v == VnodesToMove(n, on)
           held == Len(node_vnodes[n])
           most == Min({v, held, Len(targets)})
<1>1. U \subseteq on /\ IsFiniteSet(U) /\ u \in Nat /\ u # 0
  <2>1. U \subseteq on
        BY DEF Underloaded
  <2>2. IsFiniteSet(U)
        BY <2>1, FS_Subset
  <2> QED BY <2>1, <2>2, FS_CardinalityType, FS_EmptySet
<1>2. needy \in [1 .. u -> U]
      BY DEF Neediest, SetToSeqs
<1>3. /\ Space \in Nat \ {0} /\ Epsilon \in Nat /\ PlanSize \in Nat \ {0}
      /\ TotalWeight(on) \in Nat \ {0} /\ W \in Nat \ {0}
      /\ Share(n) \in Nat \ {0} /\ Actual(n, on) \in Nat \ {0} /\ Expected(n, on) \in Nat
  <2>1. Space \in Nat \ {0} /\ Epsilon \in Nat /\ PlanSize \in Nat \ {0}
        BY RingAssumption
  <2>2. /\ TotalWeight(on) \in Nat /\ Share(n) \in Nat /\ Expected(n, on) \in Nat
        /\ Actual(n, on) \in Nat /\ Actual(n, on) # 0
        BY FiguresAreNumbers DEF Overloaded
  <2>3. TotalWeight(on) # 0 /\ Share(n) # 0
        BY <2>2 DEF Actual
  <2> QED BY <2>1, <2>2, <2>3 DEF Whole
<1>4. ASSUME NEW m \in U
      PROVE  turns(m) \in Nat \ {0}
  <2>1. m \in on /\ 1000 * Deficit(m, on) > Epsilon * W /\ Deficit(m, on) \in Int
        BY <1>4, FiguresAreNumbers DEF Underloaded
  <2>2. PICK x \in Int, y \in Nat \ {0} :
          x = 1000 * Deficit(m, on) - Epsilon * W /\ y = PlanSize * W /\ x >= 1
        BY <1>3, <2>1
  <2>3. turns(m) = (x + y - 1) \div y
        BY <2>2 DEF PlansUntilFull
  <2>4. x + y - 1 \in Int /\ x + y - 1 >= y
        BY <2>2
  <2> QED BY <2>3, <2>4, DividedOnce
<1> HIDE DEF U, W, u, turns
<1>5. blocks \in Seq(Seq(U)) /\ Len(blocks) = u /\ \A i \in 1 .. u : Len(blocks[i]) # 0
  <2>1. ASSUME NEW i \in 1 .. u
        PROVE  blocks[i] \in Seq(U) /\ Len(blocks[i]) # 0
    <3>1. needy[i] \in U /\ turns(needy[i]) \in Nat \ {0}
          BY <1>2, <1>4
    <3>2. blocks[i] = [c \in 1 .. turns(needy[i]) |-> needy[i]]
          OBVIOUS
    <3> QED BY <3>1, <3>2
  <2> DEFINE block(i) == [c \in 1 .. turns(needy[i]) |-> needy[i]]
  <2>2. blocks = [i \in 1 .. u |-> block(i)]
        OBVIOUS
  <2>3. \A i \in 1 .. u : block(i) \in Seq(U) /\ Len(block(i)) # 0
        BY <2>1
  <2> HIDE DEF block, blocks
  <2> QED BY <1>1, <2>2, <2>3
<1>6. targets \in Seq(U) /\ Len(targets) \in Nat \ {0}
  <2> HIDE DEF blocks
  <2>1. targets \in Seq(U) /\ Len(targets) # 0
        BY <1>1, <1>5, FlattenKeeps
  <2> QED BY <2>1, LenProperties
<1>7. PlansFrom(n, on, needy) = SubSeq(targets, 1, most)
  <2>1. DOMAIN needy = 1 .. u
        BY <1>2
  <2> QED BY <2>1 DEF PlansFrom, turns
<1>8. v \in Int /\ v >= 1
  <2>1. /\ 1000 * Actual(n, on) \in Nat \ {0}
        /\ held \in Nat
    <3>1. node_vnodes[n] \in Seq(Nat)
          BY RingParts
    <3> QED BY <1>3, <3>1, LenProperties
  <2>2. PICK x : x = held * (1000 * Actual(n, on) - (1000 + SkewThreshold) * Expected(n, on))
        OBVIOUS
  <2>3. x \in Int
        BY <1>3, <2>1, <2>2, RingAssumption
  <2>4. v = Max({1, x \div (1000 * Actual(n, on))})
        BY <2>2 DEF VnodesToMove
  <2>5. x \div (1000 * Actual(n, on)) \in Int
        BY <2>1, <2>3, DividedOnce
  <2> QED BY <2>4, <2>5, MaxOfTwo
<1>9. held \in Nat \ {0}
  <2>1. held \in Nat
    <3>1. node_vnodes[n] \in Seq(Nat)
          BY RingParts
    <3> QED BY <3>1, LenProperties
  <2>2. PICK h \in HashValue : GetNode(ring_keys, ring_map, h) = n
    <3>1. n \in DOMAIN nodes
          BY RingParts
    <3>2. Share(n) = Cardinality({h \in HashValue : GetNode(ring_keys, ring_map, h) = n})
          BY <3>1, SharesFound DEF ShareIsOwnership
    <3> QED BY <1>3, <3>2, FS_EmptySet
  <2>3. PICK p \in DOMAIN ring_map : ring_map[p] = n
    <3>1. ring_keys \in Lists /\ ring_keys \in Seq(Nat) /\ ToSet(ring_keys) = DOMAIN ring_map
          BY RingParts DEF Lists
    <3>2. Len(ring_keys) \in Nat /\ Len(ring_keys) # 0 /\ DOMAIN ring_keys = 1 .. Len(ring_keys)
          BY <3>1, EmptySeq, LenProperties
    <3>3. h \in Nat
          BY <1>3 DEF HashValue
    <3>4. StartIndex(ring_keys, h) \in DOMAIN ring_keys
      <4>1. /\ BisectRight(ring_keys, h) \in Nat
            /\ BisectRight(ring_keys, h) <= Len(ring_keys)
            BY <3>1, <3>3, BisectRightSplits
      <4> QED BY <3>2, <4>1 DEF StartIndex
    <3>5. ring_keys[StartIndex(ring_keys, h)] \in ToSet(ring_keys)
          BY <3>4 DEF ToSet
    <3> QED BY <2>2, <3>1, <3>5 DEF GetNode
  <2>4. p \in ToSet(node_vnodes[n])
        BY <2>3 DEF RingInv, RingConsistent, PositionsOf
  <2>5. held # 0
    <3>1. node_vnodes[n] \in Seq(Nat) /\ DOMAIN node_vnodes[n] # {}
          BY <2>4, RingParts DEF ToSet
    <3>2. DOMAIN node_vnodes[n] = 1 .. held
          BY <3>1, LenProperties
    <3> QED BY <3>1, <3>2
  <2> QED BY <2>1, <2>5
<1> HIDE DEF v, held, targets
<1>10. most \in 1 .. Len(targets)
  <2>1. v \in Int /\ held \in Int /\ Len(targets) \in Int
        BY <1>6, <1>8, <1>9
  <2>2. /\ Min({v, held, Len(targets)}) \in {v, held, Len(targets)}
        /\ Min({v, held, Len(targets)}) <= Len(targets)
        BY <2>1, MinOfThree
  <2>3. most \in {v, held, Len(targets)} /\ most <= Len(targets)
        BY <2>2
  <2> HIDE DEF most
  <2> QED BY <1>6, <1>8, <1>9, <2>3
<1> HIDE DEF most
<1>11. /\ SubSeq(targets, 1, most) \in Seq(U) /\ Len(SubSeq(targets, 1, most)) = most
  <2>1. 1 \in Int /\ most \in Int /\ \A i \in 1 .. most : targets[i] \in U
    <3>1. \A i \in 1 .. most : i \in 1 .. Len(targets)
          BY <1>6, <1>10
    <3> QED BY <1>6, <1>10, <3>1, ElementOfSeq
  <2>2. /\ SubSeq(targets, 1, most) \in Seq(U)
        /\ Len(SubSeq(targets, 1, most)) = IF 1 <= most THEN most - 1 + 1 ELSE 0
        BY <2>1, SubSeqProperties
  <2> QED BY <1>10, <2>2
<1> DEFINE plans == PlansFrom(n, on, needy)
<1>12. plans \in Seq(U) /\ Len(plans) # 0
  <2>1. most # 0
        BY <1>6, <1>10
  <2> QED BY <1>7, <1>11, <2>1
<1> HIDE DEF plans
<1>13. plans # <<>> /\ \A i \in DOMAIN plans : plans[i] \in U
  <2>1. DOMAIN plans = 1 .. Len(plans)
        BY <1>12, LenProperties
  <2> QED BY <1>12, <2>1, EmptySeq, ElementOfSeq
<1> QED BY <1>13 DEF plans, U

(* Who has less than its share is not overloaded.                           *)
LEMMA NeedyAreNotOverloaded ==
  ASSUME RingInv, ring_keys # <<>>, InSpace,
         NEW on \in SUBSET DOMAIN node_vnodes, IsFiniteSet(on), NEW m \in Underloaded(on)
  PROVE  ~ Overloaded(m, on)
<1>1. /\ m \in on /\ 1000 * Deficit(m, on) > Epsilon * Whole(on)
      BY DEF Underloaded
<1>2. /\ Epsilon * Whole(on) \in Nat
      /\ Actual(m, on) \in Nat /\ Expected(m, on) \in Nat
      /\ SkewThreshold * Expected(m, on) \in Nat
  <2>1. Epsilon \in Nat /\ SkewThreshold \in Nat
        BY RingAssumption
  <2>2. Whole(on) \in Nat /\ Actual(m, on) \in Nat /\ Expected(m, on) \in Nat
        BY <1>1, FiguresAreNumbers
  <2> QED BY <2>1, <2>2
<1>3. Actual(m, on) < Expected(m, on)
      BY <1>1, <1>2 DEF Deficit
<1> QED BY <1>2, <1>3 DEF Overloaded

(* compute_rebalance_plan (consistent_hash.py:237-294).                     *)
LEMMA PlansMade == RingInv /\ IsFiniteSet(DOMAIN nodes) => OverloadIsPlanned
<1> SUFFICES ASSUME RingInv, IsFiniteSet(DOMAIN nodes), ring_keys # <<>>, InSpace,
                    NEW on \in SUBSET DOMAIN node_vnodes, NEW n \in on,
                    Overloaded(n, on), ThresholdShows(n, on), NEW needy \in Neediest(on)
             PROVE  /\ PlansFrom(n, on, needy) # <<>>
                    /\ \A i \in DOMAIN PlansFrom(n, on, needy) :
                         /\ ~ Overloaded(PlansFrom(n, on, needy)[i], on)
                         /\ PlansFrom(n, on, needy)[i] # n
    BY DEF OverloadIsPlanned
<1>1. IsFiniteSet(on)
  <2>1. on \subseteq DOMAIN nodes
        BY RingParts
  <2> QED BY <2>1, FS_Subset
<1>2. Underloaded(on) # {}
      BY <1>1, SomeoneLacks
<1>3. /\ PlansFrom(n, on, needy) # <<>>
      /\ \A i \in DOMAIN PlansFrom(n, on, needy) : PlansFrom(n, on, needy)[i] \in Underloaded(on)
      BY <1>1, <1>2, PlansForTheNeedy
<1>4. \A m \in Underloaded(on) : ~ Overloaded(m, on) /\ m # n
      BY <1>1, NeedyAreNotOverloaded
<1> QED BY <1>3, <1>4

(* There are never more than finitely many nodes, however many could join.  *)
LEMMA FinitelyManyNodes == Spec => []IsFiniteSet(DOMAIN nodes)
<1>1. Init => IsFiniteSet(DOMAIN nodes)
  <2>1. DOMAIN <<>> = {}
        OBVIOUS
  <2> QED BY <2>1, FS_EmptySet DEF Init
<1>2. IsFiniteSet(DOMAIN nodes) /\ [Next]_vars => IsFiniteSet(DOMAIN nodes)'
  <2> SUFFICES ASSUME IsFiniteSet(DOMAIN nodes), [Next]_vars PROVE IsFiniteSet(DOMAIN nodes')
      OBVIOUS
  <2>1. ASSUME NEW n \in Node, NEW w \in Weights[n], AddNode(n, w)
        PROVE  IsFiniteSet(DOMAIN nodes')
    <3>1. DOMAIN nodes' = DOMAIN nodes \union {n}
          BY <2>1 DEF AddNode, With
    <3> QED BY <3>1, FS_AddElement
  <2>2. ASSUME NEW n \in Node, AddNodeHalfway(n)
        PROVE  IsFiniteSet(DOMAIN nodes')
    <3>1. DOMAIN nodes' = DOMAIN nodes \union {n}
          BY <2>2 DEF AddNodeHalfway, With
    <3> QED BY <3>1, FS_AddElement
  <2>3. ASSUME NEW n \in Node, RemoveNode(n) \/ RemoveNodeHalfway(n)
        PROVE  IsFiniteSet(DOMAIN nodes')
    <3>1. DOMAIN nodes' \subseteq DOMAIN nodes
          BY <2>3 DEF RemoveNode, RemoveNodeHalfway, Restrict
    <3> QED BY <3>1, FS_Subset
  <2>4. CASE UNCHANGED vars
        BY <2>4 DEF vars
  <2> QED BY <2>1, <2>2, <2>3, <2>4 DEF Next
<1> QED BY <1>1, <1>2, PTL DEF Spec

(* A node with more than its share by a threshold that shows has something  *)
(* planned away from it, to nodes below their shares, whichever nodes are   *)
(* online, after any additions and removals that kept probing within one    *)
(* position of the hash space (consistent_hash.py:237-294).                 *)
THEOREM OverloadsArePlanned == Spec => []OverloadIsPlanned
BY RingInit, RingNext, FinitelyManyNodes, PlansMade, PTL DEF Spec

-----------------------------------------------------------------------------
(* Two rings that differ in the positions of n: those between any two other *)
(* nodes are in the same order, so that without n the chains agree, as far  *)
(* as the one with n goes.                                                  *)
LEMMA ChainGoesOn ==
  ASSUME NEW keys \in Lists, NEW map, ToSet(keys) = DOMAIN map,
         NEW more_keys \in Lists, NEW more, ToSet(more_keys) = DOMAIN more,
         NEW n, n \notin Members(map),
         \A p \in DOMAIN map : p \in DOMAIN more /\ more[p] = map[p],
         \A p \in DOMAIN more : p \in DOMAIN map \/ more[p] = n,
         NEW h \in HashValue
  PROVE  GoesOnIn(GetNodesForKey(more_keys, more, h), GetNodesForKey(keys, map, h), n)
<1>1. PICK c : c = GetNodesForKey(more_keys, more, h) /\ IsChain(c, more, h)
      BY ChainIs
<1>2. PICK d : d = GetNodesForKey(keys, map, h) /\ IsChain(d, map, h)
      BY ChainIs
<1>3. \A m : m # n => PositionsOf(more, m) = PositionsOf(map, m)
      BY DEF PositionsOf
<1>4. Members(more) \ {n} = Members(map)
  <2>1. \A p \in DOMAIN map : map[p] # n
        BY DEF Members
  <2> QED BY <2>1 DEF Members
<1>5. \A a, b : a # n /\ b # n => (Closer(more, h, a, b) <=> Closer(map, h, a, b))
      BY <1>3 DEF Closer
<1>6. \A x \in Members(map) : AheadOf(map, h, x) = AheadOf(more, h, x) \ {n}
      BY <1>4, <1>5 DEF AheadOf
<1>7. PICK len \in Nat : len <= ReplicationFactor /\ DOMAIN c = 1 .. len
      BY <1>1 DEF IsChain
<1>8. ASSUME NEW i \in DOMAIN c, c[i] # n
      PROVE  LET j == Cardinality({k \in 1 .. i : c[k] # n}) IN j \in DOMAIN d /\ d[j] = c[i]
  <2> DEFINE others  == {k \in 1 .. i : c[k] # n}
             earlier == {k \in 1 .. i-1 : c[k] # n}
             ahead   == AheadOf(map, h, c[i])
             f       == [k \in earlier |-> c[k]]
  <2>1. /\ i \in Nat /\ i - 1 \in Nat /\ i - 1 < ReplicationFactor
        /\ \A k \in 1 .. i-1 : k \in DOMAIN c
        BY <1>7, RingAssumption
  <2>2. c[i] \in Members(map) /\ ahead = {c[k] : k \in 1 .. i-1} \ {n}
    <3>1. c[i] \in Members(more) /\ AheadOf(more, h, c[i]) = {c[k] : k \in 1 .. i-1}
          BY <1>1 DEF IsChain
    <3>2. c[i] \in Members(map)
          BY <1>4, <1>8, <3>1
    <3> QED BY <1>6, <3>1, <3>2
  <2>3. /\ IsFiniteSet(earlier) /\ Cardinality(earlier) \in Nat /\ Cardinality(earlier) <= i - 1
    <3>1. IsFiniteSet(1 .. i-1) /\ Cardinality(1 .. i-1) = i - 1
          BY <2>1, IntervalSize
    <3>2. earlier \in SUBSET (1 .. i-1)
          OBVIOUS
    <3> HIDE DEF earlier
    <3>3. IsFiniteSet(earlier) /\ Cardinality(earlier) <= Cardinality(1 .. i-1)
          BY <3>1, <3>2, FS_Subset
    <3> QED BY <3>1, <3>3, FS_CardinalityType
  <2>4. Cardinality(others) = Cardinality(earlier) + 1
    <3>1. \A k \in 1 .. i : k \in 1 .. i-1 \/ k = i
          BY <2>1
    <3>2. i \in 1 .. i /\ i \notin earlier /\ \A k \in 1 .. i-1 : k \in 1 .. i
          BY <1>7, <2>1
    <3>3. others = earlier \union {i}
          BY <1>8, <3>1, <3>2
    <3> HIDE DEF others, earlier
    <3> QED BY <2>3, <3>2, <3>3, FS_AddElement
  <2>5. Cardinality(ahead) = Cardinality(earlier)
    <3>1. f \in [earlier -> ahead] /\ \A m \in ahead : \E k \in earlier : f[k] = m
          BY <2>2
    <3>2. \A k, l \in earlier : f[k] = f[l] => k = l
          BY <1>1, <2>1 DEF IsChain
    <3> HIDE DEF f, earlier, ahead
    <3>3. f \in Bijection(earlier, ahead)
          BY <3>1, <3>2 DEF Bijection, Injection, Surjection, IsInjective
    <3> QED BY <2>3, <3>3, FS_Bijection DEF ExistsBijection
  <2> HIDE DEF others, earlier
  <2>6. Cardinality(ahead) < ReplicationFactor /\ Cardinality(others) = Cardinality(ahead) + 1
        BY <2>1, <2>3, <2>4, <2>5, RingAssumption
  <2>7. Cardinality(ahead) + 1 \in DOMAIN d /\ d[Cardinality(ahead) + 1] = c[i]
        BY <1>2, <2>2, <2>6 DEF IsChain
  <2> QED BY <2>6, <2>7 DEF others
<1> QED BY <1>1, <1>2, <1>8 DEF GoesOnIn

(* What add_node changes on the ring: n gets positions that were free.      *)
LEMMA AddedPositions ==
  ASSUME RingInv, NEW n \in Node, NEW w \in Weights[n], AddNode(n, w)
  PROVE  /\ n \notin DOMAIN nodes /\ DOMAIN nodes' = DOMAIN nodes \union {n}
         /\ \A p \in DOMAIN ring_map : p \in DOMAIN ring_map' /\ ring_map'[p] = ring_map[p]
         /\ \A p \in DOMAIN ring_map' : p \in DOMAIN ring_map \/ ring_map'[p] = n
<1> DEFINE K == VnodesPerWeight * w
<1>1. TypeOK /\ ring_keys \in Lists /\ ToSet(ring_keys) = DOMAIN ring_map
      BY RingParts
<1>2. K \in 0 .. K
  <2>1. w \in Nat
        BY <1>1, HashesUsed
  <2> QED BY <2>1, InsertionRounds
<1>3. Grown(Inserted(n, w), K, n)
  <2>1. Grown(Insertion(n, w)[K], K, n)
        BY <1>1, <1>2, RoundsGrow
  <2> QED BY <2>1 DEF Inserted
<1>4. /\ n \notin DOMAIN nodes
      /\ ring_map' = Inserted(n, w).map
      /\ nodes' = With(nodes, n, w)
      BY DEF AddNode
<1>5. DOMAIN nodes' = DOMAIN nodes \union {n}
      BY <1>4 DEF With
<1> HIDE DEF K
<1> QED BY <1>3, <1>4, <1>5 DEF Grown

(* What remove_node changes on the ring: the positions of n are gone.       *)
LEMMA RemovedPositions ==
  ASSUME RingInv, NEW n \in Node, RemoveNode(n)
  PROVE  /\ DOMAIN nodes' = DOMAIN nodes \ {n}
         /\ \A p \in DOMAIN ring_map' :
              p \in DOMAIN ring_map /\ ring_map'[p] = ring_map[p] /\ ring_map'[p] # n
         /\ \A p \in DOMAIN ring_map : p \in DOMAIN ring_map' \/ ring_map[p] = n
<1>1. /\ ring_keys \in Lists /\ ToSet(ring_keys) = DOMAIN ring_map
      /\ \A m \in DOMAIN node_vnodes : node_vnodes[m] \in Seq(Nat)
      BY RingParts
<1>2. n \in DOMAIN node_vnodes /\ node_vnodes[n] \in Seq(Nat)
      BY <1>1 DEF RemoveNode
<1> DEFINE K == Len(node_vnodes[n])
<1>3. K \in 0 .. K /\ DOMAIN node_vnodes[n] = 1 .. K
      BY <1>2, LenProperties
<1>4. Shrunk(Popped(n), K, n)
  <2>1. Shrunk(Popping(n)[K], K, n)
        BY <1>1, <1>2, <1>3, RoundsShrink
  <2> QED BY <2>1 DEF Popped
<1>5. {node_vnodes[n][j] : j \in 1 .. K} = PositionsOf(ring_map, n)
  <2>1. ToSet(node_vnodes[n]) = PositionsOf(ring_map, n)
        BY <1>2 DEF RingInv, RingConsistent
  <2> QED BY <1>3, <2>1 DEF ToSet
<1>6. /\ ring_map' = Popped(n).map
      /\ nodes' = Restrict(nodes, DOMAIN nodes \ {n})
      BY DEF RemoveNode
<1>7. DOMAIN nodes' = DOMAIN nodes \ {n}
      BY <1>6 DEF Restrict
<1> HIDE DEF K
<1>8. /\ DOMAIN ring_map' = DOMAIN ring_map \ PositionsOf(ring_map, n)
      /\ \A p \in DOMAIN ring_map' : ring_map'[p] = ring_map[p]
      BY <1>4, <1>5, <1>6 DEF Shrunk
<1> QED BY <1>7, <1>8 DEF PositionsOf

(* A node that joins or leaves moves no key between two other nodes, and    *)
(* the next replica becomes the primary when one leaves, for any hash       *)
(* function and in any order of joins and leaves, collisions and nodes that *)
(* join halfway included (consistent_hash.py:71-100, 135-198).              *)
THEOREM ChainsOnlyShift == Spec => ChainsShift
<1> DEFINE Shift == \A h \in HashValue :
                      /\ \A n \in DOMAIN nodes \ DOMAIN nodes' :
                           GoesOnIn(Chain(h), Chain(h)', n)
                      /\ \A n \in DOMAIN nodes' \ DOMAIN nodes :
                           GoesOnIn(Chain(h)', Chain(h), n)
<1>1. ASSUME RingInv, RingInv', NEW n \in Node,
             \/ \E w \in Weights[n] : AddNode(n, w)
             \/ AddNodeHalfway(n)
             \/ RemoveNode(n)
             \/ RemoveNodeHalfway(n)
      PROVE  Shift
  <2>1. /\ ring_keys \in Lists /\ ToSet(ring_keys) = DOMAIN ring_map
        /\ ring_keys' \in Lists /\ ToSet(ring_keys') = DOMAIN ring_map'
        BY <1>1 DEF RingInv, RingConsistent, TypeOK, Lists, Sorted
  <2>2. /\ \A p \in DOMAIN ring_map : ring_map[p] \in DOMAIN nodes
        /\ \A p \in DOMAIN ring_map' : ring_map'[p] \in DOMAIN nodes'
        BY <1>1 DEF RingInv, RingConsistent, Members
  <2>3. \A h : /\ Chain(h) = GetNodesForKey(ring_keys, ring_map, h)
               /\ Chain(h)' = GetNodesForKey(ring_keys', ring_map', h)
        BY DEF Chain
  <2>4. CASE \E w \in Weights[n] : AddNode(n, w)
    <3>1. /\ n \notin DOMAIN nodes /\ DOMAIN nodes' = DOMAIN nodes \union {n}
          /\ \A p \in DOMAIN ring_map : p \in DOMAIN ring_map' /\ ring_map'[p] = ring_map[p]
          /\ \A p \in DOMAIN ring_map' : p \in DOMAIN ring_map \/ ring_map'[p] = n
          BY <1>1, <2>4, AddedPositions
    <3>2. n \notin Members(ring_map)
          BY <2>2, <3>1 DEF Members
    <3>3. \A h \in HashValue : GoesOnIn(Chain(h)', Chain(h), n)
          BY <2>1, <2>3, <3>1, <3>2, ChainGoesOn
    <3> QED BY <3>1, <3>3
  <2>5. CASE RemoveNode(n)
    <3>1. /\ DOMAIN nodes' = DOMAIN nodes \ {n}
          /\ \A p \in DOMAIN ring_map' :
               p \in DOMAIN ring_map /\ ring_map'[p] = ring_map[p] /\ ring_map'[p] # n
          /\ \A p \in DOMAIN ring_map : p \in DOMAIN ring_map' \/ ring_map[p] = n
          BY <1>1, <2>5, RemovedPositions
    <3>2. n \notin Members(ring_map')
          BY <3>1 DEF Members
    <3>3. \A h \in HashValue : GoesOnIn(Chain(h), Chain(h)', n)
          BY <2>1, <2>3, <3>1, <3>2, ChainGoesOn
    <3> QED BY <3>1, <3>3
  <2>6. CASE AddNodeHalfway(n) \/ RemoveNodeHalfway(n)
    <3>1. ring_keys' = ring_keys /\ ring_map' = ring_map
          BY <2>6 DEF AddNodeHalfway, RemoveNodeHalfway
    <3>2. \/ DOMAIN nodes' = DOMAIN nodes \union {n} /\ n \notin DOMAIN nodes
          \/ DOMAIN nodes' = DOMAIN nodes \ {n} /\ n \in DOMAIN nodes
          BY <2>6 DEF AddNodeHalfway, RemoveNodeHalfway, With, Restrict
    <3>3. n \notin Members(ring_map)
          BY <2>2, <3>1, <3>2 DEF Members
    <3>4. \A h \in HashValue : GoesOnIn(Chain(h), Chain(h), n)
          BY <2>1, <2>3, <3>3, ChainGoesOn
    <3>5. \A h : Chain(h)' = Chain(h)
          BY <2>3, <3>1
    <3> QED BY <3>2, <3>4, <3>5
  <2> QED BY <1>1, <2>4, <2>5, <2>6
<1>2. RingInv /\ RingInv' /\ [Next]_vars => [Shift]_vars
      BY <1>1 DEF Next
<1> QED BY <1>2, RingInit, RingNext, PTL DEF Spec, ChainsShift
=============================================================================
