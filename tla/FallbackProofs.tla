---------------------------- MODULE FallbackProofs ----------------------------
(***************************************************************************)
(* Proofs about LocalCache and Fallback, for any keys, nodes, callers and  *)
(* replicas, and any size and ttl of the cache.  The order of the store is *)
(* told by the keys that come after a key in it, so that the proofs about  *)
(* the protocol never speak of positions.                                  *)
(***************************************************************************)
EXTENDS Fallback, FiniteSetTheorems, SequenceTheorems, TLAPS

(* A store in which each key is once.                                       *)
KeyedOnce(s) == \A i, j \in DOMAIN s : s[i].key = s[j].key => i = j

Stores == {s \in Seq(CacheEntry) : KeyedOnce(s)}

EntriesIn(s) == {s[i] : i \in DOMAIN s}

KeysIn(s) == {s[i].key : i \in DOMAIN s}

(* The keys used after k.                                                   *)
Later(s, k) ==
  {s[j].key : j \in {h \in DOMAIN s : \E i \in DOMAIN s : i < h /\ s[i].key = k}}

-----------------------------------------------------------------------------
(* A store is its entries in a row.                                         *)
LEMMA StoreShape ==
  ASSUME NEW s \in Seq(CacheEntry)
  PROVE  /\ Len(s) \in Nat /\ DOMAIN s = 1 .. Len(s)
         /\ \A i \in DOMAIN s : /\ s[i] \in CacheEntry
                                /\ s[i].key \in Key /\ s[i].value \in Value /\ s[i].age \in 0 .. Ttl
<1>1. Len(s) \in Nat /\ DOMAIN s = 1 .. Len(s)
      BY LenProperties
<1>2. \A i \in DOMAIN s : s[i] \in CacheEntry
      BY <1>1, ElementOfSeq
<1> QED BY <1>1, <1>2 DEF CacheEntry

(* What looking a key up comes to.                                          *)
LEMMA LookUp ==
  ASSUME NEW s \in Stores, NEW k \in Key
  PROVE  /\ Cached(s, k) <=> k \in KeysIn(s)
         /\ \A e \in EntriesIn(s) : e.key = k => Cached(s, k) /\ EntryOf(s, k) = e
         /\ Cached(s, k) => /\ EntryAt(s, k) \in DOMAIN s
                            /\ EntryOf(s, k) \in EntriesIn(s) /\ EntryOf(s, k).key = k
                            /\ EntryOf(s, k) \in CacheEntry
<1>1. s \in Seq(CacheEntry) /\ KeyedOnce(s)
      BY DEF Stores
<1>2. Cached(s, k) => EntryAt(s, k) \in DOMAIN s /\ s[EntryAt(s, k)].key = k
      BY DEF Cached, EntryAt
<1> HIDE DEF EntryAt
<1> QED BY <1>1, <1>2, StoreShape DEF Cached, KeysIn, EntriesIn, EntryOf, KeyedOnce

(* get finds the value of an entry that has not expired (manager.py:35-44). *)
LEMMA FoundValue ==
  ASSUME NEW s \in Stores, NEW k \in Key
  PROVE  /\ \A e \in EntriesIn(s) : e.key = k /\ e.age < Ttl => Hit(s, k) /\ Found(s, k) = e.value
         /\ Hit(s, k) => \E e \in EntriesIn(s) : e.key = k /\ e.age < Ttl /\ Found(s, k) = e.value
         /\ ~Hit(s, k) => Found(s, k) = NoValue
BY LookUp DEF Hit, Found

(* delete takes the entry of a key out and leaves the others as they are,   *)
(* in their order (manager.py:54-56).                                       *)
LEMMA WithoutKey ==
  ASSUME NEW s \in Stores, NEW k \in Key
  PROVE  /\ Without(s, k) \in Stores
         /\ EntriesIn(Without(s, k)) = {e \in EntriesIn(s) : e.key # k}
         /\ KeysIn(Without(s, k)) = KeysIn(s) \ {k}
         /\ \A m \in Key \ {k} : Later(Without(s, k), m) \subseteq Later(s, m)
         /\ Len(Without(s, k)) = IF Cached(s, k) THEN Len(s) - 1 ELSE Len(s)
<1> DEFINE r == Without(s, k)
<1>1. s \in Seq(CacheEntry) /\ KeyedOnce(s) /\ Len(s) \in Nat /\ DOMAIN s = 1 .. Len(s)
      BY StoreShape DEF Stores
<1>2. CASE ~Cached(s, k)
  <2>1. r = s
        BY <1>2 DEF Without
  <2>2. \A i \in DOMAIN s : s[i].key # k
        BY <1>2 DEF Cached
  <2> QED BY <1>1, <1>2, <2>1, <2>2 DEF EntriesIn, KeysIn
<1>3. CASE Cached(s, k)
  <2> DEFINE at == EntryAt(s, k)
             front == SubSeq(s, 1, at - 1)
             back  == SubSeq(s, at + 1, Len(s))
  <2>1. at \in 1 .. Len(s) /\ s[at].key = k
        BY <1>1, <1>3, LookUp DEF EntryOf
  <2>2. r = front \o back
        BY <1>3 DEF Without, RemoveAt
  <2> HIDE DEF at, r
  <2>3. /\ front \in Seq(CacheEntry) /\ Len(front) = at - 1
        /\ \A i \in 1 .. at - 1 : front[i] = s[i]
    <3>1. 1 \in Int /\ at - 1 \in Int /\ \A i \in 1 .. at - 1 : s[i] \in CacheEntry
          BY <1>1, <2>1, ElementOfSeq
    <3>2. /\ front \in Seq(CacheEntry)
          /\ Len(front) = IF 1 <= at - 1 THEN at - 1 - 1 + 1 ELSE 0
          /\ \A i \in 1 .. at - 1 - 1 + 1 : front[i] = s[1 + i - 1]
          BY <3>1, SubSeqProperties
    <3>3. at \in Int /\ at >= 1
          BY <1>1, <2>1
    <3>4. Len(front) = at - 1
          BY <3>2, <3>3
    <3>5. \A i \in 1 .. at - 1 : i \in 1 .. at - 1 - 1 + 1 /\ 1 + i - 1 = i
          BY <3>3
    <3> QED BY <3>2, <3>4, <3>5
  <2>4. /\ back \in Seq(CacheEntry) /\ Len(back) = Len(s) - at
        /\ \A i \in 1 .. Len(s) - at : back[i] = s[at + i]
    <3>1. at + 1 \in Int /\ Len(s) \in Int /\ \A i \in at + 1 .. Len(s) : s[i] \in CacheEntry
          BY <1>1, <2>1, ElementOfSeq
    <3>2. /\ back \in Seq(CacheEntry)
          /\ Len(back) = IF at + 1 <= Len(s) THEN Len(s) - (at + 1) + 1 ELSE 0
          /\ \A i \in 1 .. Len(s) - (at + 1) + 1 : back[i] = s[(at + 1) + i - 1]
          BY <3>1, SubSeqProperties
    <3>3. at \in Int /\ at >= 1 /\ at <= Len(s) /\ Len(s) \in Nat
          BY <1>1, <2>1
    <3>4. Len(back) = Len(s) - at
          BY <3>2, <3>3
    <3>5. \A i \in 1 .. Len(s) - at :
            i \in 1 .. Len(s) - (at + 1) + 1 /\ (at + 1) + i - 1 = at + i
          BY <3>3
    <3> QED BY <3>2, <3>4, <3>5
  <2> HIDE DEF front, back
  <2>5. /\ r \in Seq(CacheEntry) /\ Len(r) = Len(s) - 1 /\ DOMAIN r = 1 .. Len(s) - 1
        /\ \A i \in 1 .. Len(s) - 1 : r[i] = IF i < at THEN s[i] ELSE s[i + 1]
    <3>1. /\ r \in Seq(CacheEntry) /\ Len(r) = Len(front) + Len(back)
          /\ \A i \in 1 .. Len(front) + Len(back) :
               r[i] = IF i <= Len(front) THEN front[i] ELSE back[i - Len(front)]
          BY <2>2, <2>3, <2>4, ConcatProperties
    <3>2. Len(r) = Len(s) - 1
          BY <1>1, <2>1, <2>3, <2>4, <3>1
    <3>3. at \in Int /\ at >= 1 /\ at <= Len(s)
          BY <1>1, <2>1
    <3>4. ASSUME NEW i \in 1 .. Len(s) - 1, i < at
          PROVE  r[i] = s[i]
      <4>1. i \in 1 .. Len(front) + Len(back) /\ i <= Len(front) /\ i \in 1 .. at - 1
            BY <1>1, <2>3, <2>4, <3>3, <3>4
      <4> QED BY <2>3, <3>1, <4>1
    <3>5. ASSUME NEW i \in 1 .. Len(s) - 1, ~(i < at)
          PROVE  r[i] = s[i + 1]
      <4>1. /\ i \in 1 .. Len(front) + Len(back) /\ ~(i <= Len(front))
            /\ i - Len(front) \in 1 .. Len(s) - at /\ at + (i - Len(front)) = i + 1
            BY <1>1, <2>3, <2>4, <3>3, <3>5
      <4>2. r[i] = back[i - Len(front)]
            BY <3>1, <4>1
      <4> QED BY <2>4, <4>1, <4>2
    <3> QED BY <1>1, <3>1, <3>2, <3>4, <3>5, LenProperties
  (* Where each entry has gone, and where it came from.                     *)
  <2> DEFINE To(i) == IF i < at THEN i ELSE i - 1
             From(i) == IF i < at THEN i ELSE i + 1
  <2>6. \A i \in DOMAIN s : i # at => To(i) \in DOMAIN r /\ r[To(i)] = s[i]
        BY <1>1, <2>1, <2>5
  <2>7. /\ \A i \in DOMAIN r : From(i) \in DOMAIN s /\ From(i) # at /\ r[i] = s[From(i)]
        /\ \A i, j \in DOMAIN r : From(i) = From(j) => i = j
        /\ \A i, j \in DOMAIN r : i < j => From(i) < From(j)
        BY <1>1, <2>1, <2>5
  <2>8. \A i \in DOMAIN s : s[i].key = k <=> i = at
        BY <1>1, <2>1 DEF KeyedOnce
  <2> HIDE DEF To, From
  <2>9. KeyedOnce(r)
        BY <1>1, <2>7 DEF KeyedOnce
  <2>10. EntriesIn(r) = {e \in EntriesIn(s) : e.key # k}
        BY <2>6, <2>7, <2>8 DEF EntriesIn
  <2>11. KeysIn(r) = KeysIn(s) \ {k}
        BY <2>6, <2>7, <2>8 DEF KeysIn
  <2>12. \A m \in Key \ {k} : Later(r, m) \subseteq Later(s, m)
        BY <2>7 DEF Later
  <2> QED BY <1>1, <1>3, <2>5, <2>9, <2>10, <2>11, <2>12 DEF Stores, r
<1> QED BY <1>2, <1>3

(* An entry put at the end comes after all others.                          *)
LEMMA AppendEntry ==
  ASSUME NEW s \in Stores, NEW e \in CacheEntry, e.key \notin KeysIn(s)
  PROVE  /\ Append(s, e) \in Stores
         /\ EntriesIn(Append(s, e)) = EntriesIn(s) \union {e}
         /\ Later(Append(s, e), e.key) = {}
         /\ \A m \in Key : Later(Append(s, e), m) \subseteq Later(s, m) \union {e.key}
         /\ Len(Append(s, e)) = Len(s) + 1
<1> DEFINE r == Append(s, e)
<1>1. s \in Seq(CacheEntry) /\ KeyedOnce(s) /\ Len(s) \in Nat /\ DOMAIN s = 1 .. Len(s)
      BY StoreShape DEF Stores
<1>2. /\ r \in Seq(CacheEntry) /\ Len(r) = Len(s) + 1
      /\ \A i \in 1 .. Len(s) : r[i] = s[i]
      /\ r[Len(s) + 1] = e
      BY <1>1, AppendProperties
<1>3. DOMAIN r = 1 .. Len(s) + 1
      BY <1>2, LenProperties
<1>4. \A i \in DOMAIN s : s[i].key # e.key
      BY DEF KeysIn
<1> HIDE DEF r
<1>5. KeyedOnce(r)
      BY <1>1, <1>2, <1>3, <1>4 DEF KeyedOnce
<1>6. EntriesIn(r) = EntriesIn(s) \union {e}
      BY <1>1, <1>2, <1>3 DEF EntriesIn
<1>7. Later(r, e.key) = {}
      BY <1>1, <1>2, <1>3, <1>4 DEF Later
<1>8. ASSUME NEW m \in Key, NEW j \in DOMAIN r, NEW i \in DOMAIN r, i < j, r[i].key = m
      PROVE  r[j].key \in Later(s, m) \union {e.key}
  <2>1. CASE j = Len(s) + 1
        BY <1>2, <2>1
  <2>2. CASE j # Len(s) + 1
        BY <1>1, <1>2, <1>3, <1>8, <2>2 DEF Later
  <2> QED BY <2>1, <2>2
<1>9. \A m \in Key : Later(r, m) \subseteq Later(s, m) \union {e.key}
      BY <1>8 DEF Later
<1> QED BY <1>1, <1>2, <1>5, <1>6, <1>7, <1>9 DEF Stores, r

(* There are n numbers up to n.                                             *)
LEMMA IntervalSize ==
  ASSUME NEW n \in Nat
  PROVE  IsFiniteSet(1 .. n) /\ Cardinality(1 .. n) = n
BY FS_Interval

(* What put drops when it is one entry over the size: the oldest, after     *)
(* which as many other keys were used as there is room for                  *)
(* (manager.py:51-52).                                                      *)
LEMMA EvictOldest ==
  ASSUME NEW s \in Stores, Len(s) <= MaxSize + 1
  PROVE  /\ Evicted(s) \in Stores /\ Len(Evicted(s)) <= MaxSize
         /\ EntriesIn(Evicted(s)) \subseteq EntriesIn(s)
         /\ \A m \in Key : Later(Evicted(s), m) \subseteq Later(s, m)
         /\ \A e \in EntriesIn(s) :
              \/ e \in EntriesIn(Evicted(s))
              \/ /\ e.key \notin KeysIn(Evicted(s))
                 /\ \A S \in SUBSET Key :
                      IsFiniteSet(S) /\ Later(s, e.key) \subseteq S => Cardinality(S) >= MaxSize
<1>1. /\ s \in Seq(CacheEntry) /\ KeyedOnce(s) /\ Len(s) \in Nat /\ DOMAIN s = 1 .. Len(s)
      /\ MaxSize \in Nat
      BY StoreShape, CacheAssumption DEF Stores
<1> Len(s) \in Nat /\ MaxSize \in Nat
    BY <1>1
<1>2. CASE Len(s) <= MaxSize
  <2>1. Evicted(s) = s
        BY <1>1, <1>2 DEF Evicted
  <2> QED BY <1>2, <2>1
<1>3. CASE Len(s) = MaxSize + 1
  <2> DEFINE r == SubSeq(s, 2, Len(s))
  <2>1. Evicted(s) = r
    <3>1. Len(s) > MaxSize /\ Len(s) - MaxSize + 1 = 2
          BY <1>1, <1>3
    <3> QED BY <3>1 DEF Evicted
  <2>2. s # <<>>
        BY <1>1, <1>3
  <2>3. /\ r \in Seq(CacheEntry) /\ Len(r) = MaxSize /\ DOMAIN r = 1 .. MaxSize
        /\ \A i \in 1 .. MaxSize : r[i] = s[i + 1]
    <3>1. r = Tail(s)
          BY <1>1, <2>2, TailIsSubSeq
    <3>2. /\ r \in Seq(CacheEntry) /\ Len(r) = Len(s) - 1
          /\ \A i \in 1 .. Len(r) : r[i] = s[i + 1]
          BY <1>1, <2>2, <3>1, HeadTailProperties
    <3>3. Len(r) = MaxSize
          BY <1>1, <1>3, <3>2
    <3> QED BY <3>2, <3>3, LenProperties
  <2> HIDE DEF r
  <2>4. DOMAIN s = 1 .. MaxSize + 1
        BY <1>1, <1>3
  <2>5. KeyedOnce(r)
    <3>1. \A i \in 1 .. MaxSize : i + 1 \in DOMAIN s /\ r[i] = s[i + 1]
          BY <1>1, <2>3, <2>4
    <3>2. \A i, j \in 1 .. MaxSize : i + 1 = j + 1 => i = j
          OBVIOUS
    <3>3. \A i, j \in 1 .. MaxSize : s[i + 1].key = s[j + 1].key => i = j
          BY <1>1, <3>1, <3>2 DEF KeyedOnce
    <3>4. \A i, j \in 1 .. MaxSize : r[i].key = r[j].key => i = j
          BY <3>1, <3>3
    <3> QED BY <2>3, <3>4 DEF KeyedOnce
  <2>6. EntriesIn(r) \subseteq EntriesIn(s)
    <3>1. \A i \in DOMAIN r : i + 1 \in DOMAIN s /\ r[i] = s[i + 1]
          BY <1>1, <2>3, <2>4
    <3> QED BY <3>1 DEF EntriesIn
  <2>7. ASSUME NEW m \in Key, NEW i \in DOMAIN r, NEW j \in DOMAIN r, i < j, r[i].key = m
        PROVE  r[j].key \in Later(s, m)
    <3>1. /\ i + 1 \in DOMAIN s /\ j + 1 \in DOMAIN s /\ i + 1 < j + 1
          /\ s[i + 1].key = m /\ s[j + 1].key = r[j].key
          BY <1>1, <2>3, <2>4, <2>7
    <3> QED BY <3>1 DEF Later
  <2>8. \A m \in Key : Later(r, m) \subseteq Later(s, m)
        BY <2>7 DEF Later
  <2>9. ASSUME NEW e \in EntriesIn(s), e \notin EntriesIn(r)
        PROVE  /\ e.key \notin KeysIn(r)
               /\ \A S \in SUBSET Key :
                    IsFiniteSet(S) /\ Later(s, e.key) \subseteq S => Cardinality(S) >= MaxSize
    <3>1. PICK i \in DOMAIN s : e = s[i]
          BY DEF EntriesIn
    <3>2. i = 1
      <4>1. ASSUME i # 1
            PROVE  FALSE
        <5>1. i - 1 \in 1 .. MaxSize /\ (i - 1) + 1 = i
              BY <1>1, <2>4, <4>1
        <5>2. r[i - 1] = s[i]
              BY <2>3, <5>1
        <5> QED BY <2>3, <2>9, <3>1, <5>1, <5>2 DEF EntriesIn
      <4> QED BY <4>1
    <3>3. \A j \in 1 .. MaxSize : /\ j + 1 \in DOMAIN s /\ r[j] = s[j + 1] /\ s[j + 1].key # e.key
                                  /\ s[j + 1].key \in Later(s, e.key)
          BY <1>1, <2>3, <2>4, <3>1, <3>2 DEF KeyedOnce, Later
    <3>4. e.key \notin KeysIn(r)
          BY <2>3, <3>3 DEF KeysIn
    <3>5. ASSUME NEW S \in SUBSET Key, IsFiniteSet(S), Later(s, e.key) \subseteq S
          PROVE  Cardinality(S) >= MaxSize
      <4> DEFINE f == [j \in 1 .. MaxSize |-> s[j + 1].key]
      <4>1. f \in [1 .. MaxSize -> S]
            BY <3>3, <3>5
      <4>2. \A i1, j1 \in 1 .. MaxSize : f[i1] = f[j1] => i1 = j1
            BY <1>1, <2>4 DEF KeyedOnce
      <4> HIDE DEF f
      <4>3. f \in Injection(1 .. MaxSize, S)
            BY <4>1, <4>2 DEF Injection, IsInjective
      <4>4. IsFiniteSet(1 .. MaxSize) /\ Cardinality(1 .. MaxSize) = MaxSize
            BY IntervalSize
      <4>5. Cardinality(1 .. MaxSize) <= Cardinality(S)
            BY <3>5, <4>3, FS_Injection
      <4>6. Cardinality(S) \in Nat
            BY <3>5, FS_CardinalityType
      <4> QED BY <1>1, <4>4, <4>5, <4>6
    <3> QED BY <3>4, <3>5
  <2> QED BY <1>1, <2>1, <2>3, <2>5, <2>6, <2>8, <2>9 DEF Stores
<1>4. Len(s) <= MaxSize \/ Len(s) = MaxSize + 1
      OBVIOUS
<1> QED BY <1>2, <1>3, <1>4

(* A tick changes the ages and nothing else.                                *)
LEMMA AgedStore ==
  ASSUME NEW s \in Stores
  PROVE  /\ Aged(s) \in Stores /\ Len(Aged(s)) = Len(s)
         /\ \A e \in EntriesIn(s) :
              [e EXCEPT !.age = IF e.age < Ttl THEN e.age + 1 ELSE Ttl] \in EntriesIn(Aged(s))
         /\ \A d \in EntriesIn(Aged(s)) : \E e \in EntriesIn(s) :
              /\ d.key = e.key /\ d.value = e.value
              /\ d.age = IF e.age < Ttl THEN e.age + 1 ELSE Ttl
         /\ KeysIn(Aged(s)) = KeysIn(s)
         /\ \A m \in Key : Later(Aged(s), m) = Later(s, m)
<1> DEFINE r == Aged(s)
<1>1. /\ s \in Seq(CacheEntry) /\ KeyedOnce(s) /\ Len(s) \in Nat /\ DOMAIN s = 1 .. Len(s)
      /\ Ttl \in Nat
      BY StoreShape, CacheAssumption DEF Stores
<1>2. DOMAIN r = DOMAIN s
      BY DEF Aged
<1>3. \A i \in DOMAIN s : r[i] = [s[i] EXCEPT !.age = IF s[i].age < Ttl THEN s[i].age + 1 ELSE Ttl]
      BY DEF Aged
<1>4. \A i \in DOMAIN s : /\ r[i] \in CacheEntry /\ r[i].key = s[i].key /\ r[i].value = s[i].value
                          /\ r[i].age = IF s[i].age < Ttl THEN s[i].age + 1 ELSE Ttl
  <2> SUFFICES ASSUME NEW i \in DOMAIN s
               PROVE  /\ r[i] \in CacheEntry /\ r[i].key = s[i].key /\ r[i].value = s[i].value
                      /\ r[i].age = IF s[i].age < Ttl THEN s[i].age + 1 ELSE Ttl
      OBVIOUS
  <2>1. s[i] \in CacheEntry /\ s[i].age \in 0 .. Ttl
        BY <1>1, StoreShape
  <2>2. (IF s[i].age < Ttl THEN s[i].age + 1 ELSE Ttl) \in 0 .. Ttl
        BY <1>1, <2>1
  <2> QED BY <1>3, <2>1, <2>2 DEF CacheEntry
<1> HIDE DEF r
<1>5. r \in Seq(CacheEntry) /\ Len(r) = Len(s)
  <2>1. r = [i \in 1 .. Len(s) |-> r[i]]
        BY <1>1 DEF r, Aged
  <2>2. r \in Seq(CacheEntry)
        BY <1>1, <1>4, <2>1, IsASeq
  <2> QED BY <1>1, <1>2, <2>2, LenProperties
<1>6. KeyedOnce(r)
      BY <1>1, <1>2, <1>4 DEF KeyedOnce
<1>7. KeysIn(r) = KeysIn(s) /\ \A m \in Key : Later(r, m) = Later(s, m)
      BY <1>2, <1>4 DEF KeysIn, Later
<1>8. \A e \in EntriesIn(s) :
        [e EXCEPT !.age = IF e.age < Ttl THEN e.age + 1 ELSE Ttl] \in EntriesIn(r)
      BY <1>2, <1>3 DEF EntriesIn
<1>9. \A d \in EntriesIn(r) : \E e \in EntriesIn(s) :
         /\ d.key = e.key /\ d.value = e.value
         /\ d.age = IF e.age < Ttl THEN e.age + 1 ELSE Ttl
      BY <1>2, <1>4 DEF EntriesIn
<1> QED BY <1>5, <1>6, <1>7, <1>8, <1>9 DEF Stores, r

(* The keys are those of the entries.                                       *)
LEMMA KeysOfEntries ==
  ASSUME NEW s
  PROVE  KeysIn(s) = {e.key : e \in EntriesIn(s)}
BY DEF KeysIn, EntriesIn

(* put leaves the new entry last; the others stay in their order, but for   *)
(* one that enough other keys were used after (manager.py:46-52).           *)
LEMMA PutEntry ==
  ASSUME NEW s \in Stores, Len(s) <= MaxSize, NEW k \in Key, NEW v \in Value,
         NEW r, r = AfterPut(s, k, v)
  PROVE  /\ r \in Stores /\ Len(r) <= MaxSize
         /\ EntriesIn(r) \subseteq {e \in EntriesIn(s) : e.key # k} \union {Entry(k, v)}
         /\ Later(r, k) = {}
         /\ Entry(k, v) \notin EntriesIn(r) => k \notin KeysIn(r) /\ MaxSize = 0
         /\ \A e \in EntriesIn(s) : e.key # k =>
              \/ e \in EntriesIn(r) /\ Later(r, e.key) \subseteq Later(s, e.key) \union {k}
              \/ /\ e.key \notin KeysIn(r)
                 /\ \A S \in SUBSET Key :
                      IsFiniteSet(S) /\ Later(s, e.key) \union {k} \subseteq S
                        => Cardinality(S) >= MaxSize
<1> DEFINE w == Without(s, k)
           n == Entry(k, v)
           a == Append(w, n)
<1>1. /\ w \in Stores /\ Len(w) <= Len(s) /\ Len(w) \in Nat
      /\ EntriesIn(w) = {e \in EntriesIn(s) : e.key # k}
      /\ KeysIn(w) = KeysIn(s) \ {k}
      /\ \A m \in Key \ {k} : Later(w, m) \subseteq Later(s, m)
  <2>1. w \in Stores /\ Len(w) = IF Cached(s, k) THEN Len(s) - 1 ELSE Len(s)
        BY WithoutKey
  <2>2. Len(s) \in Nat /\ Len(w) \in Nat
        BY <2>1, StoreShape DEF Stores
  <2>3. Len(w) <= Len(s)
        BY <2>1, <2>2
  <2> QED BY <2>1, <2>2, <2>3, WithoutKey
<1>2. n \in CacheEntry /\ n.key = k
  <2>1. 0 \in 0 .. Ttl
        BY CacheAssumption
  <2> QED BY <2>1 DEF Entry, CacheEntry
<1> r = Evicted(a)
    BY DEF AfterPut
<1> HIDE DEF w, n
<1>3. /\ a \in Stores
      /\ EntriesIn(a) = EntriesIn(w) \union {n}
      /\ Later(a, k) = {}
      /\ \A m \in Key : Later(a, m) \subseteq Later(w, m) \union {k}
      /\ Len(a) = Len(w) + 1
      BY <1>1, <1>2, AppendEntry
<1>4. Len(a) <= MaxSize + 1
  <2>1. Len(s) \in Nat /\ MaxSize \in Nat
        BY StoreShape, CacheAssumption DEF Stores
  <2> QED BY <1>1, <1>3, <2>1
<1> HIDE DEF a
<1>5. /\ r \in Stores /\ Len(r) <= MaxSize
      /\ EntriesIn(r) \subseteq EntriesIn(a)
      /\ \A m \in Key : Later(r, m) \subseteq Later(a, m)
      /\ \A e \in EntriesIn(a) :
           \/ e \in EntriesIn(r)
           \/ /\ e.key \notin KeysIn(r)
              /\ \A S \in SUBSET Key :
                   IsFiniteSet(S) /\ Later(a, e.key) \subseteq S => Cardinality(S) >= MaxSize
      BY <1>3, <1>4, EvictOldest
<1>6. EntriesIn(r) \subseteq {e \in EntriesIn(s) : e.key # k} \union {n}
      BY <1>1, <1>3, <1>5
<1>7. ASSUME n \notin EntriesIn(r)
      PROVE  k \notin KeysIn(r) /\ MaxSize = 0
  <2>1. /\ k \notin KeysIn(r)
        /\ \A S \in SUBSET Key : IsFiniteSet(S) /\ Later(a, k) \subseteq S => Cardinality(S) >= MaxSize
        BY <1>2, <1>3, <1>5, <1>7
  <2>2. IsFiniteSet({}) /\ Cardinality({}) = 0
        BY FS_EmptySet
  <2>3. 0 >= MaxSize
        BY <1>3, <2>1, <2>2
  <2> QED BY <2>1, <2>3, CacheAssumption
<1>8. ASSUME NEW e \in EntriesIn(s), e.key # k
      PROVE  \/ e \in EntriesIn(r) /\ Later(r, e.key) \subseteq Later(s, e.key) \union {k}
             \/ /\ e.key \notin KeysIn(r)
                /\ \A S \in SUBSET Key :
                     IsFiniteSet(S) /\ Later(s, e.key) \union {k} \subseteq S
                       => Cardinality(S) >= MaxSize
  <2>1. e \in EntriesIn(a) /\ e.key \in Key
        BY <1>1, <1>3, <1>8, StoreShape DEF EntriesIn, Stores
  <2>2. Later(a, e.key) \subseteq Later(s, e.key) \union {k}
        BY <1>1, <1>3, <1>8, <2>1
  <2> QED BY <1>5, <2>1, <2>2
<1>9. Later(r, k) = {}
      BY <1>3, <1>5
<1> QED BY <1>5, <1>6, <1>7, <1>8, <1>9 DEF n

(* get moves what it finds to the end, and removes what has expired         *)
(* (manager.py:35-44).                                                      *)
LEMMA GetEntry ==
  ASSUME NEW s \in Stores, NEW k \in Key, NEW r, r = AfterGet(s, k)
  PROVE  /\ r \in Stores /\ Len(r) <= Len(s) /\ EntriesIn(r) \subseteq EntriesIn(s)
         /\ Hit(s, k) => /\ EntriesIn(r) = EntriesIn(s)
                         /\ Later(r, k) = {}
                         /\ \A m \in Key \ {k} : Later(r, m) \subseteq Later(s, m) \union {k}
         /\ ~Hit(s, k) => /\ EntriesIn(r) = {e \in EntriesIn(s) : e.key # k}
                          /\ \A m \in Key \ {k} : Later(r, m) \subseteq Later(s, m)
<1> DEFINE w == Without(s, k)
           n == EntryOf(s, k)
           a == Append(w, n)
<1>1. /\ w \in Stores /\ Len(w) <= Len(s) /\ Len(w) \in Nat /\ Len(s) \in Nat
      /\ EntriesIn(w) = {e \in EntriesIn(s) : e.key # k}
      /\ KeysIn(w) = KeysIn(s) \ {k}
      /\ \A m \in Key \ {k} : Later(w, m) \subseteq Later(s, m)
  <2>1. w \in Stores /\ Len(w) = IF Cached(s, k) THEN Len(s) - 1 ELSE Len(s)
        BY WithoutKey
  <2>2. Len(s) \in Nat /\ Len(w) \in Nat
        BY <2>1, StoreShape DEF Stores
  <2>3. Len(w) <= Len(s)
        BY <2>1, <2>2
  <2> QED BY <2>1, <2>2, <2>3, WithoutKey
<1>2. CASE ~Hit(s, k)
  <2>1. r = w
        BY <1>2 DEF AfterGet
  <2> QED BY <1>1, <1>2, <2>1
<1>3. CASE Hit(s, k)
  <2>1. r = a
        BY <1>3 DEF AfterGet
  <2>2. Cached(s, k)
        BY <1>3 DEF Hit
  <2>3. n \in CacheEntry /\ n \in EntriesIn(s) /\ n.key = k /\ \A e \in EntriesIn(s) : e.key = k => e = n
        BY <2>2, LookUp
  <2> HIDE DEF w, n
  <2>4. /\ a \in Stores
        /\ EntriesIn(a) = EntriesIn(w) \union {n}
        /\ Later(a, k) = {}
        /\ \A m \in Key : Later(a, m) \subseteq Later(w, m) \union {k}
        /\ Len(a) = Len(w) + 1
        BY <1>1, <2>3, AppendEntry
  <2>5. EntriesIn(a) = EntriesIn(s)
        BY <1>1, <2>3, <2>4
  <2>6. Len(a) <= Len(s)
    <3>1. Len(w) = Len(s) - 1
          BY <2>2, WithoutKey DEF w
    <3> QED BY <1>1, <2>4, <3>1
  <2> HIDE DEF a
  <2> QED BY <1>1, <1>3, <2>1, <2>4, <2>5, <2>6
<1> QED BY <1>2, <1>3

-----------------------------------------------------------------------------
(* What the store has to do with the writes that ended.                     *)
Written(k) == kept[k].value # NoValue

(* What is remembered of a write is within the ttl.                         *)
Remembered ==
  \A k \in Key : IF Written(k) THEN kept[k].age < Ttl /\ IsFiniteSet(kept[k].since)
                               ELSE kept[k] = NeverWritten

(* An entry that has not expired is the write of its key that ended last.   *)
ServesLatest ==
  \A e \in EntriesIn(store) :
    e.age < Ttl => e.value = kept[e.key].value /\ e.age = kept[e.key].age

(* The entry is there, and what comes after it was used since; or it is     *)
(* gone, and enough keys were used since.                                   *)
KeepsKey(k) ==
  \/ \E e \in EntriesIn(store) : /\ e.key = k /\ e.age = kept[k].age
                                 /\ Later(store, k) \subseteq kept[k].since
  \/ k \notin KeysIn(store) /\ Cardinality(kept[k].since) >= MaxSize

KeepsRecent == \A k \in Key : Written(k) => KeepsKey(k)

CacheInv == Remembered /\ ServesLatest /\ KeepsRecent

(* The store is one of the stores that the lemmas above are about.          *)
LEMMA EntryTypes ==
  ASSUME TypeOK
  PROVE  /\ store \in Stores /\ Len(store) <= MaxSize
         /\ \A e \in EntriesIn(store) : /\ e \in CacheEntry /\ e.key \in Key /\ e.age \in 0 .. Ttl
                                        /\ e.value \in Task /\ e.value # NoValue
BY StoreShape, FallbackAssumption DEF TypeOK, Stores, KeyedOnce, EntriesIn, Value

(* A use of k is a use of a key other than m, and of m nothing else changes.*)
LEMMA UsedSince ==
  ASSUME TypeOK, CacheInv, NEW k \in Key, NEW x, kept' = Used(k, x), NEW m \in Key \ {k}
  PROVE  /\ Written(m)' <=> Written(m)
         /\ ~Written(m) => kept'[m] = NeverWritten
         /\ Written(m) => /\ kept'[m].value = kept[m].value /\ kept'[m].age = kept[m].age
                          /\ kept'[m].since = kept[m].since \union {k}
                          /\ kept'[m].since \in SUBSET Key /\ IsFiniteSet(kept'[m].since)
                          /\ kept[m].age < Ttl /\ IsFiniteSet(kept[m].since)
<1>1. kept'[m] = IF Written(m) THEN [kept[m] EXCEPT !.since = @ \union {k}] ELSE NeverWritten
      BY DEF Used, Written
<1>2. CASE ~Written(m)
  <2>1. kept'[m] = NeverWritten
        BY <1>1, <1>2
  <2> QED BY <1>2, <2>1 DEF Written, NeverWritten
<1>3. CASE Written(m)
  <2>1. kept[m] \in [value : Value \union {NoValue}, age : 0 .. Ttl, since : SUBSET Key]
        BY DEF TypeOK
  <2>2. /\ kept'[m].value = kept[m].value /\ kept'[m].age = kept[m].age
        /\ kept'[m].since = kept[m].since \union {k}
        BY <1>1, <1>3, <2>1
  <2>3. kept[m].age < Ttl /\ IsFiniteSet(kept[m].since)
        BY <1>3 DEF CacheInv, Remembered
  <2>4. IsFiniteSet(kept[m].since \union {k})
        BY <2>3, FS_AddElement
  <2> QED BY <1>3, <2>1, <2>2, <2>3, <2>4 DEF Written
<1> QED BY <1>2, <1>3

(* The end of a write (manager.py:209-240).                                 *)
LEMMA PutKeeps ==
  ASSUME TypeOK, CacheInv, NEW k \in Key, NEW t \in Task,
         store' = AfterPut(store, k, t),
         kept' = Used(k, [value |-> t, age |-> 0, since |-> {}])
  PROVE  CacheInv'
<1>0. PICK r, s : r = AfterPut(s, k, t) /\ s = store
      OBVIOUS
<1>1. /\ store \in Stores /\ Len(store) <= MaxSize
      /\ \A e \in EntriesIn(store) : e \in CacheEntry /\ e.key \in Key /\ e.value # NoValue
      BY EntryTypes
<1>2. t \in Value
      BY DEF Value
<1>3. /\ r \in Stores /\ Len(r) <= MaxSize
      /\ EntriesIn(r) \subseteq {e \in EntriesIn(store) : e.key # k} \union {Entry(k, t)}
      /\ Later(r, k) = {}
      /\ Entry(k, t) \notin EntriesIn(r) => k \notin KeysIn(r) /\ MaxSize = 0
      /\ \A e \in EntriesIn(store) : e.key # k =>
           \/ e \in EntriesIn(r) /\ Later(r, e.key) \subseteq Later(store, e.key) \union {k}
           \/ /\ e.key \notin KeysIn(r)
              /\ \A S \in SUBSET Key :
                   IsFiniteSet(S) /\ Later(store, e.key) \union {k} \subseteq S
                     => Cardinality(S) >= MaxSize
  <2>1. /\ s \in Stores /\ Len(s) <= MaxSize /\ r = AfterPut(s, k, t)
        BY <1>0, <1>1
  <2> QED BY <1>0, <1>2, <2>1, PutEntry
<1>4. store' = r
      BY <1>0
<1>5. kept'[k] = [value |-> t, age |-> 0, since |-> {}]
      BY DEF Used
<1>6. \A m \in Key \ {k} :
        /\ Written(m)' <=> Written(m)
        /\ ~Written(m) => kept'[m] = NeverWritten
        /\ Written(m) => /\ kept'[m].value = kept[m].value /\ kept'[m].age = kept[m].age
                         /\ kept'[m].since = kept[m].since \union {k}
                         /\ kept'[m].since \in SUBSET Key /\ IsFiniteSet(kept'[m].since)
                         /\ kept[m].age < Ttl /\ IsFiniteSet(kept[m].since)
      BY UsedSince
<1>7. t # NoValue /\ 0 < Ttl
      BY FallbackAssumption, CacheAssumption
<1>8. Remembered'
  <2> SUFFICES ASSUME NEW m \in Key
               PROVE  IF Written(m)' THEN kept'[m].age < Ttl /\ IsFiniteSet(kept'[m].since)
                                     ELSE kept'[m] = NeverWritten
      BY DEF Remembered
  <2>1. CASE m = k
    <3>1. kept'[m].value = t /\ kept'[m].age = 0 /\ kept'[m].since = {}
          BY <1>5, <2>1
    <3>2. IsFiniteSet({})
          BY FS_EmptySet
    <3> QED BY <1>7, <3>1, <3>2 DEF Written
  <2>2. CASE m # k
        BY <1>6, <2>2
  <2> QED BY <2>1, <2>2
<1>9. ServesLatest'
  <2> SUFFICES ASSUME NEW e \in EntriesIn(r), e.age < Ttl
               PROVE  e.value = kept'[e.key].value /\ e.age = kept'[e.key].age
      BY <1>4 DEF ServesLatest
  <2>1. CASE e = Entry(k, t)
        BY <1>5, <2>1 DEF Entry
  <2>2. CASE e \in EntriesIn(store) /\ e.key # k
    <3>1. Written(e.key)
          BY <1>1, <2>2 DEF CacheInv, ServesLatest, Written
    <3> QED BY <1>1, <1>6, <2>2, <3>1 DEF CacheInv, ServesLatest
  <2> QED BY <1>3, <2>1, <2>2
<1>10. ASSUME NEW m \in Key, Written(m)'
       PROVE  KeepsKey(m)'
  <2>1. CASE m = k
    <3>1. CASE Entry(k, t) \in EntriesIn(r)
      <4>1. Entry(k, t).key = k /\ Entry(k, t).age = kept'[k].age /\ kept'[k].since = {}
            BY <1>5 DEF Entry
      <4> QED BY <1>3, <1>4, <2>1, <3>1, <4>1 DEF KeepsKey
    <3>2. CASE k \notin KeysIn(r) /\ MaxSize = 0
      <4>1. kept'[m].since = {} /\ Cardinality({}) = 0
            BY <1>5, <2>1, FS_EmptySet
      <4>2. Cardinality(kept'[m].since) >= MaxSize /\ m \notin KeysIn(r)
            BY <2>1, <3>2, <4>1
      <4> QED BY <1>4, <4>1, <4>2 DEF KeepsKey
    <3> QED BY <1>3, <3>1, <3>2
  <2>2. CASE m # k
    <3>1. Written(m)
          BY <1>6, <1>10, <2>2
    <3>2. /\ kept'[m].age = kept[m].age /\ kept'[m].since = kept[m].since \union {k}
          /\ kept'[m].since \in SUBSET Key /\ IsFiniteSet(kept'[m].since)
          /\ IsFiniteSet(kept[m].since)
          BY <1>6, <2>2, <3>1
    <3>3. ASSUME NEW e \in EntriesIn(store), e.key = m, e.age = kept[m].age,
                 Later(store, m) \subseteq kept[m].since
          PROVE  KeepsKey(m)'
      <4>1. CASE e \in EntriesIn(r) /\ Later(r, m) \subseteq Later(store, m) \union {k}
            BY <1>4, <3>2, <3>3, <4>1 DEF KeepsKey
      <4>2. CASE /\ m \notin KeysIn(r)
                 /\ \A S \in SUBSET Key :
                      IsFiniteSet(S) /\ Later(store, m) \union {k} \subseteq S
                        => Cardinality(S) >= MaxSize
        <5>1. Cardinality(kept'[m].since) >= MaxSize
              BY <3>2, <3>3, <4>2
        <5> QED BY <1>4, <4>2, <5>1 DEF KeepsKey
      <4> QED BY <1>3, <2>2, <3>3, <4>1, <4>2
    <3>4. CASE m \notin KeysIn(store) /\ Cardinality(kept[m].since) >= MaxSize
      <4>1. m \notin KeysIn(r)
            BY <1>3, <2>2, <3>4, KeysOfEntries DEF Entry
      <4>2. Cardinality(kept[m].since) <= Cardinality(kept'[m].since)
            BY <3>2, FS_Subset
      <4>3. Cardinality(kept'[m].since) >= MaxSize
        <5>1. Cardinality(kept[m].since) \in Nat /\ Cardinality(kept'[m].since) \in Nat /\ MaxSize \in Nat
              BY <3>2, FS_CardinalityType, CacheAssumption
        <5> QED BY <3>4, <4>2, <5>1
      <4> QED BY <1>4, <4>1, <4>3 DEF KeepsKey
    <3> QED BY <3>1, <3>3, <3>4 DEF CacheInv, KeepsRecent, KeepsKey
  <2> QED BY <2>1, <2>2
<1> QED BY <1>8, <1>9, <1>10 DEF CacheInv, KeepsRecent

(* The end of a read that the cache answers, or does not                    *)
(* (manager.py:35-44, 190-200).                                             *)
LEMMA GetKeeps ==
  ASSUME TypeOK, CacheInv, NEW k \in Key,
         store' = AfterGet(store, k),
         kept' = IF Found(store, k) = NoValue THEN kept ELSE Used(k, [kept[k] EXCEPT !.since = {}])
  PROVE  CacheInv'
<1>0. PICK r, s : r = AfterGet(s, k) /\ s = store
      OBVIOUS
<1>1. /\ store \in Stores
      /\ \A e \in EntriesIn(store) : e \in CacheEntry /\ e.key \in Key /\ e.value # NoValue
      BY EntryTypes
<1>2. /\ r \in Stores
      /\ Hit(store, k) => /\ EntriesIn(r) = EntriesIn(store)
                          /\ Later(r, k) = {}
                          /\ \A m \in Key \ {k} : Later(r, m) \subseteq Later(store, m) \union {k}
      /\ ~Hit(store, k) => /\ EntriesIn(r) = {e \in EntriesIn(store) : e.key # k}
                           /\ \A m \in Key \ {k} : Later(r, m) \subseteq Later(store, m)
  <2>1. s \in Stores
        BY <1>0, <1>1
  <2> QED BY <1>0, <2>1, GetEntry
<1>3. store' = r
      BY <1>0
<1>4. KeysIn(r) \subseteq KeysIn(store)
      BY <1>2, KeysOfEntries
<1>5. CASE Hit(store, k)
  <2>1. PICK e0 \in EntriesIn(store) : e0.key = k /\ e0.age < Ttl /\ Found(store, k) = e0.value
        BY <1>1, <1>5, FoundValue
  <2>2. Written(k) /\ Found(store, k) # NoValue
        BY <1>1, <2>1 DEF CacheInv, ServesLatest, Written
  <2>3. kept' = Used(k, [kept[k] EXCEPT !.since = {}])
        BY <2>2
  <2>4. kept'[k] = [kept[k] EXCEPT !.since = {}]
        BY <2>3 DEF Used
  <2>5. kept'[k].value = kept[k].value /\ kept'[k].age = kept[k].age /\ kept'[k].since = {}
        BY <2>4 DEF TypeOK
  <2>6. \A m \in Key \ {k} :
          /\ Written(m)' <=> Written(m)
          /\ ~Written(m) => kept'[m] = NeverWritten
          /\ Written(m) => /\ kept'[m].value = kept[m].value /\ kept'[m].age = kept[m].age
                           /\ kept'[m].since = kept[m].since \union {k}
                           /\ kept'[m].since \in SUBSET Key /\ IsFiniteSet(kept'[m].since)
                           /\ kept[m].age < Ttl /\ IsFiniteSet(kept[m].since)
        BY <2>3, UsedSince
  <2>7. \A m \in Key : /\ Written(m)' <=> Written(m)
                       /\ Written(m) => kept'[m].value = kept[m].value /\ kept'[m].age = kept[m].age
    <3>1. Written(k)' <=> Written(k)
          BY <2>5 DEF Written
    <3> QED BY <2>5, <2>6, <3>1
  <2>8. Remembered'
    <3> SUFFICES ASSUME NEW m \in Key
                 PROVE  IF Written(m)' THEN kept'[m].age < Ttl /\ IsFiniteSet(kept'[m].since)
                                       ELSE kept'[m] = NeverWritten
        BY DEF Remembered
    <3>1. CASE m = k
      <4>1. IsFiniteSet({})
            BY FS_EmptySet
      <4>2. kept[k].age < Ttl
            BY <2>2 DEF CacheInv, Remembered
      <4> QED BY <2>2, <2>5, <2>7, <3>1, <4>1, <4>2
    <3>2. CASE m # k
          BY <2>6, <3>2
    <3> QED BY <3>1, <3>2
  <2>9. ServesLatest'
    <3> SUFFICES ASSUME NEW e \in EntriesIn(store), e.age < Ttl
                 PROVE  e.value = kept'[e.key].value /\ e.age = kept'[e.key].age
        BY <1>2, <1>3, <1>5 DEF ServesLatest
    <3>1. Written(e.key) /\ e.value = kept[e.key].value /\ e.age = kept[e.key].age
          BY <1>1 DEF CacheInv, ServesLatest, Written
    <3> QED BY <1>1, <2>7, <3>1
  <2>10. ASSUME NEW m \in Key, Written(m)'
         PROVE  KeepsKey(m)'
    <3>1. CASE m = k
      <4>1. PICK e \in EntriesIn(store) : e.key = k /\ e.age = kept[k].age
        <5>1. e0.age = kept[k].age
              BY <2>1 DEF CacheInv, ServesLatest
        <5> QED BY <2>1, <5>1
      <4> QED BY <1>2, <1>3, <1>5, <2>5, <3>1, <4>1 DEF KeepsKey
    <3>2. CASE m # k
      <4>1. /\ Written(m) /\ kept'[m].age = kept[m].age /\ kept'[m].since = kept[m].since \union {k}
            /\ kept'[m].since \in SUBSET Key /\ IsFiniteSet(kept'[m].since)
            /\ IsFiniteSet(kept[m].since)
            BY <2>6, <2>10, <3>2
      <4>2. CASE \E e \in EntriesIn(store) : /\ e.key = m /\ e.age = kept[m].age
                                             /\ Later(store, m) \subseteq kept[m].since
            BY <1>2, <1>3, <1>5, <3>2, <4>1, <4>2 DEF KeepsKey
      <4>3. CASE m \notin KeysIn(store) /\ Cardinality(kept[m].since) >= MaxSize
        <5>1. Cardinality(kept[m].since) <= Cardinality(kept'[m].since)
              BY <4>1, FS_Subset
        <5>2. Cardinality(kept'[m].since) >= MaxSize
          <6>1. /\ Cardinality(kept[m].since) \in Nat /\ Cardinality(kept'[m].since) \in Nat
                /\ MaxSize \in Nat
                BY <4>1, FS_CardinalityType, CacheAssumption
          <6> QED BY <4>3, <5>1, <6>1
        <5> QED BY <1>3, <1>4, <4>3, <5>2 DEF KeepsKey
      <4> QED BY <4>1, <4>2, <4>3 DEF CacheInv, KeepsRecent, KeepsKey
    <3> QED BY <3>1, <3>2
  <2> QED BY <2>8, <2>9, <2>10 DEF CacheInv, KeepsRecent
<1>6. CASE ~Hit(store, k)
  <2>1. kept' = kept
        BY <1>1, <1>6, FoundValue
  <2>2. Remembered'
        BY <2>1 DEF CacheInv, Remembered, Written
  <2>3. ServesLatest'
        BY <1>2, <1>3, <1>6, <2>1 DEF CacheInv, ServesLatest
  <2>4. ASSUME NEW m \in Key, Written(m)
        PROVE  KeepsKey(m)'
    <3>1. ASSUME NEW e \in EntriesIn(store), e.key = m, e.age = kept[m].age,
                 Later(store, m) \subseteq kept[m].since
          PROVE  KeepsKey(m)'
      <4>1. e.age < Ttl
            BY <2>4, <3>1 DEF CacheInv, Remembered
      <4>2. m # k
            BY <1>1, <1>6, <3>1, <4>1, FoundValue
      <4> QED BY <1>2, <1>3, <1>6, <2>1, <3>1, <4>2 DEF KeepsKey
    <3>2. CASE m \notin KeysIn(store) /\ Cardinality(kept[m].since) >= MaxSize
          BY <1>3, <1>4, <2>1, <3>2 DEF KeepsKey
    <3> QED BY <2>4, <3>1, <3>2 DEF CacheInv, KeepsRecent, KeepsKey
  <2> QED BY <2>1, <2>2, <2>3, <2>4 DEF CacheInv, KeepsRecent, Written
<1> QED BY <1>5, <1>6

(* A delete (manager.py:54-56).                                             *)
LEMMA DeleteKeeps ==
  ASSUME TypeOK, CacheInv, NEW k \in Key, Delete(k)
  PROVE  CacheInv'
<1>0. PICK r, s : r = Without(s, k) /\ s = store
      OBVIOUS
<1>1. store \in Stores
      BY EntryTypes
<1>2. /\ r \in Stores
      /\ EntriesIn(r) = {e \in EntriesIn(store) : e.key # k}
      /\ KeysIn(r) = KeysIn(store) \ {k}
      /\ \A m \in Key \ {k} : Later(r, m) \subseteq Later(store, m)
  <2>1. s \in Stores
        BY <1>0, <1>1
  <2> QED BY <1>0, <2>1, WithoutKey
<1>3. store' = r
      BY <1>0 DEF Delete
<1>4. kept'[k] = NeverWritten /\ \A m \in Key \ {k} : kept'[m] = kept[m]
      BY DEF Delete, TypeOK
<1>5. ~Written(k)' /\ \A m \in Key \ {k} : Written(m)' <=> Written(m)
      BY <1>4 DEF Written, NeverWritten
<1>6. Remembered'
      BY <1>4, <1>5 DEF CacheInv, Remembered
<1>7. ServesLatest'
      BY <1>2, <1>3, <1>4, EntryTypes DEF CacheInv, ServesLatest
<1>8. ASSUME NEW m \in Key, Written(m)'
      PROVE  KeepsKey(m)'
  <2>1. m # k /\ Written(m) /\ kept'[m] = kept[m]
        BY <1>4, <1>5, <1>8
  <2>2. KeepsKey(m)
        BY <2>1 DEF CacheInv, KeepsRecent
  <2> QED BY <1>2, <1>3, <2>1, <2>2 DEF KeepsKey
<1> QED BY <1>6, <1>7, <1>8 DEF CacheInv, KeepsRecent

(* A tick: what was written ages as its entry does.                         *)
LEMMA TickKeeps ==
  ASSUME TypeOK, CacheInv, Tick
  PROVE  CacheInv'
<1>0. PICK r, s : r = Aged(s) /\ s = store
      OBVIOUS
<1>1. store \in Stores
      BY EntryTypes
<1>2. /\ \A e \in EntriesIn(store) :
           [e EXCEPT !.age = IF e.age < Ttl THEN e.age + 1 ELSE Ttl] \in EntriesIn(r)
      /\ \A d \in EntriesIn(r) : \E e \in EntriesIn(store) :
           /\ d.key = e.key /\ d.value = e.value
           /\ d.age = IF e.age < Ttl THEN e.age + 1 ELSE Ttl
      /\ KeysIn(r) = KeysIn(store)
      /\ \A m \in Key : Later(r, m) = Later(store, m)
  <2>1. s \in Stores
        BY <1>0, <1>1
  <2> QED BY <1>0, <2>1, AgedStore
<1>3. store' = r
      BY <1>0 DEF Tick
<1>4. \A m \in Key : kept'[m] = IF ~Written(m) \/ kept[m].age + 1 >= Ttl
                                 THEN NeverWritten ELSE [kept[m] EXCEPT !.age = kept[m].age + 1]
      BY DEF Tick, Written
<1>5. ASSUME NEW m \in Key, Written(m), kept[m].age + 1 < Ttl
      PROVE  /\ Written(m)' /\ kept'[m].value = kept[m].value
             /\ kept'[m].age = kept[m].age + 1 /\ kept'[m].since = kept[m].since
  <2>1. kept[m] \in [value : Value \union {NoValue}, age : 0 .. Ttl, since : SUBSET Key]
        BY DEF TypeOK
  <2>2. kept[m].age \in Nat /\ Ttl \in Nat
        BY <2>1, CacheAssumption
  <2>3. kept'[m] = [kept[m] EXCEPT !.age = kept[m].age + 1]
        BY <1>4, <1>5, <2>2
  <2> QED BY <1>5, <2>1, <2>3 DEF Written
<1>6. ASSUME NEW m \in Key, ~(Written(m) /\ kept[m].age + 1 < Ttl)
      PROVE  ~Written(m)' /\ kept'[m] = NeverWritten
  <2>1. kept[m].age \in Nat /\ Ttl \in Nat
        BY CacheAssumption DEF TypeOK
  <2>2. ~Written(m) \/ kept[m].age + 1 >= Ttl
        BY <1>6, <2>1
  <2>3. kept'[m] = NeverWritten
        BY <1>4, <2>2
  <2> QED BY <2>3 DEF Written, NeverWritten
<1>7. Remembered'
  <2> SUFFICES ASSUME NEW m \in Key
               PROVE  IF Written(m)' THEN kept'[m].age < Ttl /\ IsFiniteSet(kept'[m].since)
                                     ELSE kept'[m] = NeverWritten
      BY DEF Remembered
  <2>1. CASE Written(m) /\ kept[m].age + 1 < Ttl
        BY <1>5, <2>1 DEF CacheInv, Remembered
  <2>2. CASE ~(Written(m) /\ kept[m].age + 1 < Ttl)
        BY <1>6, <2>2
  <2> QED BY <2>1, <2>2
<1>8. ServesLatest'
  <2> SUFFICES ASSUME NEW d \in EntriesIn(r), d.age < Ttl
               PROVE  d.value = kept'[d.key].value /\ d.age = kept'[d.key].age
      BY <1>3 DEF ServesLatest
  <2>1. PICK e \in EntriesIn(store) : /\ d.key = e.key /\ d.value = e.value
                                      /\ d.age = IF e.age < Ttl THEN e.age + 1 ELSE Ttl
        BY <1>2
  <2>2. e.key \in Key /\ e.age \in 0 .. Ttl /\ e.value # NoValue
        BY EntryTypes
  <2>3. e.age < Ttl /\ d.age = e.age + 1
    <3>1. Ttl \in Nat /\ e.age \in Nat
          BY <2>2, CacheAssumption
    <3> QED BY <2>1, <3>1
  <2>4. Written(e.key) /\ e.value = kept[e.key].value /\ e.age = kept[e.key].age
        BY <2>2, <2>3 DEF CacheInv, ServesLatest, Written
  <2> QED BY <1>5, <2>1, <2>2, <2>3, <2>4
<1>9. ASSUME NEW m \in Key, Written(m)'
      PROVE  KeepsKey(m)'
  <2>1. Written(m) /\ kept[m].age + 1 < Ttl
        BY <1>6, <1>9
  <2>2. kept'[m].age = kept[m].age + 1 /\ kept'[m].since = kept[m].since
        BY <1>5, <2>1
  <2>3. ASSUME NEW e \in EntriesIn(store), e.key = m, e.age = kept[m].age,
               Later(store, m) \subseteq kept[m].since
        PROVE  KeepsKey(m)'
    <3> DEFINE d == [e EXCEPT !.age = IF e.age < Ttl THEN e.age + 1 ELSE Ttl]
    <3>1. e.age \in Nat /\ Ttl \in Nat /\ e \in CacheEntry
          BY EntryTypes, CacheAssumption
    <3>2. d \in EntriesIn(r) /\ d.key = m /\ d.age = kept'[m].age
          BY <1>2, <2>1, <2>2, <2>3, <3>1 DEF CacheEntry
    <3> QED BY <1>2, <1>3, <2>2, <2>3, <3>2 DEF KeepsKey
  <2>4. CASE m \notin KeysIn(store) /\ Cardinality(kept[m].since) >= MaxSize
        BY <1>2, <1>3, <2>2, <2>4 DEF KeepsKey
  <2> QED BY <2>1, <2>3, <2>4 DEF CacheInv, KeepsRecent, KeepsKey
<1> QED BY <1>7, <1>8, <1>9 DEF CacheInv, KeepsRecent

-----------------------------------------------------------------------------
(* What the steps of an operation come to, whoever was asked.               *)
MarksOK(marks) == /\ marks \in [DOMAIN marks -> 0 .. RecoveryTimeout + 1]
                  /\ DOMAIN marks \subseteq Node

EndsWrite(t) ==
  /\ Busy(t) /\ task[t].kind = "write"
  /\ CacheWrite(t)
  /\ task' = [task EXCEPT ![t] = Idle("done")]

EndsRead(t) ==
  /\ Busy(t) /\ task[t].kind = "read"
  /\ task' = [task EXCEPT ![t] = Idle("done")]
  /\ UNCHANGED <<store, kept>>

ReadsCache(t, k) ==
  /\ Busy(t) /\ task[t].kind = "read" /\ task[t].key = k
  /\ store' = AfterGet(store, k)
  /\ kept' = IF Found(store, k) = NoValue THEN kept ELSE Used(k, [kept[k] EXCEPT !.since = {}])
  /\ task' = [task EXCEPT ![t] = Idle(IF Found(store, k) = NoValue THEN "null" ELSE "done")]

AsksReplica(t) ==
  /\ Busy(t)
  /\ \E n \in Node : task' = [task EXCEPT ![t].step = "replica", ![t].asks = n]
  /\ UNCHANGED <<store, kept>>

Ends(t) == EndsWrite(t) \/ EndsRead(t) \/ \E k \in Key : ReadsCache(t, k)

(* A task that is under way has a key, a kind and a node that it asks.      *)
LEMMA BusyTypes ==
  ASSUME TypeOK, NEW t \in Task
  PROVE  Busy(t) => /\ task[t] \in BusyTask /\ task[t].key \in Key /\ task[t].asks \in Node
                    /\ task[t].kind \in {"read", "write"}
<1>1. task[t] \in IdleTask \union BusyTask
      BY DEF TypeOK
<1> QED BY <1>1 DEF Busy, IdleTask, BusyTask, Kind

(* With no node left to ask, the operation ends (manager.py:190-200).       *)
LEMMA DegradeEnds ==
  ASSUME TypeOK, NEW t \in Task, Busy(t), Degrade(t)
  PROVE  Ends(t)
<1>1. task[t].key \in Key /\ task[t].kind \in {"read", "write"}
      BY BusyTypes
<1>2. CASE task[t].kind = "write"
      BY <1>2 DEF Degrade, Ends, EndsWrite
<1>3. CASE task[t].kind = "read"
  <2>1. ReadsCache(t, task[t].key)
        BY <1>3 DEF Degrade, ReadsCache
  <2> QED BY <1>1, <2>1 DEF Ends
<1> QED BY <1>1, <1>2, <1>3

(* The replica that is chosen is one of the key's (manager.py:90-106).      *)
LEMMA AvailableNode ==
  ASSUME NEW k \in Key, NEW marks, Available(marks, k) # 0
  PROVE  Replicas[k][Available(marks, k)] \in Node
<1> DEFINE I == {i \in 1 .. Len(Replicas[k]) : ~IsFailed(marks, Replicas[k][i])}
<1>1. Replicas[k] \in Seq(Node)
      BY FallbackAssumption
<1>2. Available(marks, k) = IF I # {} THEN Min(I) ELSE 0
      BY DEF Available, SelectInSeq
<1>3. I # {} /\ Available(marks, k) = Min(I)
      BY <1>2
<1>4. I \in SUBSET Nat
  <2>1. 1 .. Len(Replicas[k]) \subseteq Nat
        OBVIOUS
  <2> QED BY <2>1
<1> HIDE DEF I
<1>5. PICK p \in I : \A q \in I : ~(<<q, p>> \in OpToRel(<, Nat))
      BY <1>3, <1>4, NatLessThanWellFounded, WFMin
<1>6. \A q \in I : p <= q
  <2>1. \A q \in I : q \in Nat /\ p \in Nat /\ ~(q < p)
        BY <1>4, <1>5 DEF OpToRel
  <2> QED BY <2>1
<1>7. Min(I) \in I
      BY <1>6 DEF Min
<1>8. Available(marks, k) \in 1 .. Len(Replicas[k])
      BY <1>3, <1>7 DEF I
<1> QED BY <1>1, <1>8, ElementOfSeq

(* With the choice of a replica an operation goes on or ends.               *)
LEMMA AskReplicaEnds ==
  ASSUME TypeOK, NEW t \in Task, Busy(t), NEW marks, MarksOK(marks), AskReplica(t, marks)
  PROVE  MarksOK(failed') /\ (Ends(t) \/ AsksReplica(t))
<1>1. task[t].key \in Key
      BY BusyTypes
<1>2. CASE Available(marks, task[t].key) = 0
  <2>1. failed' = marks /\ Degrade(t)
        BY <1>2 DEF AskReplica
  <2> QED BY <2>1, DegradeEnds
<1>3. CASE Available(marks, task[t].key) # 0
  <2>1. PICK n \in Node : n = Replicas[task[t].key][Available(marks, task[t].key)]
        BY <1>1, <1>3, AvailableNode
  <2>2. /\ failed' = [x \in DOMAIN marks \ {n} |-> marks[x]]
        /\ task' = [task EXCEPT ![t].step = "replica", ![t].asks = n]
        /\ UNCHANGED <<store, kept>>
        BY <1>3, <2>1 DEF AskReplica, Restrict
  <2>3. MarksOK(failed')
        BY <2>2 DEF MarksOK
  <2>4. AsksReplica(t)
        BY <2>2 DEF AsksReplica
  <2> QED BY <2>3, <2>4
<1> QED BY <1>2, <1>3

(* Every step of an operation, and what it does to the marks.               *)
LEMMA StepShapes ==
  ASSUME TypeOK, Next
  PROVE  /\ MarksOK(failed')
         /\ \/ \E t \in Task, kind \in Kind, k \in Key : Begin(t, kind, k)
            \/ \E t \in Task : Ends(t) \/ AsksReplica(t)
            \/ \E n \in Node : Recover(n)
            \/ \E k \in Key : Delete(k)
            \/ Tick
<1>1. MarksOK(failed) /\ RecoveryTimeout \in Nat
      BY FallbackAssumption DEF TypeOK, MarksOK
<1>2. ASSUME NEW t \in Task, NEW kind \in Kind, NEW k \in Key, Begin(t, kind, k)
      PROVE  MarksOK(failed')
      BY <1>1, <1>2 DEF Begin, MarksOK
<1>3. ASSUME NEW t \in Task, Answered(t)
      PROVE  MarksOK(failed') /\ Ends(t)
  <2>1. Busy(t) /\ failed' = failed /\ task' = [task EXCEPT ![t] = Idle("done")]
        BY <1>3 DEF Answered
  <2>2. task[t].kind \in {"read", "write"}
        BY <2>1, BusyTypes
  <2>3. EndsWrite(t) \/ EndsRead(t)
        BY <1>3, <2>1, <2>2 DEF Answered, EndsWrite, EndsRead
  <2>4. MarksOK(failed')
        BY <1>1, <2>1 DEF MarksOK
  <2> QED BY <2>3, <2>4 DEF Ends
<1>4. ASSUME NEW t \in Task, PrimaryDeclined(t)
      PROVE  MarksOK(failed') /\ (Ends(t) \/ AsksReplica(t))
  <2>1. Busy(t) /\ AskReplica(t, failed)
        BY <1>4 DEF PrimaryDeclined, Busy
  <2> QED BY <1>1, <2>1, AskReplicaEnds
<1>5. ASSUME NEW t \in Task, PrimaryRaised(t)
      PROVE  MarksOK(failed') /\ (Ends(t) \/ AsksReplica(t))
  <2>1. Busy(t) /\ AskReplica(t, MarkedAt(t))
        BY <1>5 DEF PrimaryRaised, Busy
  <2>2. task[t].asks \in Node
        BY <2>1, BusyTypes
  <2>3. MarksOK(MarkedAt(t))
        BY <1>1, <2>2 DEF MarksOK, MarkedAt
  <2> QED BY <2>1, <2>3, AskReplicaEnds
<1>6. ASSUME NEW t \in Task, ReplicaFailed(t)
      PROVE  MarksOK(failed') /\ Ends(t)
  <2>1. Busy(t) /\ Degrade(t) /\ failed' = failed
        BY <1>6 DEF ReplicaFailed, Busy
  <2>2. MarksOK(failed')
        BY <1>1, <2>1 DEF MarksOK
  <2> QED BY <2>1, <2>2, DegradeEnds
<1>7. ASSUME NEW n \in Node, Recover(n)
      PROVE  MarksOK(failed')
      BY <1>1, <1>7 DEF Recover, Restrict, MarksOK
<1>8. ASSUME NEW k \in Key, Delete(k)
      PROVE  MarksOK(failed')
      BY <1>1, <1>8 DEF Delete, MarksOK
<1>9. ASSUME Tick
      PROVE  MarksOK(failed')
  <2>1. failed' = [n \in DOMAIN failed |->
                     IF failed[n] <= RecoveryTimeout THEN failed[n] + 1 ELSE failed[n]]
        BY <1>9 DEF Tick
  <2>2. \A n \in DOMAIN failed : failed'[n] \in 0 .. RecoveryTimeout + 1
        BY <1>1, <2>1 DEF MarksOK
  <2> QED BY <1>1, <2>1, <2>2 DEF MarksOK
<1> QED BY <1>2, <1>3, <1>4, <1>5, <1>6, <1>7, <1>8, <1>9 DEF Next

-----------------------------------------------------------------------------
(* The types are kept.                                                      *)
Remembering == [value : Value \union {NoValue}, age : 0 .. Ttl, since : SUBSET Key]

StoreOK(s) == s \in Stores /\ Len(s) <= MaxSize

(* The type invariant in the parts that the steps change.                   *)
LEMMA TypesInParts ==
  TypeOK <=> /\ StoreOK(store)
             /\ MarksOK(failed)
             /\ task \in [Task -> IdleTask \union BusyTask]
             /\ kept \in [Key -> Remembering]
BY DEF TypeOK, StoreOK, Stores, KeyedOnce, MarksOK, Remembering

(* What is remembered of a key that was never written has its type.         *)
LEMMA NeverWrittenType == NeverWritten \in Remembering
<1>1. 0 \in 0 .. Ttl
      BY CacheAssumption
<1> QED BY <1>1 DEF NeverWritten, Remembering

(* So has what is remembered after a use.                                   *)
LEMMA UsedTypes ==
  ASSUME kept \in [Key -> Remembering], NEW k \in Key, NEW x \in Remembering
  PROVE  Used(k, x) \in [Key -> Remembering]
<1>1. \A m \in Key : [kept[m] EXCEPT !.since = @ \union {k}] \in Remembering
      BY DEF Remembering
<1> QED BY <1>1, NeverWrittenType DEF Used

(* No method of the cache makes it too long or brings a key in twice.       *)
LEMMA StoreKept ==
  ASSUME NEW s, StoreOK(s), NEW k \in Key
  PROVE  /\ \A v \in Value : StoreOK(AfterPut(s, k, v))
         /\ StoreOK(AfterGet(s, k))
         /\ StoreOK(Without(s, k))
<1>1. s \in Stores /\ Len(s) <= MaxSize /\ Len(s) \in Nat /\ MaxSize \in Nat
      BY StoreShape, CacheAssumption DEF StoreOK, Stores
<1>2. ASSUME NEW v \in Value
      PROVE  StoreOK(AfterPut(s, k, v))
      BY <1>1, PutEntry DEF StoreOK
<1>3. StoreOK(AfterGet(s, k))
  <2>1. PICK r : r = AfterGet(s, k)
        OBVIOUS
  <2>2. r \in Stores /\ Len(r) <= Len(s)
        BY <1>1, <2>1, GetEntry
  <2>3. Len(r) \in Nat
        BY <2>2, StoreShape DEF Stores
  <2>4. Len(r) <= MaxSize
        BY <1>1, <2>2, <2>3
  <2> QED BY <2>1, <2>2, <2>4 DEF StoreOK
<1>4. StoreOK(Without(s, k))
  <2>1. PICK r : r = Without(s, k)
        OBVIOUS
  <2>2. r \in Stores /\ Len(r) = IF Cached(s, k) THEN Len(s) - 1 ELSE Len(s)
        BY <1>1, <2>1, WithoutKey
  <2>3. Len(r) <= MaxSize
        BY <1>1, <2>2
  <2> QED BY <2>1, <2>2, <2>3 DEF StoreOK
<1> QED BY <1>2, <1>3, <1>4

(* Every step keeps the types.                                              *)
LEMMA TypesKept ==
  ASSUME TypeOK, [Next]_vars
  PROVE  TypeOK'
<1>1. /\ StoreOK(store) /\ task \in [Task -> IdleTask \union BusyTask]
      /\ kept \in [Key -> Remembering]
      BY TypesInParts
<1>2. Idle("done") \in IdleTask /\ Idle("null") \in IdleTask
      BY DEF Idle, IdleTask
<1>3. SUFFICES ASSUME Next
               PROVE  /\ StoreOK(store') /\ task' \in [Task -> IdleTask \union BusyTask]
                      /\ kept' \in [Key -> Remembering]
  <2>1. CASE UNCHANGED vars
        BY <2>1 DEF vars, TypeOK
  <2>2. CASE Next
    <3>1. MarksOK(failed')
          BY <2>2, StepShapes
    <3> QED BY <1>3, <2>2, <3>1
            DEF TypeOK, StoreOK, Stores, KeyedOnce, MarksOK, Remembering
  <2> QED BY <2>1, <2>2
<1>4. ASSUME NEW t \in Task, NEW kind \in Kind, NEW k \in Key, Begin(t, kind, k)
      PROVE  task' \in [Task -> IdleTask \union BusyTask] /\ UNCHANGED <<store, kept>>
  <2>1. Primary(k) \in Node
        BY FallbackAssumption, HeadTailProperties DEF Primary
  <2>2. [step |-> "primary", kind |-> kind, key |-> k, asks |-> Primary(k)] \in BusyTask
        BY <2>1 DEF BusyTask
  <2> QED BY <1>1, <1>4, <2>2 DEF Begin
<1>5. ASSUME NEW t \in Task, EndsWrite(t)
      PROVE  /\ StoreOK(store') /\ task' \in [Task -> IdleTask \union BusyTask]
             /\ kept' \in [Key -> Remembering]
  <2>1. task[t].key \in Key /\ t \in Value
        BY <1>5, BusyTypes DEF EndsWrite, Value
  <2>2. [value |-> t, age |-> 0, since |-> {}] \in Remembering
    <3>1. 0 \in 0 .. Ttl
          BY CacheAssumption
    <3> QED BY <2>1, <3>1 DEF Remembering
  <2>3. /\ store' = AfterPut(store, task[t].key, t)
        /\ kept' = Used(task[t].key, [value |-> t, age |-> 0, since |-> {}])
        /\ task' = [task EXCEPT ![t] = Idle("done")]
        BY <1>5 DEF EndsWrite, CacheWrite
  <2> QED BY <1>1, <1>2, <2>1, <2>2, <2>3, StoreKept, UsedTypes
<1>6. ASSUME NEW t \in Task, EndsRead(t)
      PROVE  task' \in [Task -> IdleTask \union BusyTask] /\ UNCHANGED <<store, kept>>
      BY <1>1, <1>2, <1>6 DEF EndsRead
<1>7. ASSUME NEW t \in Task, NEW k \in Key, ReadsCache(t, k)
      PROVE  /\ StoreOK(store') /\ task' \in [Task -> IdleTask \union BusyTask]
             /\ kept' \in [Key -> Remembering]
  <2>1. [kept[k] EXCEPT !.since = {}] \in Remembering
        BY <1>1 DEF Remembering
  <2>2. Used(k, [kept[k] EXCEPT !.since = {}]) \in [Key -> Remembering]
        BY <1>1, <2>1, UsedTypes
  <2> QED BY <1>1, <1>2, <1>7, <2>2, StoreKept DEF ReadsCache
<1>8. ASSUME NEW t \in Task, AsksReplica(t)
      PROVE  task' \in [Task -> IdleTask \union BusyTask] /\ UNCHANGED <<store, kept>>
  <2>1. PICK n \in Node : task' = [task EXCEPT ![t].step = "replica", ![t].asks = n]
        BY <1>8 DEF AsksReplica
  <2>2. task[t] \in BusyTask
        BY <1>8, BusyTypes DEF AsksReplica
  <2>3. [task[t] EXCEPT !.step = "replica", !.asks = n] \in BusyTask
        BY <2>2 DEF BusyTask
  <2> QED BY <1>1, <1>8, <2>1, <2>3 DEF AsksReplica
<1>9. ASSUME NEW k \in Key, Delete(k)
      PROVE  StoreOK(store') /\ UNCHANGED task /\ kept' \in [Key -> Remembering]
      BY <1>1, <1>9, StoreKept, NeverWrittenType DEF Delete
<1>10. ASSUME Tick
       PROVE  StoreOK(store') /\ UNCHANGED task /\ kept' \in [Key -> Remembering]
  <2>1. ASSUME NEW k \in Key
        PROVE  kept'[k] \in Remembering
    <3>1. kept[k] \in Remembering /\ kept[k].age \in 0 .. Ttl /\ Ttl \in Nat
          BY <1>1, CacheAssumption DEF Remembering
    <3>2. CASE kept[k].value = NoValue \/ kept[k].age + 1 >= Ttl
          BY <1>10, <3>2, NeverWrittenType DEF Tick
    <3>3. CASE ~(kept[k].value = NoValue \/ kept[k].age + 1 >= Ttl)
      <4>1. kept'[k] = [kept[k] EXCEPT !.age = @ + 1]
            BY <1>10, <3>3 DEF Tick
      <4>2. kept[k].age + 1 \in 0 .. Ttl
            BY <3>1, <3>3
      <4> QED BY <3>1, <4>1, <4>2 DEF Remembering
    <3> QED BY <3>2, <3>3
  <2>2. StoreOK(store')
        BY <1>1, <1>10, AgedStore DEF Tick, StoreOK
  <2>3. kept' = [k \in Key |-> kept'[k]]
        BY <1>10 DEF Tick
  <2> QED BY <1>10, <2>1, <2>2, <2>3 DEF Tick
<1>11. ASSUME NEW n \in Node, Recover(n)
       PROVE  UNCHANGED <<store, task, kept>>
       BY <1>11 DEF Recover
<1> QED BY <1>1, <1>3, <1>4, <1>5, <1>6, <1>7, <1>8, <1>9, <1>10, <1>11, StepShapes DEF Ends

(* The types hold of an empty cache and idle callers.                       *)
LEMMA TypesInitially == Init => TypeOK
<1> SUFFICES ASSUME Init PROVE TypeOK
    OBVIOUS
<1>1. StoreOK(store)
  <2>1. store = <<>> /\ MaxSize \in Nat
        BY CacheAssumption DEF Init, Empty
  <2>2. store \in Seq(CacheEntry) /\ Len(store) = 0 /\ DOMAIN store = {}
        BY <2>1
  <2>3. KeyedOnce(store)
        BY <2>2 DEF KeyedOnce
  <2> QED BY <2>1, <2>2, <2>3 DEF StoreOK, Stores
<1>2. MarksOK(failed)
      BY DEF Init, MarksOK
<1>3. task \in [Task -> IdleTask \union BusyTask]
      BY DEF Init, Idle, IdleTask
<1>4. kept \in [Key -> Remembering]
      BY NeverWrittenType DEF Init
<1> QED BY <1>1, <1>2, <1>3, <1>4, TypesInParts

(* Every step keeps the invariant of the cache.                             *)
LEMMA CacheKept ==
  ASSUME TypeOK, CacheInv, [Next]_vars
  PROVE  CacheInv'
<1>1. ASSUME UNCHANGED <<store, kept>>
      PROVE  CacheInv'
      BY <1>1 DEF CacheInv, Remembered, ServesLatest, KeepsRecent, KeepsKey, Written
<1>2. ASSUME NEW t \in Task, EndsWrite(t)
      PROVE  CacheInv'
  <2>1. task[t].key \in Key
        BY <1>2, BusyTypes DEF EndsWrite
  <2> QED BY <1>2, <2>1, PutKeeps DEF EndsWrite, CacheWrite
<1>3. ASSUME NEW t \in Task, NEW k \in Key, ReadsCache(t, k)
      PROVE  CacheInv'
      BY <1>3, GetKeeps DEF ReadsCache
<1>4. CASE UNCHANGED vars
      BY <1>1, <1>4 DEF vars
<1>5. CASE Next
  <2>1. ASSUME NEW t \in Task, Ends(t) \/ AsksReplica(t)
        PROVE  CacheInv'
        BY <1>1, <1>2, <1>3, <2>1 DEF Ends, EndsRead, AsksReplica
  <2>2. ASSUME NEW t \in Task, NEW kind \in Kind, NEW k \in Key, Begin(t, kind, k)
        PROVE  CacheInv'
        BY <1>1, <2>2 DEF Begin
  <2>3. ASSUME NEW n \in Node, Recover(n)
        PROVE  CacheInv'
        BY <1>1, <2>3 DEF Recover
  <2> QED BY <1>5, <2>1, <2>2, <2>3, DeleteKeeps, TickKeeps, StepShapes
<1> QED BY <1>4, <1>5

(* The invariant holds of an empty cache.                                   *)
LEMMA CacheInitially == Init => CacheInv
<1> SUFFICES ASSUME Init PROVE CacheInv
    OBVIOUS
<1>1. EntriesIn(store) = {}
      BY DEF Init, Empty, EntriesIn
<1>2. \A k \in Key : ~Written(k) /\ kept[k] = NeverWritten
      BY DEF Init, Written, NeverWritten
<1> QED BY <1>1, <1>2 DEF CacheInv, Remembered, ServesLatest, KeepsRecent

(* What a reader of the cache finds, by the invariant.                      *)
LEMMA FindsLast ==
  ASSUME TypeOK, CacheInv, NEW k \in Key
  PROVE  /\ Found(store, k) \in {kept[k].value, NoValue}
         /\ kept[k].value # NoValue /\ Cardinality(kept[k].since) < MaxSize
              => Found(store, k) = kept[k].value
<1>1. store \in Stores
      BY EntryTypes
<1>2. Found(store, k) \in {kept[k].value, NoValue}
  <2>1. CASE Hit(store, k)
        BY <1>1, <2>1, FoundValue DEF CacheInv, ServesLatest
  <2>2. CASE ~Hit(store, k)
        BY <1>1, <2>2, FoundValue
  <2> QED BY <2>1, <2>2
<1>3. ASSUME Written(k), Cardinality(kept[k].since) < MaxSize
      PROVE  Found(store, k) = kept[k].value
  <2>1. IsFiniteSet(kept[k].since) /\ kept[k].age < Ttl
        BY <1>3 DEF CacheInv, Remembered
  <2>2. ~(Cardinality(kept[k].since) >= MaxSize)
    <3>1. Cardinality(kept[k].since) \in Nat /\ MaxSize \in Nat
          BY <2>1, FS_CardinalityType, CacheAssumption
    <3> QED BY <1>3, <3>1
  <2>3. PICK e \in EntriesIn(store) : e.key = k /\ e.age = kept[k].age
        BY <1>3, <2>2 DEF CacheInv, KeepsRecent, KeepsKey
  <2>4. Hit(store, k) /\ Found(store, k) = e.value
        BY <1>1, <2>1, <2>3, FoundValue
  <2> QED BY <2>1, <2>3, <2>4 DEF CacheInv, ServesLatest
<1> QED BY <1>2, <1>3 DEF Written

(* The inductive invariant.                                                 *)
LEMMA FallbackInvariant == Spec => [](TypeOK /\ CacheInv)
<1>1. Init => TypeOK /\ CacheInv
      BY TypesInitially, CacheInitially
<1>2. TypeOK /\ CacheInv /\ [Next]_vars => (TypeOK /\ CacheInv)'
      BY TypesKept, CacheKept
<1> QED BY <1>1, <1>2, PTL DEF Spec

(* The variables have their types, each key is in the store once, and       *)
(* the store is never longer than its size.                                 *)
THEOREM FallbackTypes == Spec => []TypeOK
BY FallbackInvariant, PTL

(* What was written within the ttl is found with its latest value while     *)
(* fewer other keys were used since than the cache has room for, whatever   *)
(* the order of puts, hits, misses, deletes and ticks (manager.py:35-56).   *)
THEOREM RecentKept == Spec => []RecentIsKept
<1>1. TypeOK /\ CacheInv => RecentIsKept
      BY FindsLast DEF RecentIsKept
<1> QED BY <1>1, FallbackInvariant, PTL

(* The cache serves the write that ended last or nothing, however reads and *)
(* writes of the key overlap (manager.py:209-240).                          *)
THEOREM LastEndedServed == Spec => []ServesLastEnded
<1>1. TypeOK /\ CacheInv => ServesLastEnded
      BY FindsLast DEF ServesLastEnded
<1> QED BY <1>1, FallbackInvariant, PTL

(* Only a read that the cache was asked for last ends with nothing, and     *)
(* then there was nothing recent to find (manager.py:164-200).              *)
THEOREM NullMeansGone == Spec => NullOnlyWhenGone
<1>1. ASSUME TypeOK, CacheInv, [Next]_vars, NEW t \in Task,
             Busy(t), task'[t].step = "idle", task'[t].answer = "null"
      PROVE  kept[task[t].key].value = NoValue \/ Cardinality(kept[task[t].key].since) >= MaxSize
  <2>1. task[t] \in BusyTask /\ task[t].key \in Key
        BY <1>1, BusyTypes
  <2>2. task \in [Task -> IdleTask \union BusyTask]
        BY <1>1 DEF TypeOK
  <2>3. task'[t] # task[t]
        BY <1>1 DEF Busy
  <2>4. Next
        BY <1>1, <2>3 DEF vars
  <2>5. ASSUME NEW u \in Task, NEW kind \in Kind, NEW k \in Key, Begin(u, kind, k)
        PROVE  FALSE
    <3>1. u # t
          BY <1>1, <2>5 DEF Begin, Busy
    <3> QED BY <2>2, <2>3, <2>5, <3>1 DEF Begin
  <2>6. ASSUME NEW u \in Task, AsksReplica(u)
        PROVE  FALSE
    <3>1. PICK n \in Node : task' = [task EXCEPT ![u].step = "replica", ![u].asks = n]
          BY <2>6 DEF AsksReplica
    <3>2. u = t
          BY <2>2, <2>3, <3>1
    <3>3. task'[t].step = "replica"
          BY <2>1, <2>2, <3>1, <3>2 DEF BusyTask
    <3> QED BY <1>1, <3>3
  <2>7. ASSUME NEW u \in Task, Ends(u)
        PROVE  \E k \in Key : ReadsCache(t, k) /\ Found(store, k) = NoValue
    <3>1. u = t
          BY <2>2, <2>3, <2>7 DEF Ends, EndsWrite, EndsRead, ReadsCache
    <3>2. ~(EndsWrite(t) \/ EndsRead(t))
          BY <1>1, <2>2 DEF EndsWrite, EndsRead, Idle
    <3>3. PICK k \in Key : ReadsCache(t, k)
          BY <2>7, <3>1, <3>2 DEF Ends
    <3>4. task'[t].answer = IF Found(store, k) = NoValue THEN "null" ELSE "done"
          BY <2>2, <3>3 DEF ReadsCache, Idle
    <3> QED BY <1>1, <3>3, <3>4
  <2>8. ~(UNCHANGED task)
        BY <2>3
  <2>9. PICK k \in Key : ReadsCache(t, k) /\ Found(store, k) = NoValue
        BY <1>1, <2>4, <2>5, <2>6, <2>7, <2>8, StepShapes DEF Recover, Delete, Tick
  <2>10. ~(kept[k].value # NoValue /\ Cardinality(kept[k].since) < MaxSize)
        BY <1>1, <2>9, FindsLast
  <2>11. kept[k].value = NoValue \/ Cardinality(kept[k].since) >= MaxSize
    <3>1. CASE kept[k].value # NoValue
      <4>1. Cardinality(kept[k].since) \in Nat /\ MaxSize \in Nat
            BY <1>1, <3>1, FS_CardinalityType, CacheAssumption DEF CacheInv, Remembered, Written
      <4> QED BY <2>10, <3>1, <4>1
    <3> QED BY <3>1
  <2> QED BY <2>9, <2>11 DEF ReadsCache
<1>2. TypeOK /\ CacheInv /\ [Next]_vars =>
        [\A t \in Task : Busy(t) /\ task'[t].step = "idle" =>
           LET k == task[t].key
           IN  task'[t].answer = "null" =>
                 kept[k].value = NoValue \/ Cardinality(kept[k].since) >= MaxSize]_vars
      BY <1>1
<1> QED BY <1>2, FallbackInvariant, PTL DEF Spec, NullOnlyWhenGone

-----------------------------------------------------------------------------
(* A key is found in r as in s, or not at all, when what is good of it in r *)
(* is there in s.                                                           *)
LEMMA ForgottenOrFound ==
  ASSUME NEW s \in Stores, NEW r \in Stores, NEW k \in Key,
         \A d \in EntriesIn(r) : d.key = k /\ d.age < Ttl =>
           \E e \in EntriesIn(s) : e.key = k /\ e.age < Ttl /\ e.value = d.value
  PROVE  Found(r, k) \in {Found(s, k), NoValue}
<1>1. CASE Hit(r, k)
      BY <1>1, FoundValue
<1>2. CASE ~Hit(r, k)
      BY <1>2, FoundValue
<1> QED BY <1>1, <1>2

(* get, delete and a tick only forget; put leaves the value that it puts    *)
(* and forgets at most the others (manager.py:35-63).                       *)
LEMMA OnlyForgets ==
  ASSUME NEW s \in Stores, Len(s) <= MaxSize, NEW m \in Key
  PROVE  /\ \A k \in Key : /\ Found(AfterGet(s, k), m) \in {Found(s, m), NoValue}
                           /\ Found(Without(s, k), m) \in {Found(s, m), NoValue}
         /\ Found(Aged(s), m) \in {Found(s, m), NoValue}
         /\ \A k \in Key, v \in Value :
              Found(AfterPut(s, k, v), m) \in {IF k = m THEN v ELSE Found(s, m), NoValue}
<1>1. ASSUME NEW k \in Key
      PROVE  Found(AfterGet(s, k), m) \in {Found(s, m), NoValue}
  <2>1. PICK r : r = AfterGet(s, k)
        OBVIOUS
  <2>2. r \in Stores /\ EntriesIn(r) \subseteq EntriesIn(s)
        BY <2>1, GetEntry
  <2>3. Found(r, m) \in {Found(s, m), NoValue}
        BY <2>2, ForgottenOrFound
  <2> QED BY <2>1, <2>3
<1>2. ASSUME NEW k \in Key
      PROVE  Found(Without(s, k), m) \in {Found(s, m), NoValue}
  <2>1. PICK r : r = Without(s, k)
        OBVIOUS
  <2>2. r \in Stores /\ EntriesIn(r) \subseteq EntriesIn(s)
    <3>1. r \in Stores /\ EntriesIn(r) = {e \in EntriesIn(s) : e.key # k}
          BY <2>1, WithoutKey
    <3> QED BY <3>1
  <2>3. Found(r, m) \in {Found(s, m), NoValue}
        BY <2>2, ForgottenOrFound
  <2> QED BY <2>1, <2>3
<1>3. Found(Aged(s), m) \in {Found(s, m), NoValue}
  <2>1. PICK r : r = Aged(s)
        OBVIOUS
  <2>2. /\ r \in Stores
        /\ \A d \in EntriesIn(r) : \E e \in EntriesIn(s) :
             /\ d.key = e.key /\ d.value = e.value
             /\ d.age = IF e.age < Ttl THEN e.age + 1 ELSE Ttl
        BY <2>1, AgedStore
  <2>3. ASSUME NEW d \in EntriesIn(r), d.key = m, d.age < Ttl
        PROVE  \E e \in EntriesIn(s) : e.key = m /\ e.age < Ttl /\ e.value = d.value
    <3>1. PICK e \in EntriesIn(s) : /\ d.key = e.key /\ d.value = e.value
                                    /\ d.age = IF e.age < Ttl THEN e.age + 1 ELSE Ttl
          BY <2>2
    <3>2. Ttl \in Nat /\ ~(Ttl < Ttl)
          BY CacheAssumption
    <3>3. e.age < Ttl
          BY <2>3, <3>1, <3>2
    <3> QED BY <2>3, <3>1, <3>3
  <2>4. Found(r, m) \in {Found(s, m), NoValue}
        BY <2>2, <2>3, ForgottenOrFound
  <2> QED BY <2>1, <2>4
<1>4. ASSUME NEW k \in Key, NEW v \in Value
      PROVE  Found(AfterPut(s, k, v), m) \in {IF k = m THEN v ELSE Found(s, m), NoValue}
  <2>1. PICK r : r = AfterPut(s, k, v)
        OBVIOUS
  <2>2. /\ r \in Stores
        /\ EntriesIn(r) \subseteq {e \in EntriesIn(s) : e.key # k} \union {Entry(k, v)}
        BY <2>1, PutEntry
  <2>3. Entry(k, v).key = k /\ Entry(k, v).value = v
        BY DEF Entry
  <2>4. CASE k = m
    <3>1. CASE Hit(r, m)
      <4>1. PICK d \in EntriesIn(r) : d.key = m /\ Found(r, m) = d.value
            BY <2>2, <3>1, FoundValue
      <4>2. Found(r, m) = v
            BY <2>2, <2>3, <2>4, <4>1
      <4> QED BY <2>1, <2>4, <4>2
    <3>2. CASE ~Hit(r, m)
          BY <2>1, <2>2, <3>2, FoundValue
    <3> QED BY <3>1, <3>2
  <2>5. CASE k # m
    <3>1. \A d \in EntriesIn(r) : d.key = m => d \in EntriesIn(s)
          BY <2>2, <2>3, <2>5
    <3>2. Found(r, m) \in {Found(s, m), NoValue}
          BY <2>2, <3>1, ForgottenOrFound
    <3> QED BY <2>1, <2>5, <3>2
  <2> QED BY <2>4, <2>5
<1> QED BY <1>1, <1>2, <1>3, <1>4

(* The puts under way.                                                      *)
Putting(t) == Busy(t) /\ task[t].kind = "write"

Puts == {<<task[t].key, t>> : t \in {u \in Task : Putting(u)}}

Content == [k \in Key |-> Found(store, k)]

(* A task that starts or ends a write adds or takes away its own put.       *)
LEMMA OthersPut ==
  ASSUME TypeOK, NEW t \in Task, NEW x, task' = [task EXCEPT ![t] = x]
  PROVE  /\ \A u \in Task \ {t} : task'[u] = task[u] /\ (Putting(u)' <=> Putting(u))
         /\ task'[t] = x /\ (Putting(t)' <=> x.step # "idle" /\ x.kind = "write")
BY DEF TypeOK, Putting, Busy

(* Each step is a step of the map, or leaves it alone.                      *)
LEMMA MapsStep ==
  ASSUME TypeOK, [Next]_vars
  PROVE  [Forgetful!Next]_(Forgetful!vars)
<1>1. store \in Stores /\ Len(store) <= MaxSize
      BY EntryTypes
<1>2. \A k \in Key : Content[k] = Found(store, k) /\ Content'[k] = Found(store', k)
      BY DEF Content
<1>3. CASE UNCHANGED vars
      BY <1>3 DEF vars, Forgetful!vars, Found, Busy
<1>4. ASSUME Puts' = Puts, \A k \in Key : Content'[k] \in {Content[k], NoValue}
      PROVE  Forgetful!Next
      BY <1>4 DEF Forgetful!Next, Forgetful!Forget, Forgetful!Forgetting, Puts, Putting, Content
<1>5. ASSUME NEW k \in Key, NEW t \in Task, Puts' = Puts \union {<<k, t>>},
             \A m \in Key : Content'[m] \in {Content[m], NoValue}
      PROVE  Forgetful!Next
  <2>1. Forgetful!StartPut(k, t)
        BY <1>5 DEF Forgetful!StartPut, Forgetful!Forgetting, Puts, Putting, Content
  <2> QED BY <2>1 DEF Forgetful!Next, Value
<1>6. ASSUME NEW k \in Key, NEW t \in Task, <<k, t>> \in Puts, Puts' = Puts \ {<<k, t>>},
             \A m \in Key : Content'[m] \in {IF k = m THEN t ELSE Content[m], NoValue}
      PROVE  Forgetful!Next
  <2>1. Forgetful!EndPut(k, t)
        BY <1>6 DEF Forgetful!EndPut, Forgetful!Forgetting, Puts, Putting, Content
  <2> QED BY <2>1 DEF Forgetful!Next, Value
<1>7. ASSUME UNCHANGED task
      PROVE  Puts' = Puts
      BY <1>7 DEF Puts, Putting, Busy
<1>8. ASSUME UNCHANGED store
      PROVE  \A k \in Key : Content'[k] \in {Content[k], NoValue}
      BY <1>2, <1>8
<1>9. ASSUME NEW t \in Task, NEW kind \in Kind, NEW k \in Key, Begin(t, kind, k)
      PROVE  Forgetful!Next
  <2> DEFINE x == [step |-> "primary", kind |-> kind, key |-> k, asks |-> Primary(k)]
  <2>1. task' = [task EXCEPT ![t] = x] /\ UNCHANGED store /\ ~Putting(t)
        BY <1>9 DEF Begin, Putting, Busy
  <2>2. x.step # "idle" /\ x.kind = kind /\ x.key = k
        OBVIOUS
  <2> HIDE DEF x
  <2>3. /\ \A u \in Task \ {t} : task'[u] = task[u] /\ (Putting(u)' <=> Putting(u))
        /\ task'[t] = x /\ (Putting(t)' <=> x.step # "idle" /\ x.kind = "write")
        BY <2>1, OthersPut
  <2>4. CASE kind = "write"
    <3>1. Puts' = Puts \union {<<k, t>>}
          BY <2>1, <2>2, <2>3, <2>4 DEF Puts
    <3> QED BY <1>5, <1>8, <2>1, <3>1
  <2>5. CASE kind # "write"
    <3>1. Puts' = Puts
          BY <2>1, <2>2, <2>3, <2>5 DEF Puts
    <3> QED BY <1>4, <1>8, <2>1, <3>1
  <2> QED BY <2>4, <2>5
<1>10. ASSUME NEW t \in Task, NEW answer, task' = [task EXCEPT ![t] = Idle(answer)]
       PROVE  /\ Putting(t) => <<task[t].key, t>> \in Puts /\ Puts' = Puts \ {<<task[t].key, t>>}
              /\ ~Putting(t) => Puts' = Puts
  <2>1. Idle(answer).step = "idle"
        BY DEF Idle
  <2>2. \A u \in Task \ {t} : task'[u] = task[u] /\ (Putting(u)' <=> Putting(u))
        BY <1>10, OthersPut
  <2>3. ~Putting(t)'
        BY <1>10, <2>1, OthersPut
  <2> QED BY <2>2, <2>3 DEF Puts
<1>11. ASSUME NEW t \in Task, EndsWrite(t)
       PROVE  Forgetful!Next
  <2>1. PICK k \in Key : k = task[t].key
        BY <1>11, BusyTypes DEF EndsWrite
  <2>2. Putting(t) /\ task' = [task EXCEPT ![t] = Idle("done")] /\ store' = AfterPut(store, k, t)
        BY <1>11, <2>1 DEF EndsWrite, CacheWrite, Putting
  <2>3. <<k, t>> \in Puts /\ Puts' = Puts \ {<<k, t>>}
        BY <1>10, <2>1, <2>2
  <2>4. ASSUME NEW m \in Key
        PROVE  Content'[m] \in {IF k = m THEN t ELSE Content[m], NoValue}
    <3>1. t \in Value
          BY DEF Value
    <3>2. Found(AfterPut(store, k, t), m) \in {IF k = m THEN t ELSE Found(store, m), NoValue}
          BY <1>1, <3>1, OnlyForgets
    <3> QED BY <1>2, <2>2, <3>2
  <2> QED BY <1>6, <2>3, <2>4
<1>12. ASSUME NEW t \in Task, EndsRead(t)
       PROVE  Forgetful!Next
  <2>1. ~Putting(t) /\ task' = [task EXCEPT ![t] = Idle("done")] /\ UNCHANGED store
        BY <1>12 DEF EndsRead, Putting
  <2> QED BY <1>4, <1>8, <1>10, <2>1
<1>13. ASSUME NEW t \in Task, NEW k \in Key, ReadsCache(t, k)
       PROVE  Forgetful!Next
  <2>1. PICK answer : task' = [task EXCEPT ![t] = Idle(answer)]
        BY <1>13 DEF ReadsCache
  <2>2. ~Putting(t) /\ store' = AfterGet(store, k)
        BY <1>13 DEF ReadsCache, Putting
  <2>3. \A m \in Key : Content'[m] \in {Content[m], NoValue}
        BY <1>1, <1>2, <2>2, OnlyForgets
  <2> QED BY <1>4, <1>10, <2>1, <2>2, <2>3
<1>14. ASSUME NEW t \in Task, AsksReplica(t)
       PROVE  Forgetful!Next
  <2>1. PICK n \in Node : task' = [task EXCEPT ![t].step = "replica", ![t].asks = n]
        BY <1>14 DEF AsksReplica
  <2>2. Busy(t) /\ task[t] \in BusyTask /\ UNCHANGED store
        BY <1>14, BusyTypes DEF AsksReplica
  <2>3. PICK x : x = [task[t] EXCEPT !.step = "replica", !.asks = n]
        OBVIOUS
  <2>4. x.step = "replica" /\ x.kind = task[t].kind /\ x.key = task[t].key
        BY <2>2, <2>3 DEF BusyTask
  <2>5. task' = [task EXCEPT ![t] = x]
        BY <2>1, <2>3 DEF TypeOK
  <2>6. ASSUME NEW u \in Task
        PROVE  task'[u].key = task[u].key /\ (Putting(u)' <=> Putting(u))
    <3>1. CASE u = t
      <4>1. task'[t] = x /\ (Putting(t)' <=> x.step # "idle" /\ x.kind = "write")
            BY <2>5, OthersPut
      <4>2. Putting(t) <=> x.kind = "write"
            BY <2>2, <2>4 DEF Putting
      <4> QED BY <2>4, <3>1, <4>1, <4>2
    <3>2. CASE u # t
      <4>1. task'[u] = task[u] /\ (Putting(u)' <=> Putting(u))
            BY <2>5, <3>2, OthersPut
      <4> QED BY <4>1
    <3> QED BY <3>1, <3>2
  <2>7. Puts' = Puts
        BY <2>6 DEF Puts
  <2> QED BY <1>4, <1>8, <2>2, <2>7
<1>15. ASSUME NEW n \in Node, Recover(n)
       PROVE  Forgetful!Next
       BY <1>4, <1>7, <1>8, <1>15 DEF Recover
<1>16. ASSUME NEW k \in Key, Delete(k)
       PROVE  Forgetful!Next
  <2>1. \A m \in Key : Content'[m] \in {Content[m], NoValue}
        BY <1>1, <1>2, <1>16, OnlyForgets DEF Delete
  <2> QED BY <1>4, <1>7, <1>16, <2>1 DEF Delete
<1>17. ASSUME Tick
       PROVE  Forgetful!Next
  <2>1. \A m \in Key : Content'[m] \in {Content[m], NoValue}
        BY <1>1, <1>2, <1>17, OnlyForgets DEF Tick
  <2> QED BY <1>4, <1>7, <1>17, <2>1 DEF Tick
<1>18. CASE Next
       BY <1>9, <1>11, <1>12, <1>13, <1>14, <1>15, <1>16, <1>17, <1>18, StepShapes DEF Ends
<1> QED BY <1>3, <1>18

(* The local cache is the map that NodeManager takes it for: nothing comes  *)
(* back in it but by a write (manager.py:27-63).                            *)
THEOREM ImplementsForgetfulMap == Spec => IsForgetfulMap
<1>1. Init => Forgetful!Init
  <2> SUFFICES ASSUME Init PROVE Forgetful!Init
      OBVIOUS
  <2>1. \A k \in Key : Found(store, k) = NoValue
        BY DEF Init, Empty, Found, Hit, Cached
  <2>2. \A t \in Task : ~Busy(t)
        BY DEF Init, Idle, Busy
  <2> QED BY <2>1, <2>2 DEF Forgetful!Init
<1> QED BY <1>1, MapsStep, FallbackTypes, PTL DEF Spec, IsForgetfulMap, Forgetful!Spec
=============================================================================
