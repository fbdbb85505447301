------------------------------ MODULE LocalCache ------------------------------
(***************************************************************************)
(* LocalCache of dcache/fault_tolerance/manager.py: an OrderedDict of at   *)
(* most MaxSize entries, the one used last at its end, each good for Ttl   *)
(* ticks.  No method suspends while it holds the lock, so each of them is  *)
(* a function of the store.                                                *)
(***************************************************************************)
EXTENDS Integers, Sequences, SequencesExt

CONSTANTS
  Key,        \* the keys
  NoValue,    \* what get returns when it has nothing
  MaxSize,    \* max_size
  Ttl         \* ttl_seconds, in ticks; older entries are not told apart

ASSUME CacheAssumption == MaxSize \in Nat /\ Ttl \in Nat \ {0}

Empty == <<>>

Cached(store, k) == \E i \in DOMAIN store : store[i].key = k

EntryAt(store, k) == CHOOSE i \in DOMAIN store : store[i].key = k

EntryOf(store, k) == store[EntryAt(store, k)]

Hit(store, k) == Cached(store, k) /\ EntryOf(store, k).age < Ttl

\* delete; what is left when clear has run on every key.
Without(store, k) == IF Cached(store, k) THEN RemoveAt(store, EntryAt(store, k)) ELSE store

\* The value that get returns.
Found(store, k) == IF Hit(store, k) THEN EntryOf(store, k).value ELSE NoValue

\* A plausible slip: a hit starts the ttl anew, and the age is not looked at.
AfterGetReviving(store, k) ==
  IF Cached(store, k) THEN Append(Without(store, k), [EntryOf(store, k) EXCEPT !.age = 0]) ELSE store

\* A plausible slip: a hit leaves the order alone.
AfterGetInPlace(store, k) == IF Hit(store, k) THEN store ELSE Without(store, k)

\* get moves a hit to the end and deletes what has expired.
AfterGet(store, k) ==
  IF Hit(store, k) THEN Append(Without(store, k), EntryOf(store, k)) ELSE Without(store, k)

Entry(k, v) == [key |-> k, value |-> v, age |-> 0]

Evicted(store) == IF Len(store) > MaxSize THEN SubSeq(store, Len(store) - MaxSize + 1, Len(store)) ELSE store

\* A plausible slip: a key that is there keeps its entry, as with setdefault.
AfterPutIfAbsent(store, k, v) ==
  IF Cached(store, k) THEN store ELSE Evicted(Append(store, Entry(k, v)))

AfterPut(store, k, v) == Evicted(Append(Without(store, k), Entry(k, v)))

Aged(store) ==
  [i \in DOMAIN store |-> [store[i] EXCEPT !.age = IF @ < Ttl THEN @ + 1 ELSE Ttl]]
=============================================================================
