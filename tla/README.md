# dcache in TLA+

A verification project for `dcache`, a distributed cache shard scheduler: one
asyncio process that keeps the shards of all cache nodes in memory, places keys
on them by consistent hashing, moves data when nodes join, leave or fail, and
serves an HTTP API behind a rate limiter, a circuit breaker and an idempotency
guard. The modules are translated from `src/dcache`; `PROJECT.json` names, for
every definition, the lines it stands for.

## 1. Inventory

Everything runs on one event loop. Every `asyncio.Lock` of the program guards a
body that does not suspend, except for `RetryExecutor` and the migration
semaphore, so a method is one atomic step and the interleavings are those of
the real suspension points: `await request.json()`, `event.wait()`,
`sleep(0)` between the batches of a migration, the poll of a finalizer, the
semaphore, and the sleeps of the background loops.

| component | state | operations | hard behaviour | what makes it correct |
|---|---|---|---|---|
| `ConsistentHashRing` (`algorithm/consistent_hash.py`) | `_ring_keys`, `_ring_map`, `_nodes`, `_node_vnodes` | add and remove a node, owner and replica chain of a key, migration plans, load distribution, rebalance plan | collisions, probing past the end of the space, wrap-around, arbitrary join/leave orders | the list and the maps describe one ring; lookups return the successor; a join or leave moves only the keys it must |
| `NodeManager` (`node_manager/manager.py`) | `_shard_data`, `_draining_nodes`, `_active_migrations`, heartbeats, persisted topology | read, write, delete, add_node, remove_node, drain, migrate, heartbeat timeout, rebalance, recovery | snapshots that go stale while a copy is suspended, overlapping drains, joins and removals that fail halfway, deadlines, restarts | a GET returns no old or deleted value, nothing stored gets lost, every removal completes, no data on departed nodes |
| `CircuitBreaker` (`service/resilience.py`) | state, three counters, time of the last failure | allow_request, record_success, record_failure | late reports of another episode, requests that never report | probe budget, no stuck HALF_OPEN, closes only on probes |
| `IdempotencyGuard` (same file) | `_store`, `_events` | check_and_mark, wait_for_result, record_result, clear, cleanup | duplicates racing failures, TTL, eviction and time-outs | one execution per id, no forgotten waiter, the leader's result is delivered |
| `SlidingWindowRateLimiter` (same file) | buckets per key | allow | bucket boundaries | at most `max_requests` per window |
| `RetryExecutor` (same file) | none | execute_with_retry | repeats a call | bounded attempts |
| `LocalCache`, `FaultToleranceManager` (`fault_tolerance/manager.py`) | LRU map with TTL, marks of failed nodes, fault history | get, put, delete, reads and writes with fallback, fault reports | a put between a get and its use, marks that expire while a call is out, a full history | what was used last stays, a read finds nothing only if nothing recent is left, each new failure is on record |
| `MetadataStore` (`persistence/metadata_store.py`) | LevelDB or JSON files | put, get, delete, scan | fallback when LevelDB refuses, crash during a rewrite, keys that turn into one file name | a read returns the last write, a restart finds the ring that was |
| `CacheService` (`service/cache_service.py`) | none of its own | GET, PUT, DELETE, nodes, metrics | the order guard, limiter, breaker, ring, manager; early returns | every admitted request reports, every mark is released |
| `MetricsCollector` (`monitor/metrics.py`) | counters | record, render | early returns of handlers | every answer is counted once |
| `main.py` | wiring | start, stop, heartbeat and status handlers | end of the process at any point | the server comes up again |

Interaction: `CacheService` calls the guard, the limiter and the breaker, then
`NodeManager.get_node`, `read_key`, `write_key` or `delete_key` through the
retry executor. `NodeManager` owns the ring, asks it for owners and chains, and
starts migrations as tasks; it persists the topology to `MetadataStore` and
reads through to `LocalCache`. The heartbeat monitor and the finalizers change
membership without a request. `main.py` calls `recover_from_persistence`
before it serves.

`PROJECT.json` lists the hazards of this code at their lines, with the
properties that watch each.

## 2. Modules and how they correspond to the code

### The ring and the node manager

**`RingOps`** says what a ring means without lists or bisection: a function
from positions to nodes, the first position after a hash, the `rf` nearest
distinct nodes, the sources an insertion plans. It is the abstract
specification of the ring.

**`HashRing`** has the lists and maps of `ConsistentHashRing` as variables, its
loops as recursive functions from a round to what the ring is after it
(`Insertion`, `Popping`), `add_node` and `remove_node` as actions, the lookups, the load
distribution and `compute_rebalance_plan` as operators. The hash function is
chosen in the initial state, so TLC tries all of them. A weight may be zero
(no position) or not a number (`add_node` raises when the node is in `_nodes`
already). `ListsMeanRingOps` states that the list code computes the operators
of `RingOps`. `NodeManager` is written with these, so the two modules compose:
what the manager assumes of the ring is what this one checks.

**`NodeManager`** has the shards, the local cache, membership, the queue behind
the migration semaphore and, for each permit, what is left of a task's
snapshot. One action per handler (`Put`, `Delete`, `AddNode`, `AddNodeHalfway`,
`RemoveNode`), per decision of a background loop (`FailNode`, `FinalizeRemoval`,
`FinalizeAtDeadline`, `EvictCached`, `Rebalance`) and per stretch of a
migration between two suspensions (`StartTask`, `CopyBatch`, `EndTask`), and
`Restart`. `read_key` changes nothing; `ReadResults` is the set of values it
may return. Values are the numbers of the PUTs that wrote them, so that an old
value can be told from the last one. Ghosts record what was written, what a GET
should return, which keys were written while an old copy was out of the
write's reach, and which nodes a finalizer that failed has left draining.

A weight that is no whole number makes `ring.add_node` raise when the node is
in `_nodes` already, and online (`consistent_hash.py:76-78`). The handler ends
there: no heartbeat, no record, no topology (`manager.py:106-121`). Such a node
is *halfway*. All three modules of this class have the join
(`AddNodeHalfway`), the finalizer that raises in its turn when the node is
removed (`FinishRemovalFails`, `FinalizeRemovalFails`; `consistent_hash.py:162-163`,
`manager.py:172`) and the restart that brings the node back halfway.
`Placeable` are the nodes with a position, so that a weight of 0 has a place in
`NodeManager` too, and `OnRing` the members the walk around the ring can meet.

Two more views of the same class keep apart what need not be multiplied out.

**`FailureDetection`** has the clock of `_heartbeat_monitor`,
`_heartbeats`, `_fault_recorded` and the bounded history of
`FaultToleranceManager.handle_node_failure`, against the membership that
heartbeats, joins, removals, finalizers and restarts change.

**`Recovery`** has the calls to the store that each handler makes, one step
each, in their order; the process may end before any of them, or within one.
It extends **`MetadataStore`** (by `INSTANCE`): `_put`, `_get`, `_delete` on
LevelDB and, when that refuses, on JSON files that are truncated before they
are written. A file is named after the key with ':' and '/' turned into '_';
`file` says which records share one. `Start` is `DistributedCacheServer.start` with
`recover_from_persistence`.

### The request path

**`BreakerState`** has the breaker's fields and what is to hold of them, and
**`CircuitBreaker`** its methods and the requests in flight.
`NoAvailableNode` is the early return of `handle_get` and `handle_put` that
reports nothing. Time is one Boolean, whether `recovery_timeout` has passed.
The failure counter saturates at the threshold, since it is compared only below it.

**`IdempotencyGuard`** has `_store`, `_events` and, per PUT, where it stands in
`handle_put`. A request runs from its arrival to its first suspension as one
step: the leader to the reading of its body, a duplicate to `event.wait()`.
`Refuse` is a leader that limiter or breaker turn away. Time is the order of
the stamps and, per entry, whether its TTL has passed; entries expire oldest first.

**`SlidingWindow`** is what a limiter promises: a request is admitted only if fewer
than the limit were admitted within a shorter window, and refused only if the
limit was reached within a longer one. **`RateLimiter`** has the buckets of
`allow` and their cleanup; it implements this with windows one bucket apart.

**`RequestPipeline`** composes the handlers: it has the variables of the guard
and the breaker (`BreakerState`) and includes both modules with `INSTANCE` (`G`, `B`). A step of
a handler is a step of each part it calls, in the code's order, with the
retries and the request counter around them. The limiter is a yes or no here.
`IsBreaker` and `IsFairGuard` are refinements: the handlers drive the breaker
and the guard in no other way than their modules allow, and as fairly.

### Reads with fallback

**`ForgetfulMap`** is the local cache as `NodeManager` sees it: what was put may
vanish at any time. **`LocalCache`** is `LocalCache` with its LRU order and
TTL, and **`Fallback`** the calls of `FaultToleranceManager` around it: read
and write with fallback as callers that suspend at each remote call, the marks
of failed nodes and their expiry. `IsForgetfulMap` is the refinement that
justifies `EvictCached` in `NodeManager`.

### Proofs and instances

`HashRingProofs`, `NodeManagerProofs`, `IdempotencyGuardProofs`,
`RateLimiterProofs`, `RequestPipelineProofs` (also of the breaker by itself),
`RecoveryProofs`, `FailureDetectionProofs` and `FallbackProofs` hold the
theorems. `MC*.tla` hold the instances for TLC. Definitions marked "a plausible slip" are not part of any specification:
each is a wrong variant of the definition after it, and replacing the right one
by it violates the property that `PROJECT.json` names. They show that the
properties can fail.

## 3. Runs

| run | instance | distinct states | what it shows |
|---|---|---|---|
| `hash_ring` | 3 nodes, weights 0 to 2 and one that is no number, hash space of 4, every hash function | 28 351 | the ring stays consistent through collisions, probing and failed joins; lookups, chains and plans mean what they should; shares are owned parts; an overloaded node has something planned away; membership changes move only what they must |
| `manager_fresh` | 3 nodes, 2 keys, 2 PUTs each, a join, one that fails halfway, a removal, its deadline, a failure | 1 379 305 | `FreshUnlessExposed`, `NoOrphanData` |
| `manager_no_loss` | 4 nodes and one of weight 0, 2 keys, a join, 2 removals one at a time, a rebalancing between any two nodes | 349 255 | `StoredIsReadable` at every moment, without the local cache |
| `manager_live` | 3 nodes, 2 overlapping drains, a migration, one permit, a failure, a join that fails halfway, a restart | 27 983 | `RemovalCompletes`, `DrainingIsAttended` |
| `failure_detection` | 2 nodes, timeout 3, a round every 2 ticks, 2 finalizers, a history of 2, joins and removals that fail halfway | 2 532 018 | a silent node is offline in time unless it is not watched for one of two reasons, only strays are watched beyond their membership, what goes offline was reported, a new failure is on record |
| `recovery` | 2 nodes with a file each or one for both, a migration, 2 joins that may fail halfway, 2 removals, an end of the process, a failing call, with and without LevelDB | 1 820 406 | the ring comes back, records agree, pending migrations are the interrupted ones, the server starts again |
| `breaker` | 5 requests, thresholds 3/3/2, the ring may be empty | 19 224 | probe budget, half-open episodes end unless a probe is silent |
| `idempotency` | 3 PUTs of one id and one of another, a store of one entry | 40 056 | one execution, no forgotten waiter, the right result, duplicates answered without the time-out |
| `rate_limiter` | 6 requests, a limit of 2, 3 buckets of width 2, time up to 13 | 12 483 | at most the limit in a window of whole buckets, at most twice in any; buckets stay few; a sliding window is implemented |
| `request_pipeline` | 2 PUTs of one id, one without, a DELETE, one retry, thresholds 2/1/1 | 50 460 | leaders are in flight at the breaker, answers are counted, breaker and guard are implemented, admitted requests end |
| `fallback` | 2 callers, 2 nodes, 3 keys, a cache of 2, TTL 2 | 518 966 | the recently used is kept, the write that ended last is served, null only when nothing is left, the cache is a forgetful map |
| `manager_stale_drain` | 3 nodes, 2 keys, 2 PUTs each, one removal | a violation | a drain takes its snapshot, a PUT writes the key, the drain's next batch stores the old value over it (`manager.py:214`), against what `tests/integration_test.py:481` demands |

### Bounds, and why they are enough

- Ring: positions are small numbers and no two nodes collide in `NodeManager`
  (collisions are `HashRing`'s subject). The positions in `MCNodeManager` were
  chosen for the cases that matter: a node with two positions, a key whose
  chain wraps around zero, a key in front of several joining nodes.
- A space of 4 with up to 4 virtual nodes (`MaxWeight` bounds the weights) makes every pattern of collisions
  happen, also a probe that leaves the space. Shares and skews are thousandths
  (`SkewThreshold`, `Epsilon`, `PlanSize`) and compared as fractions, where the
  code has floats.
- `BatchSize` is 1 instead of 100: with two keys a task then suspends in the
  middle of its snapshot, which 100 would need 101 keys for. The proofs hold for any batch size.
- Replication factor 2 as in the code's default; one or two permits instead of
  four, so that tasks queue.
- `MaxVersion`, `MaxJoins`, `MaxHalfway`, `MaxRemovals`, `MaxDraining`, `MaxFailures`,
  `MaxRestarts`, `MaxDeadlines`, `MaxRebalances` bound how often something
  happens. `MaxDraining = 1` in `manager_no_loss` is a condition of the
  property, not only a bound, and so are its single join, no failure, no
  expired deadline and three nodes with positions for two removals (section 5
  says what happens otherwise). `MaxRebalances` is 0 in the other runs,
  `MaxHalfway` in `manager_no_loss` and `MaxRestarts` in all but `manager_live`,
  to keep them small; the theorems cover all values. After a restart the
  manager is as in some initial state, but for the nodes that are offline or halfway.
- `recovery`: one fault and one end are enough for a fault before and after it;
  two joins and removals let a node come back while the finalizer of its first
  removal still waits, or fail halfway and then fail to be removed. Files are
  shared by both nodes or by none (`FileNames`). The proofs hold for any number
  and for any pattern of shared files.
- `rate_limiter`: seven buckets pass, more than twice as many as a window has.
- `request_pipeline`: the PUT without an id takes part in everything a GET does
  and its body may fail besides, so that `Get` is empty in this run; one
  request opens the breaker with the help of another, one probe closes it.
- `fallback`: three keys and two places evict; a TTL of 2 lets an entry expire
  between a call and its answer. The recovery timeout is 0, so that a mark may
  expire at once or stay.
- Symmetry is used in runs without liveness properties, over sets whose members
  no definition tells apart: keys of one hash in `manager_fresh`, requests in
  `rate_limiter`, nodes in `failure_detection`, callers and equally placed keys in `fallback`.
- `CHECK_DEADLOCK FALSE` where the bounds run out, where all requests have been
  answered, or where the system really may stop: `breaker` and
  `request_pipeline` (a half-open breaker with an empty ring), `recovery` (a
  torn topology file).

### Fairness

- `NodeManager`: weak fairness of every slot's tasks and of `FinalizeRemoval`.
  The event loop runs ready tasks in turn, the semaphore is a FIFO queue, and a
  finalizer looks again every 0.1 s. Nothing is assumed of clients or of the deadline.
- `CircuitBreaker`: requests keep arriving, an admitted one ends in one of the
  two reports or without any, and time passes.
- `IdempotencyGuard`: a leader's body arrives or its connection breaks, and a
  waiter whose event is set is run. Nothing is assumed of the 30 s time-out:
  `WaitersAnswered` says the time-out is not needed.
- `RequestPipeline`: an attempt returns or raises, a sleep ends, a body arrives
  or its connection breaks. From this TLC concludes the guard's own fairness (`IsFairGuard`).
- `Recovery`: whoever looks after the process starts it again.
- The other modules state safety only; time in `FailureDetection` and
  `RateLimiter` is a counter, and "in time" is a bound rather than a liveness property.

## 4. Proofs

All theorems hold for every value of the constants under the named assumptions
of the modules: any set of nodes, keys and requests, any placement without
collisions, any thresholds, batch size, window and number of permits. The type
invariant of a module with a proof is proved and not repeated in its run, or is
the first conjunct of a property of the run.

**`HashRingProofs`.** `RingInv`, inductive, is `RingConsistent` with the fact
that what a node holds is a list of numbers. A loop of the code is a recursive
function, known by its first value and its step (`InsertionRounds`,
`PoppingRounds`); that the step keeps what a round should have achieved
(`Grown`, `Shrunk`) gives that every round achieves it, by looking at the first
one that would not (`LeastExists`: the natural numbers are well founded). The
steps rest on what bisection finds in an ascending list (`BisectRightSplits`,
`BisectLeftSplits`), what an insertion or a deletion makes of it
(`InsortKeeps`, `RemoveKeeps`) and on probing: a finite set of positions leaves
one free within as many steps as it has members (`FreeIsFound`).
`ListsComputeRing` compares the lists with `RingOps`: the walk meets the
positions in their clockwise order (`WalkOrder`), so that its head is the
successor (`LookupFinds`), and the turns at which a node is met first count the
nodes that are closer (`ChainFinds`, with the ranks of `NthHasRank`); the
position before a new one in the list is the one met last (`PlansFound`). With
it, what is proved of `NodeManager` over the operators of `RingOps` is about
the lists of the code. `ChainsOnlyShift` compares two rings that differ in the
positions of one node: a chain is known by who is ahead of each of its members
(`ChainIs`), and without that node the same ones are (`ChainGoesOn`).
`SharesAreOwnership` counts, round by round of `compute_load_distribution`, the
hashes served by the positions so far (`StretchIsServed`, `RangesCountHashes`).
On it rests `OverloadsArePlanned`: the weights of the online nodes add up to the
whole and their shares to no more than the hash space, so if one has too much,
another lacks more than goes unnoticed (`SomeoneLacks`), whatever the number of
nodes. Sums over sets and joined sequences are handled as the loops are, by a
least set or round at which a claim would fail. The hash function, the nodes, the weights and the size of
the space are any; collisions and probes past its end are included.

**`NodeManagerProofs`.** `ManagerTypes` rests on lemmas about the ring (chains
and plan sources name members) and about a copied batch (`StoredEntries`: an
entry stays or becomes the value of an item). `DrainingAttended` is inductive by itself: a finalizer that fails is the only
way for a draining node to lose its membership and stay in `_draining_nodes`,
and it moves the node to the exception (`unfinished`). `FreshReads` needs
`FreshData`: it is not enough that shards are fresh, the snapshots of running
copies and the local cache must be, because a read falls back to the cache and
a copy becomes a shard. Keys that were exposed are excluded, and it is exactly
a Put or Delete that finds an old copy out of reach that exposes one.
`NoOrphans` needs that every item on its way is bound for a member: a task
that is running when a finalizer wakes keeps it waiting, so the target is still
there. A finalizer that fails keeps the shard; the nodes it leaves are excepted.

`StoredReads` has a premise, `Orderly`, beside `Spec`: one node drains at a
time and another one with positions stays, no removal is asked for while one of
that node is under way, no node fails, no restart, no expired deadline, and
fewer nodes join than a key has replicas. Joins that fail halfway and the
removals of such nodes are free, and so are weights of 0. The inductive part says
where the copies of a stored key are. Only nodes that joined stand between the
key and a copy, so that with fewer joins than replicas a copy is in the chain
(`CopyStays`); while a node drains, another member has such a copy already, or
the drain has yet to take its snapshot, or a task holds an item of the key for
a node that is in the chain without the draining one (`CopyMoves`);
`DrainsInOrder` ties the drain to its place in the queue and to its finalizer.
The lemmas about the ring give chains by counting who is ahead (`Ahead`,
`AheadCounts`): a departure lets nobody fall behind, an arrival pushes everyone
back by at most one. The parts of the premise are needed: with a failure, a
restart, an expired deadline, a second drain, a second join with two replicas,
a repeated removal or one replica, TLC refutes `StoredIsReadable` on instances
of the size of `manager_no_loss` (one removal more for the repeated one).

**`IdempotencyGuardProofs`.** `GuardInv` combines the checked invariants with
four facts: stamps lie in the past (so that the cleanup keeps the entry just
marked), events are not set before their request arrives, a waiter holds an
event of its own id, and, while an id keeps its entry, it has at most one
leader, which holds the event, and at most one executed write, which is the
one on record. The five theorems follow.

**`RateLimiterProofs`.** The invariant says that the buckets of the window hold
just the requests admitted in their stretch of time (`BucketsAreLog`), that no
run of `BucketCount` buckets ever took more than the limit (`AlignedLimit`),
and that kept buckets lie less than a window apart (`BucketsAreNear`).
`ImplementsSlidingWindow` maps each step of
`allow` to one of `SlidingWindow`; `WindowsLimited`, `BurstsLimited` and
`FewBuckets` follow from the invariant.

**`RequestPipelineProofs`.** `StepOfGuard` and its counterpart for the breaker
show action by action that a step of a handler is a step of each part or leaves
it alone, which gives the refinements `ImplementsGuard` and `ImplementsBreaker`
(for the guard without its fairness). `LeadersAtWork` and `AllCounted` need that
an entry's event names its leader, that this leader is in flight, and that a
request without an answer has not been counted. The prover cannot cite theorems
of an instance, so that the guard's types are proved again over the pipeline's variables.

The breaker by itself is `B`, for any requests it is asked about. `BreakerInv`
adds to its types and to `ClosedBelowThreshold` how the ghost counters of an
episode relate to `half_open_calls`: the request that opened the episode is
counted by none of the breaker's counters, which is where the `+ 1` of
`ProbeBudget` comes from. `OnlySilenceSticks` shows, for any ring, that a
breaker refusing everyone either waits for somebody or has had an unreported
probe; `NeverWedged` that with a ring that is never empty it cannot be stuck.
Both need `SuccessThreshold <= HalfOpenMaxCalls + 1`: a larger threshold could
not be reached within one episode. `ImplementsBreaker` carries these over to
the handlers (`HandlersKeepBudget`, `HandlersNeverWedge`).

**`RecoveryProofs`.** `RecoveryInv` says which of LevelDB and the files took
the last write of each record and that no other record in its file was written
since (`HomeHasLast`, `OpenHasLast`; the topology and the migrations have files
of their own), that the last topology is
written or the next topology call in the script says what the ring is
(`RingWritten`), and that a migration which is active or was cut short has had
a record (`MigrationsRecorded`), so that no new one gets its id.
`RecordsStayInStep` needs `RecordsInv` on top: a call for a node's record is
the first of its script with a topology call behind it, what will be on record
when the script is done agrees with the ring, and until then only nodes the
topology does not tell of can disagree; these are the ones a crash disturbs. `RingComesBack` and `RecordsStayInStep`
except the nodes whose join or removal failed halfway, the first only until any
handler has written the next topology (`unrecorded`).

**`FailureDetectionProofs`.** Every online node is watched and none of them
drains, but for two kinds the monitor never finds: a node that joined halfway
and has not beaten since, and one that was added again under an entry that a
failed finalizer left in `_draining_nodes`. The silence of all others is at most
the timeout and the time since the monitor last looked; a node that is offline and watched was reported.
The bound of `SilentNodesAreFound` is the sum of the timeout and one period.
`FailuresOnRecord` assumes that the history (1000 entries in the code) holds at
least one entry per node.

**`FallbackProofs`.** The lemmas about `LocalCache` say what each method does to
the entries and to the keys that come after a key in the order of use (`Later`);
after them no proof speaks of positions. `CacheInv` then relates the store to the
writes that ended: an entry within its ttl is the write of its key that ended
last and as old (`ServesLatest`), and a write within its ttl still has its entry,
with no key behind it that was not used since, unless as many other keys as the
cache has room for were (`KeepsRecent`). When the oldest entry is evicted, all
others are behind it, which is the count that `EvictOldest` supplies. All four properties of the run
follow, `ImplementsForgetfulMap` with the end of a write as the end of a put and
every other use of the cache as a loss at most. The ttl is assumed to be at
least one tick (300 s in the code): one of zero would be a cache that never hits.

### Checked by TLC only

`RemovalCompletes`, `HalfOpenResolves`, `WaitersAnswered`, `AdmittedEnds`,
`ComesUpAgain` and the fairness in `IsFairGuard`, being liveness under fairness.
Every invariant and every other action property that a run checks is proved.

## 5. Observed, and not made into runs

What follows came up while modelling; TLC's shortest histories confirmed it
where bounds are named. None of it contradicts a sentence of the repository
plainly enough, or is deep enough, to keep a run of its own.

Node manager and ring:

- Two overlapping drains can lose a key: both replicas of a key are draining, a
  PUT goes to these only, their finalizers drop them (`manager.py:390`; two in `MaxDraining`).
- Two joins between a key and its replicas can lose it: the plans name sources
  of the ring as it is after the first, which has no copy yet
  (`consistent_hash.py:129`; two in `MaxJoins`).
- Two removals of one node schedule two finalizers; if it is added again, the
  second takes it off without a drain (`manager.py:164`). `RecordsAgree` excludes such nodes.
- A node that is no replica any more keeps its copy; a later drain or migration
  spreads the old value (`manager.py:473`). It is another history of `SettledReads`.
- A restart during a drain forgets the drain: the node stays a member, offline
  (`manager.py:627`); `RemovalCompletes` says "unless the process ends before".
- `add_node` with a weight that is no whole number leaves the node in `_nodes`
  without positions (`consistent_hash.py:76`): online, not watched, without a
  record, and written into the topology by the next handler. With a weight that
  is no number at all `_run_rebalance` then raises in every round. Removing the
  node takes it out of `_nodes` and leaves it in `_draining_nodes`, with its
  shard (`manager.py:172`). If it is added again, the heartbeat monitor passes
  over it (`manager.py:553`); a further removal clears the entry.
- When the last node with positions is drained, its data goes to a node that no
  key leads to (weight 0 or halfway), and what is written after its snapshot is
  lost; a node that joins then gets nothing (`manager.py:200`).
- For a node with a small weight nothing may be planned, however often it is
  found overloaded: with weights 1 and 400 the first may have 1.31 times its
  share, and the other then lacks less than the 0.001 below which nobody is a
  target (`consistent_hash.py:269`). `OverloadIsPlanned` excludes it by
  `ThresholdShows`, which an attempt to prove it without showed to be needed.
- A rebalance plan moves no positions, so that the next round finds the same
  skew and plans the same again (`manager.py:541`).

Failure detection and recovery:

- A node the monitor set offline stays so whatever heartbeats it sends
  (`manager.py:559`), but comes back online with a restart, since the monitor
  tells the store nothing.
- A heartbeat of a node that is not a member is kept; every round reports the
  node as failed once its heartbeat is old (`OnlyStraysOutlive`).
- A torn `topology` file makes `json.loads` raise out of `start`: the server
  does not come up (`ComesUpAgain` excludes this). When LevelDB does not answer
  at the start, the ring comes from the files, usually empty, and the next
  change is written over the topology.
- In JSON mode node ids that differ only in ':' and '/' share the file of their
  records: a write or a removal of one node replaces or deletes the other's
  (`metadata_store.py:188`, 199, 212). `ReadsLastWrite` and `RecordsAgree`
  except exactly these.
- Pending migrations are counted at recovery and dropped, never resumed; in
  JSON mode they are not even found. A drain has no pending record.

Request path:

- Probes that find the ring empty report nothing, and HALF_OPEN then refuses
  everyone (`cache_service.py:61`); successes of requests from before the
  breaker opened can close it (`resilience.py:63`).
- A PUT whose body cannot be parsed counts as a failure of the backend.
- A duplicate whose leader fails or is evicted is answered `null` with status
  200 (`cache_service.py:96`); `WaiterGetsResult` covers the leaders that write.
- Failed requests are counted under status "ok" in `dcache_request_total`,
  because the handler catches the exception inside the timer (`cache_service.py:113`).

Fallback: a replica that raises is never marked as failed, an unmarked primary
that answers "nothing" is asked a second time instead of a replica, and
expired entries occupy places of the cache until they are looked up.

## 6. Not modelled, and why

- `MetricsCollector` beyond the request counter, logging, argument parsing,
  routes and signal handling: no state the rest of the program depends on. The
  text output of the metrics is formatting.
- `get_cluster_status` and the status handlers only read. `set_node_online`,
  `load_all_nodes`, `load_all_shards`, the shard records, `_remote_read`,
  `_remote_write` and the test helpers have no caller in `dcache/`.
- Cancellation of handlers by the HTTP server, and the alert callbacks, which are
  external code (those in the repository only log).
- Lengths of sleeps and their jitter, and the numbers of a duration: only
  whether a time-out has passed, except in `RateLimiter` and `FailureDetection`.
- Node ids and keys that are no strings. The handlers take any JSON value; an id
  that is a number, say, comes back from the topology as a string.
- MD5 is an arbitrary function; the 2^32 positions are a small space. Floats are
  thousandths.
- The rate limiter within the pipeline is a yes or no; its buckets are in `RateLimiter`.
- The interaction of `Recovery`, `FailureDetection` and `NodeManager` beyond the
  membership they share: together they are out of TLC's reach. Each lets the
  others' steps happen at any time.

## 7. Plan

Done in this order, the most important behaviour first: `RingOps`, `HashRing`,
`NodeManager`, `CircuitBreaker`, `IdempotencyGuard` and their proofs; then
`RateLimiter` with its abstract specification, `RequestPipeline` as the
composition of the request path, `MetadataStore` with `Recovery`,
`FailureDetection`, the rebalance plan and its loop, `LocalCache` with
`Fallback`, and the proofs, those of `HashRing` last.

Left: `KVStore`, an abstract store in which a GET returns the last value or
nothing, and `NodeManager` without exposed keys as its implementation, first as
a property for TLC and then as a theorem.
