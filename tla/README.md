# Verification of TollMeshCache

This directory holds TLA+ models of TollMeshCache, the TLC configurations that
check them on small instances, and proofs about them that TLAPS checks for every
instance. The reference is the Go code of this repository; paths below are
relative to its root.

## 1. The system

A TollMeshCache mesh is a set of equal nodes. Each is one process with an HTTP
API, an in-memory store (`store.MeshStore`), an optional disk directory and a
gossip loop. Any client may call any node. Nodes agree on nothing in advance: an
operation changes the node it was sent to, and gossip carries whole states from
node to node, where they are merged.

| component | state | operations | what makes it correct |
|---|---|---|---|
| rate limiter, replay protection (`store/mesh_store.go`, `core/crdt.go`) | a GCounter per key, one GSet of nonces | Consume, Seen, MergeState | bounded over-admission, no invented or forgotten counts, "not seen" once per node, convergence |
| cache (`store/mesh_store.go`) | value, version (timestamp, node) and expiry per key | Get, Set, transactional set, merge, expiry | the last write wins everywhere, a write is not undone by an older one |
| persistence (`persistence/persistence.go`) | `wal.log`, archived logs, snapshot files | LogOperation, CreateSnapshot, RotateWAL, LoadLatestSnapshot, ReplayWAL | an acknowledged write survives a kill, no entry is applied twice |
| job queue (`queue/`) | a log of jobs, an index, lists of pending and processing jobs, a dead-letter queue | Enqueue, GetNextJob, MarkComplete, MarkFailed, cleanup, merge | no waiting job is forgotten, retries are limited, failures are kept, nodes learn of each other's jobs |
| pub/sub (`pubsub/`) | topics with history and subscribers, a channel per subscriber | Subscribe, Unsubscribe, Publish, Poll, merge | no deadlock, no lost or duplicated delivery |
| transactions (`transactions/`) | transaction records with operations and a status | Begin, AddOperation, Commit, Rollback, cleanup, merge | a committed transaction is applied once and whole |
| sorted sets (`sortedset/`) | members with score, version and tombstone | Add, Remove, ranges, merge | replicas agree and a later write is not undone |
| streams and groups (`stream/`) | entries in order, offsets and pending entries of a group | Add, Range, UpdateOffset, merge, retention | every consumer gets every entry |
| pipelines, WASM scripts (`scripting/`) | definitions, compiled modules, an execution lock | register, execute, delete, merge | no interleaving of two pipelines, no module closed while it runs |
| search, ranking (`search/`, `ranking/`) | documents, named configurations | index, delete, merge, scoring | replicas agree on what is indexed |
| metrics (`metrics/`) | counters, a maximum per node | record, merge | counters of a node never fall |
| gossip and peers (`coordination/`) | peer table with failure counts, TLS certificates | gossip round, push, join, health check, reload | every pair of nodes exchanges state again and again |
| HTTP API (`api/http.go`) | none | one handler per operation | a panic of a handler is recovered by net/http, one of a goroutine ends the process |
| `core/replication.go`, `core/sharding.go`, `agents/`, `graph/`, `api/load_balancer.go` | | | not reachable from the server |
| `sdks/` | none | HTTP clients with retries | a retry must not repeat a call that is not idempotent |

**How they interact.** An HTTP handler calls a method of `MeshStore`, which
either works under `MeshStore.mu` (rate limiter, nonces, cache) or calls a
sub-store with a lock of its own. `GetState` copies every sub-store, one after
the other; `MergeState` merges such a copy the same way. Gossip moves these
copies in two directions: a round pulls the state of one random peer
(`performGossip`), and a claim or a commit asks for a push to the peers
(`triggerGossipPush`, `PushState`). Writes of the rate limiter, the nonces and
the cache are appended to the write-ahead log while `MeshStore.mu` is held;
snapshots are taken by a loop and by HTTP handlers, which may overlap.

**What is hard.** Gossip may be lost, late or out of order. A node may be
killed between any two steps that touch the disk. The locks of a snapshot do
not span its steps. Job lists are changed while they are looped over, and hold
IDs of jobs that another path deletes. Panics are recovered in handlers and
nowhere else. Timeouts give a job to a second worker while the first still
works. The pub/sub broker has two levels of locks that calls take in both
orders, a commit spans two locks of two objects, and what gossip merges into a
sorted log may land behind its readers. The "hazards" of `PROJECT.json` list these at their lines.

## 2. Modules

| module | models |
|---|---|
| `Quota` | the promise of the rate limiter: tickets per node, used once |
| `RateLimiter` | Consume and Seen over a mesh, gossip, crash and WAL replay; implements `Quota` |
| `Durability` | the write-ahead log, snapshots, restore, kill and recovery of one node |
| `CacheMesh` | one key of the cache over a mesh: writes, merges, expiry, snapshots, restarts |
| `JobQueue` | one named queue over a mesh: operations, cleanup, gossip, panics |
| `Transactions` | transaction tables and caches of a mesh, the three critical sections of a commit, gossip, cleanup, kills |
| `PubSub` | one node's broker: its locks step by step, channels, histories, the merge of a peer's history |
| `SkipList` | the skip list as a value, with its operations and queries |
| `SortedSet` | one sorted set over a mesh, on `SkipList`: records, list, gossip, snapshots, restarts |
| `Streams` | one stream over a mesh and a consumer group on each node, reads in steps |
| `Peers` | who gossips with whom: starts, crashes, joins, health checks, gossip rounds and pushes |
| `RateLimiterProofs`, `DurabilityProofs`, `CacheMeshProofs`, `JobQueueProofs`, `TransactionsProofs`, `PubSubProofs`, `SortedSetProofs`, `StreamsProofs` | the theorems of the module they are named after |
| `MCRateLimiter`, `MCDurability`, `MCCacheMesh`, `MCJobQueue`, `MCTransactions`, `MCPubSub`, `MCSortedSet`, `MCStreams`, `MCPeers` | instances for TLC |

`SortedSet` extends `SkipList`, and `RateLimiter` implements `Quota`. The other
modules share no variables: the stores they model have locks of their own and
meet only in `GetState` and `MergeState`, which work on them one after the
other.

### RateLimiter

`counts[n]` is node n's `GCounter` for one rate-limit key (keys never interact),
`seen[n]` its `GSet`, `wal[n]` the "consume" and "seen" entries of its log.
`Consume` and `Seen` hold `MeshStore.mu` from the check to the log entry, so
each is one step. `Send` is `GetState` at the sender, be it for a peer's pull or
the node's own push, and `Deliver` is `MergeState` at the receiver; between the
two, other copies overtake it, or it is lost. `Restart` is a kill and
`recoverFromDisk`; `CrashInConsume` and `CrashInSeen` are the kill between the
log entry and the answer. Only the node's own operations are in its log, so a
restarted node knows its own slot and nothing of its peers'. `admitted` and
`fresh` count the answers clients got. The window of `Consume` and the TTL of
`Seen` are ignored by the code and are not in the model. Snapshots belong to
`Durability` and are not composed here: a node recovers from its whole log, and
what the properties say of crashes is on that condition. A snapshot that loses
log entries (`RotationIsCleanup`) makes a node forget answers it gave, and
restoring one while requests are served lowers its own slot, which peers then
outnumber.

### Durability

`live` is the memory, `wal`/`walOpen` the log file, `snap` the newest complete
snapshot file and `torn` whether an incomplete one is newer. A write is one step
(it holds `MeshStore.mu` and, inside, `PersistenceEngine.mu`). `CreateSnapshot`
is four: `Copy` under the store's lock; `Stamp` and `WriteFile` under the
engine's; `RotateWAL` under the engine's again. Each `Snapshotter` is a
goroutine in it. `WriteFileFails` and `RotateWALFails` are disk errors,
`LoadLatestSnapshot` and `ApplySnapshot` the two halves of a restore by HTTP,
`Crash` a kill and the next start. `owed` is what clients may rely on: the
writes logged while no snapshot was under way and the log was open, reduced to
what a restore leaves. Writes inside a snapshot are not owed: the code's comment
(`store/mesh_store.go:892`) admits that those between copy and stamp may be
lost, and `RotationIsCleanup` (section 4) shows that those up to the rotation
are too. Nor are writes answered OK after a failed rotation closed the log,
which the code never logs; and that no start succeeds while the newest file is
incomplete is in the model, and no property forbids it. The clock is assumed to
increase strictly and never to be set back.
Entries of the cache are identified by the time at which they were set.

### CacheMesh

`cache[n]` is node n's entry of one key in one namespace, with its value, expiry
and version (wall clock, writer). A value is known by its writer and the time of
its `Set`. Each node has a clock of its own; they only increase. `Set` reads the
clock twice, for the version in memory and, in `LogOperation`, for the version
in the log, because it passes version 0; `CommitTransaction` passes its own.
`Send` and `Deliver` are `GetState` and `MergeState`, which adopts a strictly
newer entry and logs it under its writer's version. `Expire` is
`backgroundCleanup`; it leaves no tombstone, so what a peer still has comes
back. `log[n]` is the last "set" entry after the last snapshot: replay puts one
entry over the other without a look at versions, so the last decides. The steps
of a snapshot and their races are left to `Durability`; here it is one step.
`written` records all writes with both their times.

### JobQueue

`queue[n]` is node n's `JobQueue`. `JobIndex` and the log `jq.Jobs` hold
pointers, and a merge replaces the pointer in the index only; the model keeps
the index, the set of IDs whose object the log shares, and the outdated objects
that only the log holds. `Claim` is `GetNextJob`, loop and all: the loop ranges
over the old slice header while removals shift the array underneath, so `Places`
says which element each turn sees, and `Scan` where it ends: with a claim, with
a nil dereference on an evicted job, or with a removal beyond the list.
`Cleanup` is `cleanupExpiredJobs`: expired jobs leave the pending list, stuck
ones return to it, old terminal jobs are evicted. A panic in a handler ends the
operation and keeps what it did; one in the cleanup or the gossip goroutine ends
the process (`Dies`), which is not started again here. `Send` and `Deliver` are
`Snapshot` and `MergeSnapshot`. A log is a set of objects, so `Deliver` merges it
in any order. `Sorted` puts each job of the pending list where the number of
those above it says; with equal jobs in their order, as `sort.Slice` has it for
the lengths checked. `DeadLetter` appends to the dead-letter queue and drops the
oldest letters beyond `MaxSize` (10000 in the code). A job that is listed twice
may get two letters and so displace another one; hence what the properties say
of a failure holds while the queue is not full. Payloads, results, workers and
vector clocks are left out: no operation looks at them, so anybody may report on
any job at any time.

### Transactions

`txns[n]` is the table of node n's `TransactionManager`, `cache[n]` its cache,
which is also what its log would bring back, and `client[c]` how far c's
`MeshStore.CommitTransaction` has come. That call is modelled by its critical
sections: `ReadOperations` under the manager's lock for reading, `Commit` or
`CommitRefused` under the transaction's, `LockStore` and one `ApplyWrite` for
each Set under the store's, which it keeps until the last. `Send` (`GetState`)
and `Deliver` (`MergeState`) wait for the store's lock, too; a kill may come
between any two writes, each of which is logged by itself. `MergeTxn` is the
manager's `MergeSnapshot`: it inserts what is unknown, whatever `maxTxns` says,
and replaces what has an older stamp, terminal states included. Stamps of
transactions are milliseconds, of which a commit may fill one, so calls of the
same millisecond have equal stamps. `CleanupExpired` removes transactions by
age, and gossip may bring them back. The remaining variables are history:
`applies` lists what each commit wrote, and `raced`, `cut`, `forgot` and
`lowered` name what the properties exempt: operations added while the commit
that should apply them was between its first two steps, commits a kill cut in
two, transactions some node forgot, and keys a slow clock has written with a
lower version than was there. Operations other than Set are recorded by the
code and never applied; `op.Error` is never set by any caller, so the status
`StatusFailed` cannot be reached.

### PubSub

The broker has one lock and every topic has another. `call[c]` is where thread c
is between two operations on a lock or a channel; `broker` and `lock[t]` say who
holds what. Subscribe, Unsubscribe and GetStats take the broker's lock and then
a topic's. Publish takes the topic's (`Publish`, `Recorded`), visits the
subscribers in any order (`DeliverTo`, `ChannelFull`), and takes the broker's
lock for the dead-letter queue while it still has the topic's
(`addToDeadLetterQueue`). `subscribers[t][s]` and `registered[s]` are the two
tables that name a subscriber's channel; a second Subscribe replaces an entry of
each, an Unsubscribe of any topic removes the second. `MergeSnapshot` and
`Merged` are the merge of a peer's history: the union, sorted by stamp in a way
that is not stable, cut to `maxHistory`. `arrived` and `named` are history. The
map iterations of the code are in any order. GetStats holds the broker's lock
for reading only, and is modelled as alone: two of them at once change nothing.

### SkipList and SortedSet

A skip list is a record of `forward`, `span` and `backward` functions, with
`tail`, `level` and `length`; a node is the pair of a score and a member.
`Descent` is the search from the top level, as `Insert`, `Delete`, `Rank` and the
ranges do it, level by level (`Along` is the walk on one). The height of a new node is any number of levels, where the code
draws it at random. In `SortedSet`, `members[n]` is the `MemberMap` with its
tombstones, `list[n]` the skip list that answers queries, `clock[n]` the logical
clock. Each call holds the set's lock throughout, so `Add`, `Remove` and
`MergeSnapshot` are single steps. `Wins` is `compareMembers`: score first, then
stamp, then node; `MergeMember` is the turn of the merge's loop for one member.
`Answer` drops what is a tombstone by then. `MergeSnapshot` builds a set of the peer's records whose clock
is 0 and merges that, so the local clock goes up by one and never catches up
with the peer's. `Restore` and `Restart` merge the latest snapshot into the set
as it is, or into a new one, whose clock starts again. The comment at
`store/mesh_store.go:949` has a restore replace the state; for sorted sets it
merges.

### Streams

`log[n]` is a stream's `Entries` on node n, `group[n]`, `offset[n]` and
`pending[n]` its consumer group there, which is neither gossiped nor persisted.
`XAdd` appends at the end whatever the stamp; `Merged` adds what has a new ID,
and sorts and trims only when there was any; `Picked` filters and `Sorted` sorts
by position, without recursion. `XReadGroup` is a sequence of calls
with locks of their own: look up the consumer (`AddConsumer`), read its offset
(`GetOffset`), read the log (`ReadRange`), and make each entry pending
(`AddPending`), so requests of one consumer interleave. `XAck` sets the offset to
the entry it names, forwards or backwards, and clears that entry only, although
the code's comment says up to it. `RangeFrom` starts from the beginning when the
entry of the offset is no longer there. `delivered`, `acked` and `moved` are
history. `moved[n][c]` names what a merge put before an entry that c had been
given by n, or that one of its reads was about to return, and that was not
before it: a new entry with an older stamp, or one that retention had dropped,
which a second merge brings back before what was read meanwhile. What a merge
puts behind all that c was given is not in it, and c must get it.

### Peers

`peers[n]` is node n's table, `health[n][p]` what it thinks of p. A join is
three steps (`JoinRequest` at the seed, the answer, `Joined` at the joiner), the
answer may be lost and the seed may crash in between; a join that failed is
never tried again, and a seed that restarts without `-join` pulls from nobody.
The health-check loop lists the peers and asks one after the other (`Ping`,
`Pinged`), and beside it run the gossip round (`performGossip`) and the push of
a claim or a commit (`PushState`): each notes whether the peer was up when it
asked, and records that as a success or failure later, in any order.
`Candidates` is `selectPeer`'s choice. Which data gossip carries is in the other
modules; they assume of it what `GossipGetsThrough` shows, for the node that
watches.

## 3. Runs

| run | instance | shows |
|---|---|---|
| `rate_mesh` | 3 nodes, limits 1 and 2, 1 nonce, 1 state in flight, 1 crash | types, `MeshQuota`, `NoInventedCounts`, `FreshOnce`, `ViewNeverFalls`, `ImplementsQuota` |
| `rate_convergence` | 2 nodes, 2 states in flight, 1 crash | `Convergence` |
| `durability` | 2 snapshotters, 3 writes, 2 snapshots, 2 kills, 1 disk error | types, `Durable`, `NoDoubleApply` |
| `cache_mesh` | 2 nodes, 3 writes, times to live 0 and 1, clocks up to 3, 1 kill, 1 state in flight | types, `VersionNamesValue`, `LastWriteKept`, `RestartNeverOlder` |
| `cache_convergence` | 2 nodes, 2 writes without expiry, 1 kill | `Convergence` |
| `job_node` | 1 node, 2 jobs, 2 priorities, 2 deadlines, 3 ticks | `AttemptsBounded`, `PendingIsServed` |
| `job_mesh` | 2 nodes, 2 jobs whose IDs may collide, 2 messages | types, `PendingIsQueued`, `FailedIsDeadLettered`, `KnownIsGossiped` |
| `transactions` | 2 nodes, 2 callers, 1 transaction, 2 keys, skews 0 and 1, 4 calls, 2 states sent, 1 kill | types, `CommittedIsApplied`, `AllOrNothing`, `OneOutcome` |
| `pubsub` | 2 threads, 1 topic, 1 subscriber, channels and histories of 1 message, 2 subscriptions, 2 publishes | `ClosedIsForgotten`, `Pollable`, `DeliveredInOrder`, `HistoryKeepsNewest`, `CallsReturn` |
| `sorted_set` | 2 nodes, 3 members, 2 scores, 2 levels, limits and ranks up to 2, 4 events (a snapshot is one), 1 state sent, 1 restore or restart | types, `QueriesAgree`, `RanksArePositions`, `TiesAreEqual`, `LastWriteHolds` |
| `streams` | 2 nodes, 1 consumer, 2 requests, logs of 2 entries, 3 entries added, 2 reads, 1 state sent, 1 restart | `LogsAgree`, `NothingSkipped`, `NothingForgotten` |
| `peers` | 3 nodes that join one another, 4 starts, 2 failures to be unhealthy | `HealthFollows`, `GossipGetsThrough` |

**Bounds.** Every bound is a constant that guards an action. Three nodes let two
of them race on the limit while a third carries an outdated copy; limits of 1
and 2 let requests of one key disagree on the limit; one state in flight still
goes stale, since the sender moves on, and two in the liveness run may overtake
each other. Two snapshotters are the fewest that overlap, two snapshots let the
older copy be stamped last, and two kills make a recovery work on what a
recovery left. Three log entries suffice for one before, one within and one
after a snapshot. In the cache, two nodes with unrelated clocks that show the
same times reach every order of stamps and every tie; three writes are one
undisputed write and two that compete below it. Two jobs are the fewest for which the
loop of `GetNextJob` sees an element twice; the clock runs just past a deadline, a processing timeout
and an eviction. The mesh has room for 2 dead letters, the single node for all:
once the queue is full nothing is promised of it. Configurations that bound the behaviour switch deadlock
checking off, because the bounded system comes to rest; `rate_mesh` and the
other runs of `RateLimiter` check it. The type
invariants of `PubSub`, `Streams` and `Peers` hold in these instances, too, when
they are added to the configuration.

*Transactions.* Two callers commit, extend and roll back one transaction on two
nodes: to commit it on the other node as well takes one state sent there, to
bring it back to where it was forgotten another one. A timeout of 0 lets a transaction expire at the next
millisecond, two instants make one, and a skew of one puts calls of two nodes
into the same millisecond or apart. The two keys and the two callers are
symmetric. Four calls seldom fit two commits of two writes each, so the
instance was also simulated at random with 3 nodes, 2 transactions, skews up
to 4 and 14 calls, for 13 million states; and the theorems cover all sizes.

*PubSub.* Everything is at its smallest limit, so that channels, the history and
the dead-letter queue are full at once and the locks are contended; a thread
more adds waiting but no new order of two locks. The instance with a history of
2 and 3 publishes (2.1 million states) was checked once as well.

*SortedSet.* Two levels are where spans above a new node matter, three members
the fewest with a node on either side, two scores give ties. A limit of 2 (and
ranks of 0 and 2) cuts three keys, and is beyond the end of fewer. Only node 1
takes snapshots and restarts. A snapshot is one of the four events, so that a
write, a snapshot, another write and a restore are a behaviour of the run; the
instance with snapshots on top of the four (566,906 states) was checked once as
well.

*Streams.* Logs of two entries overflow at the third; two requests of one
consumer interleave reads and acknowledgements; clocks are apart by up to one
tick, in which an entry grows too old. `StreamsAgain.cfg`, which
is run by hand, has two states sent, so that an entry that was dropped comes back
before a consumer that has read on; it has one request, and there the
types and `NothingSkipped` hold as well. (`NothingSkipped` is as much about
gossiped entries: where node 2 alone adds, TLC still finds it violated when a
consumer starts at the end of the log.) Node 1 alone has a group and restarts;
the other one only adds and gossips, as node 1 may.

*Peers.* Node a watches; b and c join it and it joins b, so a is a seed as well
as a joiner. Four starts are one restart of any of them. Failures past the
threshold are not counted, since no code looks at them.

**Fairness.** `Convergence` (of `RateLimiter` and of `CacheMesh`) assumes that
every ordered pair of nodes exchanges states again and again and that not all
of them are lost (`GossipFairness`,
strong fairness, because the channel bound or a loss may disable the step):
`gossipLoop` never ends and picks peers at random. `PendingIsServed` assumes
that workers keep polling and that the cleanup ticker keeps ticking
(`WorkFairness`; enabledness is written out, as TLC takes long to derive it).
`CallsReturn` assumes that a goroutine
that can go on does, and that one waiting for a lock that is released again and
again gets it (strong fairness of `Step`, since the lock may be taken in
between; `sync.RWMutex` serves those that wait in turn). `HealthFollows` and
`GossipGetsThrough` assume that the health-check and gossip loops go on (weak
fairness: tickers drive them and requests time out after five seconds), and
nothing of which peer a round picks.
Nothing assumes that clients call, clocks tick, pushes or joins happen or nodes
crash.

## 4. What the code does not keep

Five properties state sentences of the repository that the model refutes. They
are checked by hand, each with a configuration of its own:

| configuration | module | property | the counterexample |
|---|---|---|---|
| `RateLimiterForgets.cfg` | `MCRateLimiter` | `NonceStaysKnown` | a nonce learnt by gossip is forgotten by a crash |
| `DurabilityRotation.cfg` | `MCDurability` | `RotationIsCleanup` | a write between stamp and rotation is lost |
| `CacheMeshFlip.cfg` | `MCCacheMesh` | `WinnerOnlyByWrite` | a restart brings an overwritten entry back with a later version |
| `JobQueueSnapshot.cfg` | `MCJobQueue` | `SnapshotIsCurrent` | a job replaced by a merge is never gossiped again in its current version |
| `JobQueueStuck.cfg` | `MCJobQueue` | `ProcessingIsTracked` | a job claimed beyond the end of a shortened list never times out |

Other disagreements show as the conditions of properties that do hold; the
"findings" of `PROJECT.json` quote the lines. The lock order of `PubSub` can
deadlock: `CallsReturn` has every call return *or* wait in that deadlock,
`Deadlocked`, which a full channel and a concurrent Subscribe, Unsubscribe or
GetStats suffice for. Sorted sets compare scores before stamps and do not take
over a peer's clock; so `LastWriteHolds` is about a lone writer that lowers no
score, and `TiesAreEqual` about the time before a restarted node writes.
`NothingSkipped` exempts what a merge puts before an entry the consumer was
given, which its offset may have passed.
`CommittedIsApplied` exempts what is added to a transaction during its commit.
The peers a joiner is told of are never told of the joiner, so only its seed
pulls from it. A node that joins its own address becomes its own peer (take
`MCJoinAll` for `Join` in `Peers.cfg`), is healthy for ever and keeps the node
ready when it is cut off.

## 5. Proofs

TLAPS checks the eight proof modules to the last leaf, with SMT, Zenon and, for the
temporal steps, LS4.

**RateLimiter**, for any finite set of nodes, any nonces, limits and bounds.
`MeshQuota` is not inductive: it speaks of answers, and recovery of the log.
`IInv` adds `LogAgrees` (the node's own slot and the nonces of its log agree
with the log: a crash changes nothing of its own), `NoInventedCounts` (so that
merging a peer's copy never raises the owner's slot) and `AnswersLogged` (each
answer OK and each "not seen" is backed by the log, and the slot is within the
limit). Recovery is from the whole log, as in the model. From it follow
`TypeCorrect`, `MeshQuotaHolds`, `NoInventedCountsHolds`,
`FreshOnceHolds`, the action property `ViewNeverFallsHolds` and `Refinement`:
every step maps to a step of `Quota` or stutters. The finite sums are
cardinalities of sets of increments, so that the library's cardinality theorems
apply. Assumptions: `Node` is finite, `Limits` lies in `0 .. MaxLimit`.

**Durability**, for any snapshotters, nonces, limit and bounds. `Durable` alone
is not inductive: a snapshot under way may replace the file. `IInv` says of
every copy under way, of every file about to get its stamp, of the file on disk
and of every restored state that together with the log entries it does not cover
it holds at least what is owed, that stamps and log entries are not later than
the clock, and that the log is finite. `TypeCorrect` and `DurableHolds` follow.
`ReplayFacts` and `ReplayOneMore` are the lemmas about replaying a log.
`NoDoubleApplyHolds` needs the converse, an upper bound (`Counted`): neither the
memory, nor the recovery, nor a copy under way, nor a loaded state counts more
than was answered OK. A file about to become the newest has a stamp that covers
the whole log, as it is completed under the lock it was stamped under, so
recovery from it replays nothing on top.

**CacheMesh**, for any finite set of nodes, any times to live and any bounds.
None of the properties is inductive, since a merge compares versions and they
speak of writes. `IInv` relates the two: every entry in memory, on disk or in
flight stems from one write, with a version between the write's two stamps
(`AllBacked`); these intervals do not overlap on one node (`WritesOrdered`); and
a node's disk holds the same write as its memory, with a version not lower
(`DiskAgrees`). From it follow `TypeCorrect`, `VersionNamesValueHolds`,
`LastWriteKeptHolds` and the action property `RestartNeverOlderHolds`.
Assumptions: nodes are positive numbers (their order is that of the names), and
times to live are naturals.

**Transactions**, for any finite set of nodes, any callers, transactions and
keys, any skews and any bounds. `IInv` has four parts, each with a lemma for the
steps. `Types` adds to `TypeOK` what a call in progress holds. `SoleOwner`: while
one node alone has changed a transaction and none has forgot it, every copy in
tables and messages is one of that node's own older versions, so no merge
replaces what the node decided. `Accounted`: what is committed anywhere has been
applied, is in the queue of the call that committed it, or is exempt, and a call
that has read the operations has all of them but those that were added since.
`Whole`: every cache and every message has all that was written so far of each
commit it shows; what an unfinished commit has written is in the cache of its
node and nowhere else (`Begun`), at most one is unfinished per node
(`Separate`), and merges take the larger version key by key. From `IInv` follow
`TypeCorrect`, `OneOutcomeHolds`, `CommittedIsAppliedHolds` and
`AllOrNothingHolds`. Assumptions: nodes are finitely many positive numbers, and
one clock is the slowest (`0 \in Skews`).

**PubSub**, for any goroutines, topics, subscribers and capacities. None of the
properties is inductive without the owners of the locks (`Locked`) and without
the fact that a channel belongs to one subscriber of one topic (`Connected`), so
that whoever closes it holds the lock of the only topic that delivers to it.
`Made` says that whoever polls has a channel that was made, and `Registered` is
`Pollable` with the calls in progress. `ClosedIsForgottenHolds`,
`PollableHolds` and `DeliveredInOrderHolds` follow. `HistoryKeepsNewestHolds`
needs more: publishes trim a history in the order of arrival and merges by
stamp, so `Histories` says of any two messages of a history that the one behind
came later or has a stamp that is no older (`InTurn`), and `Unrecorded` that a
message about to be recorded is in no history. `TrimKeeps` is the lemma both
kinds of trimming share. Assumptions: `Free` is no thread, the peer's messages
are finitely many, capacities are positive.

**Streams**, for any nodes, consumers, requests and limits. Filtering and sorting
are defined by ranks, so that what they return (`PickedFacts`, `SortedFacts`,
`MergedFacts`) follows from the cardinality theorems of the library, without
induction. `IInv` has eight parts: types; logs without repetitions (`Lists`), as
each node has passed the stamps and numbers of all its entries anywhere, in logs
or given to consumers (`Stamps`); only members of a group have offsets and requests (`Members`);
offsets are of entries that were given (`Reads`); what a
read in progress owes is pending, acknowledged or still to do (`Pended`); and
what is ahead of a given entry was given or moved (`InOrder`), which a merge keeps
as what it puts before a given entry counts as moved, and `XAdd` because its
entry is a new one at the end. From it follow `TypeCorrect`, `GivenIsRemembered`
and `GivenInOrder`. `MergedLogsAgree` is about two merges: each keeps the newest
entries of a union, and what one dropped for newer ones the other drops, too
(`MergesAgree`); and a merge keeps a fresh entry just when less than a log full
of all entries is newer (`MergeKeepsNewest`).

**JobQueue**, for any finite set of nodes, any retries, priorities, timeouts and
limits, and any order in which a log is merged. `IInv` says of every queue that
it has its types and finite logs, that a pending job is listed or has expired
(`Waits`) and that the log has every job of the index (`Gossiped`); and of the mesh that
every failed version of a job, in an index, a log or a message, has its dead
letter at the node that failed it (`DeadLettered`), since versions outlive the
index they were made in. Each operation has a lemma as a step from a queue to a
queue, which keeps the first and makes a job fail only with a letter
(`Follows`). The in-place loop of `GetNextJob` needs no induction: it removes
only places it has looked at, and the job taken is one of them. The loop over a peer's log
does: `Least` (every set of naturals has a least element, from the library's
well-founded order) gives that its function exists (`AdoptedTurns`) and that it
keeps what one turn keeps (`AdoptedFacts`). `TypeCorrect`, `WaitingIsQueued`,
`FailuresAreKept` and `LogsKeepAll` follow. `AttemptsAreBounded` is about a node
alone, as `AttemptsBounded` is (its hypothesis is that `Node` has one element):
a job was claimed at most once for each report, once more while it is not
pending, and once for each timeout (`Within`), and no ID is given out twice.

**SortedSet**, for any nodes, any finite set of members, any positive scores,
any number of levels and any heights. Of the records: every step is a write, or a
choice for each node and member among records that exist (`Selects`: gossip,
snapshots, restores and restarts make none). So stamps name one record
(`Unique`), until a restarted node writes with a clock that began again, and
nothing wins over what a lone writer wrote last (`LastWord`).
`TiesAreEqualHolds` and `LastWriteHoldsAlways` follow.

Of the skip lists: `IsSkipList` says that each level is the chain of the nodes
that tall, in order (`Linked`), that every span in use is the difference of two
positions (`Measured`; `Pos(N, x)` counts the keys up to x), that the backward
pointers and the tail are those of the lowest level (`Backwards`, `Ended`) and
that level and length fit (`Shaped`). The descent into a first part of the keys
ends, on every level, at its last node of that level, with that node's position
as its rank (`DescentFacts`). From this `InsertFacts` and `DeleteFacts`: both
keep `IsSkipList`, and add or remove exactly the key, whether it was there or
not. Then a list that holds the live members of a map still does when one record
is replaced (`Replaced`) and after the loop of a merge (`MergedFacts`), so it
does always: `ListsInvariance`, on top of the records' types. Last, the queries
of a skip list are windows of its keys in order: all nodes (`AllFacts`), those from a first score
on (`FromFacts`, `SeekFacts`), those of a range, forwards and backwards
(`RangeFacts`, `RangeDescFacts`), and the map's keys of the same scores are the
same window (`ScoresInOrder`). `QueriesAgreeHolds`, `RanksArePositionsHolds` and
`TypeCorrect` follow.

The walks, the descent and the loop of the merge are recursive functions; that
there is such a function, and what it returns, is shown each time by the least
counterexample (`Least`, as in `JobQueueProofs`).

**Only model-checked**: `Peers`; and every liveness property, `PendingIsServed`,
`CallsReturn` and `Convergence` among them, since liveness under fairness is out
of the prover's reach. The library's induction theorems take an operator as a
parameter, which no prover here can instantiate; induction on numbers goes through `Least` instead, as above.

## 6. What is not modelled

`PROJECT.json` lists every component with its status. Scoring in search and
ranking is floating-point arithmetic without state; request parsing,
authentication and encoding are left out. Pipelines, WASM scripts, the
certificate reloader and the cluster-wide metrics have state and are in the plan.
The load balancer, sharding, replication, `agents/` and `graph/` are reached by
no server code; the load test and the SDKs are no part of a node.

Of the modelled components, left out are: a torn last line of the log, dead-letter
replay (no API calls it), the restart of a node in `JobQueue`, runtime restore in `RateLimiter`, in `CacheMesh` the
truncation of expiries to milliseconds; in `Transactions`, `DeleteTransaction`
and `SnapshotIsolation` (no callers) and the records in disk snapshots, which
bring back no more than an old message does; in `PubSub`, read-only calls with
the lock order of GetStats; in `Streams`, retention by size and the parts of a
group nothing calls; in `Peers`, RemovePeer and message handlers, likewise.

## 7. Plan

Built: the eleven modules above, eight of them with proofs. Next, in this order:

1. `Pipelines`: the engine's lock, which a pipeline that times out releases while
   its goroutine goes on; registration, deletion and merge.
2. WASM modules: the life of a compiled module that is replaced while it runs.
3. The composition of the stores in one `MergeState`: what a peer may see of one
   node's groups, copied at different times.
4. Convergence of transactions and streams under fair gossip, for what no node
   forgot.
5. Proofs about `Peers`: its handshakes, and what a table may lose.
6. Certificate reload, hash ring, retries of the SDKs.
