---------------------------- MODULE RateLimiter ----------------------------
(***************************************************************************)
(* The two grow-only primitives of a TollMeshCache mesh: Consume on one     *)
(* rate-limit key (a GCounter) and Seen on a set of nonces (a GSet), with   *)
(* the gossip that spreads them and the write-ahead log that brings a node  *)
(* back after a crash.                                                      *)
(*                                                                          *)
(* Both operations run under MeshStore.mu, so each is one step.  Gossip is  *)
(* two: GetState copies the sender's state, MergeState applies the copy at  *)
(* the receiver, and in between the copy may be overtaken, lost, or found   *)
(* stale.  Disk snapshots are the subject of module Durability; here a node *)
(* recovers from its whole log, so what is said of crashes holds as long as *)
(* no snapshot loses log entries, as Durability shows that one may.         *)
(***************************************************************************)
EXTENDS Naturals, FiniteSets

CONSTANTS
  Node,         \* the nodes, distinct NodeNames
  Item,         \* the nonces clients ask Seen about
  Limits,       \* the limits clients pass to Consume: each request names its own
  MaxLimit,     \* the largest of them
  MaxInFlight,  \* bound: states in flight between nodes at a time
  MaxRestarts   \* bound: crashes in a behaviour, over all nodes

ASSUME LimitsAssumption ==
  /\ MaxLimit \in Nat
  /\ Limits \subseteq 0 .. MaxLimit

ASSUME NodeAssumption == IsFiniteSet(Node)

ASSUME BoundsAssumption == MaxInFlight \in Nat /\ MaxRestarts \in Nat

VARIABLES
  counts,    \* counts[n][m]: node n's copy of m's slot of the GCounter
  seen,      \* seen[n]: node n's GSet
  wal,       \* wal[n]: the "consume" entries (a number) and "seen" entries of n's log
  msgs,      \* states copied by GetState and not yet merged
  restarts,  \* crashes so far
  admitted,  \* history: admitted[n], the requests Consume answered OK at n
  fresh      \* history: fresh[n][i], the times Seen answered "not seen" for i at n

crdts   == <<counts, seen>>
answers == <<admitted, fresh>>
vars    == <<counts, seen, wal, msgs, restarts, admitted, fresh>>

Counter == [Node -> Nat]
Message == [from : Node, to : Node, counts : Counter, seen : SUBSET Item]

TypeOK ==
  /\ counts \in [Node -> Counter]
  /\ seen \in [Node -> SUBSET Item]
  /\ wal \in [Node -> [consumed : Nat, seen : SUBSET Item]]
  /\ msgs \in SUBSET Message
  /\ restarts \in Nat
  /\ admitted \in [Node -> Nat]
  /\ fresh \in [Node -> [Item -> Nat]]

----------------------------------------------------------------------------
(* The GCounter.  Its value is the sum of its slots: the number of          *)
(* increments <<m, 1>> .. <<m, c[m]>> of all nodes m together.              *)

Increments(c) == UNION {{m} \X (1 .. c[m]) : m \in Node}

Value(c) == Cardinality(Increments(c))

Zero == [m \in Node |-> 0]

Larger(a, b) == IF a > b THEN a ELSE b

(* Mutants of MergeCounters: adding the slots up, overwriting, ignoring.    *)
MergeCountersSum(c, d) == [m \in Node |-> c[m] + d[m]]
MergeCountersOverwrite(c, d) == d
MergeCountersIgnore(c, d) == c

MergeCounters(c, d) == [m \in Node |-> Larger(c[m], d[m])]

----------------------------------------------------------------------------
Init ==
  /\ counts = [n \in Node |-> Zero]
  /\ seen = [n \in Node |-> {}]
  /\ wal = [n \in Node |-> [consumed |-> 0, seen |-> {}]]
  /\ msgs = {}
  /\ restarts = 0
  /\ admitted = [n \in Node |-> 0]
  /\ fresh = [n \in Node |-> [i \in Item |-> 0]]

(* Mutant of Consume: admits one request too many.                     *)
ConsumeOneMore(n, limit) ==
  /\ Value(counts[n]) <= limit
  /\ counts' = [counts EXCEPT ![n][n] = @ + 1]
  /\ wal' = [wal EXCEPT ![n].consumed = @ + 1]
  /\ admitted' = [admitted EXCEPT ![n] = @ + 1]
  /\ UNCHANGED <<seen, msgs, restarts, fresh>>

(* Consume answers OK when the node's own view of the mesh-wide count is    *)
(* below the limit of this request; the window plays no part in it.  A      *)
(* refused request changes neither the counter nor the log.                 *)
Consume(n, limit) ==
  /\ Value(counts[n]) < limit
  /\ counts' = [counts EXCEPT ![n][n] = @ + 1]
  /\ wal' = [wal EXCEPT ![n].consumed = @ + 1]
  /\ admitted' = [admitted EXCEPT ![n] = @ + 1]
  /\ UNCHANGED <<seen, msgs, restarts, fresh>>

(* Mutant of Seen: the nonce is not logged.                            *)
SeenUnlogged(n, i) ==
  /\ i \notin seen[n]
  /\ seen' = [seen EXCEPT ![n] = @ \cup {i}]
  /\ fresh' = [fresh EXCEPT ![n][i] = @ + 1]
  /\ UNCHANGED <<counts, wal, msgs, restarts, admitted>>

(* Seen answers "not seen"; a replay is answered without any change.        *)
Seen(n, i) ==
  /\ i \notin seen[n]
  /\ seen' = [seen EXCEPT ![n] = @ \cup {i}]
  /\ wal' = [wal EXCEPT ![n].seen = @ \cup {i}]
  /\ fresh' = [fresh EXCEPT ![n][i] = @ + 1]
  /\ UNCHANGED <<counts, msgs, restarts, admitted>>

----------------------------------------------------------------------------
(* GetState at m, for n to merge: the answer to n's GET /internal/state     *)
(* (performGossip) or the body of m's own POST of it (PushState).           *)
Send(m, n) ==
  /\ m # n
  /\ Cardinality(msgs) < MaxInFlight
  /\ msgs' = msgs \cup {[from |-> m, to |-> n, counts |-> counts[m], seen |-> seen[m]]}
  /\ UNCHANGED <<crdts, wal, restarts, answers>>

(* MergeState.  What a merge teaches a node about these two primitives is   *)
(* not written to its log.                                                  *)
Merge(msg) ==
  /\ msgs' = msgs \ {msg}
  /\ counts' = [counts EXCEPT ![msg.to] = MergeCounters(@, msg.counts)]
  /\ seen' = [seen EXCEPT ![msg.to] = @ \cup msg.seen]
  /\ UNCHANGED <<wal, restarts, answers>>

Deliver(m, n) ==
  \E msg \in msgs : msg.from = m /\ msg.to = n /\ Merge(msg)

Lose(msg) ==
  /\ msgs' = msgs \ {msg}
  /\ UNCHANGED <<crdts, wal, restarts, answers>>

----------------------------------------------------------------------------
(* Mutants of Recover: the log is not replayed; its first entry is skipped. *)
RecoverNothing(n, log) ==
  /\ counts' = [counts EXCEPT ![n] = Zero]
  /\ seen' = [seen EXCEPT ![n] = {}]

RecoverOneLess(n, log) ==
  /\ counts' = [counts EXCEPT ![n] = [Zero EXCEPT ![n] = log.consumed - 1]]
  /\ seen' = [seen EXCEPT ![n] = log.seen]

(* recoverFromDisk without a snapshot, on a log with these entries:         *)
(* "consume" increments the node's own slot of a new counter, "seen" adds   *)
(* to a new set.                                                            *)
Recover(n, log) ==
  /\ counts' = [counts EXCEPT ![n] = [Zero EXCEPT ![n] = log.consumed]]
  /\ seen' = [seen EXCEPT ![n] = log.seen]

(* A crash and the restart after it; no request is served in between.       *)
Restart(n) ==
  /\ restarts < MaxRestarts
  /\ restarts' = restarts + 1
  /\ Recover(n, wal[n])
  /\ UNCHANGED <<wal, msgs, admitted, fresh>>

(* A crash inside Consume or Seen, after LogOperation and before the        *)
(* answer: the operation is on disk and the client never learns of it.      *)
CrashLogged(n, log) ==
  /\ restarts < MaxRestarts
  /\ restarts' = restarts + 1
  /\ wal' = [wal EXCEPT ![n] = log]
  /\ Recover(n, log)
  /\ UNCHANGED <<msgs, admitted, fresh>>

CrashInConsume(n, limit) ==
  /\ Value(counts[n]) < limit
  /\ CrashLogged(n, [wal[n] EXCEPT !.consumed = @ + 1])

CrashInSeen(n, i) ==
  /\ i \notin seen[n]
  /\ CrashLogged(n, [wal[n] EXCEPT !.seen = @ \cup {i}])

----------------------------------------------------------------------------
Next ==
  \/ \E n \in Node, limit \in Limits :
       \/ Consume(n, limit)
       \/ CrashInConsume(n, limit)
  \/ \E n \in Node, i \in Item :
       \/ Seen(n, i)
       \/ CrashInSeen(n, i)
  \/ \E m, n \in Node : Send(m, n) \/ Deliver(m, n)
  \/ \E msg \in msgs : Lose(msg)
  \/ \E n \in Node : Restart(n)

Spec == Init /\ [][Next]_vars

(* Every node's gossip loop picks a random peer at every tick for ever, so  *)
(* each pair exchanges states again and again, and not every exchange of a  *)
(* pair is lost.  Nothing obliges a client to call or a node to crash.      *)
GossipFairness ==
  \A m, n \in Node : SF_vars(Send(m, n)) /\ SF_vars(Deliver(m, n))

FairSpec == Spec /\ GossipFairness

----------------------------------------------------------------------------
(* Safety of Consume: however gossip is delayed, lost or reordered, and     *)
(* wherever nodes crash, if they recover from their whole log, the requests *)
(* answered OK over the whole mesh are at most the largest limit times the  *)
(* number of nodes, since each node alone stops at the limit.               *)
MeshQuota == Value(admitted) <= Cardinality(Node) * MaxLimit

(* Nobody knows of more increments of a slot than its owner made and        *)
(* logged: neither a node's counter nor a state in flight overstates a      *)
(* peer's count, so no request is refused on account of admissions that     *)
(* never happened, also while the peer restarts and replays its whole log.  *)
NoInventedCounts ==
  \A m \in Node :
    /\ \A n \in Node : counts[n][m] <= counts[m][m]
    /\ \A msg \in msgs : msg.counts[m] <= counts[m][m]

(* A node's view of the count never falls while it is up: a limit it has    *)
(* refused stays refused, no merge of an older state of a peer reopens it.  *)
ViewNeverFalls ==
  [][\A n \in Node : restarts' = restarts => Value(counts'[n]) >= Value(counts[n])]_vars

(* A node says "not seen" to the same nonce at most once, also across its   *)
(* crashes, if it recovers from its whole log: the nonce is in the log      *)
(* before the answer leaves.                                                *)
FreshOnce == \A n \in Node, i \in Item : fresh[n][i] <= 1

(* The node slots of the counters are the used tickets of module Quota: no  *)
(* admission is forgotten by its own node or counted twice, also across its *)
(* crashes, if it recovers from its whole log.                              *)
UsedTickets == UNION {{n} \X (1 .. counts[n][n]) : n \in Node}

Q == INSTANCE Quota WITH used <- UsedTickets

ImplementsQuota == Q!Spec

(* Eventual consistency: once no client call and no crash disturbs it any   *)
(* more, all nodes agree on every slot and every nonce and keep agreeing.   *)
Converged ==
  \A m, n \in Node : counts[m] = counts[n] /\ seen[m] = seen[n]

Convergence == <>[]Converged

(* docs/architecture.md:83 says that a new process comes back "exactly as   *)
(* it was before the process stopped, including a hard crash".  Then a      *)
(* nonce that a node knows, and reports as a replay, stays known there.     *)
NonceStaysKnown == [][\A n \in Node : seen[n] \subseteq seen'[n]]_vars
=============================================================================
