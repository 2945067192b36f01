---------------------------- MODULE Transactions ----------------------------
(***************************************************************************)
(* Transactions of a mesh: the manager's table on every node, the handlers *)
(* that begin, extend, commit and roll back, the three critical sections   *)
(* of MeshStore.CommitTransaction, the merge of the tables and of the      *)
(* caches by gossip, the clean-up of old transactions, and kills.          *)
(*                                                                         *)
(* Clocks of different nodes are apart by an unknown skew.  They count     *)
(* instants, the unit of UnixNano; a transaction is stamped in             *)
(* milliseconds, which are PerMilli instants long, so calls that follow    *)
(* each other closely get the same stamp.  The calls of the manager look a *)
(* transaction up and change it in two critical sections; they are one     *)
(* step here, since a clean-up in between could as well have come after.   *)
(* No other write than those of transactions is in the caches: module      *)
(* CacheMesh has Set.                                                      *)
(***************************************************************************)
EXTENDS Integers, Sequences, FiniteSets

CONSTANTS
  Node,         \* the nodes: positive numbers, in the order of the nodes' names
  Client,       \* callers of CommitTransaction
  Txn,          \* transaction IDs: positive numbers
  Key,          \* cache keys
  PerMilli,     \* instants of a millisecond
  MaxTxns,      \* maxTxns of a manager
  Timeout,      \* txnTimeout, in milliseconds
  Skews,        \* how far clocks may be ahead of the slowest, in instants
  MaxTime,      \* bound: the last instant
  MaxCalls,     \* bound: calls that are not refused at once, over all nodes
  MaxRestarts,  \* bound: kills, over all nodes
  MaxSends      \* bound: states sent between nodes, one in flight at a time

ASSUME NodeAssumption == IsFiniteSet(Node) /\ Node \subseteq Nat \ {0}

ASSUME BoundsAssumption ==
  /\ PerMilli \in Nat \ {0}
  /\ Skews \subseteq Nat /\ 0 \in Skews
  /\ {MaxTxns, Timeout, MaxTime, MaxCalls, MaxRestarts, MaxSends} \subseteq Nat

VARIABLES
  now,       \* the time of the slowest clock, in instants
  skew,      \* skew[n]: how far node n's clock is ahead of it
  txns,      \* txns[n]: node n's table, Absent where it has no such transaction
  cache,     \* cache[n]: node n's cache, also as its log would bring it back
  client,    \* client[c]: how far c's CommitTransaction has come
  msgs,      \* states copied by GetState and not yet merged
  restarts,  \* kills so far
  calls,     \* calls so far
  sends,     \* states sent so far
  applies,   \* history: the applications of a commit to a cache, in order
  outcomes,  \* history: outcomes[t]: commits and rollbacks of t that succeeded
  touched,   \* history: touched[t]: nodes whose handlers changed t
  forgot,    \* history: transactions some node cleaned up or lost by a kill
  raced,     \* history: operations added to a transaction during its commit
  cut,       \* history: operations whose commit a kill interrupted
  lowered    \* history: keys where a write got a lower version than what it replaced

history == <<applies, outcomes, touched, forgot, raced, cut, lowered>>

vars == <<now, skew, txns, cache, client, msgs, restarts, calls, sends, history>>

(* An operation is a Set, known by its number: the others are recorded for *)
(* audit and never applied, and are left out.                              *)
Operation == [id : 1 .. MaxCalls, key : Key]

Absent == [status |-> "absent", operations |-> <<>>, created |-> 0, updatedAt |-> 0, node |-> 0]

(* A cache entry: the application that wrote it, and its version.          *)
Entry == [apply : Nat, ts : Nat, node : Node \cup {0}]

NoEntry == [apply |-> 0, ts |-> 0, node |-> 0]

Idle == [pc |-> "idle", at |-> 0, txn |-> 0, ops |-> <<>>, apply |-> 0]

Ids(s) == {s[i].id : i \in DOMAIN s}

UnixNano(n) == now + skew[n]

UnixMilli(n) == UnixNano(n) \div PerMilli

Init ==
  /\ now = 0
  /\ skew \in {k \in [Node -> Skews] : \E n \in Node : k[n] = 0}
  /\ txns = [n \in Node |-> [t \in Txn |-> Absent]]
  /\ cache = [n \in Node |-> [k \in Key |-> NoEntry]]
  /\ client = [c \in Client |-> Idle]
  /\ msgs = {}
  /\ restarts = 0
  /\ calls = 0
  /\ sends = 0
  /\ applies = <<>>
  /\ outcomes = [t \in Txn |-> 0]
  /\ touched = [t \in Txn |-> {}]
  /\ forgot = {}
  /\ raced = {}
  /\ cut = {}
  /\ lowered = {}

Tick ==
  /\ now < MaxTime
  /\ now' = now + 1
  /\ UNCHANGED <<skew, txns, cache, client, msgs, restarts, calls, sends, history>>

----------------------------------------------------------------------------
Call == calls < MaxCalls /\ calls' = calls + 1

Known(n) == {t \in Txn : txns[n][t].status # "absent"}

BeginTransaction(n, t) ==
  LET created == UnixMilli(n)
  IN  /\ Call
      /\ Cardinality(Known(n)) < MaxTxns
      /\ t \notin Known(n)
      /\ txns' = [txns EXCEPT ![n][t] =
                    [status |-> "pending", operations |-> <<>>, created |-> created,
                     updatedAt |-> created, node |-> n]]
      /\ touched' = [touched EXCEPT ![t] = @ \cup {n}]
      /\ UNCHANGED <<now, skew, cache, client, msgs, restarts, sends, applies, outcomes, forgot, raced, cut, lowered>>

(* The calls of CommitTransaction that have read t's operations at node n  *)
(* and not yet set its status.                                             *)
Committing(n, t) ==
  \E c \in Client : client[c].pc = "commit" /\ client[c].at = n /\ client[c].txn = t

(* A change of t by node n, stamped as UpdatedAt and NodeID.               *)
Update(n, t, status, operations) ==
  /\ txns' = [txns EXCEPT ![n][t] =
                [status |-> status, operations |-> operations, created |-> @.created,
                 updatedAt |-> UnixMilli(n), node |-> n]]
  /\ touched' = [touched EXCEPT ![t] = @ \cup {n}]

Append1(n, t, k) ==
  /\ Call
  /\ Update(n, t, txns[n][t].status,
            Append(txns[n][t].operations, [id |-> calls + 1, key |-> k]))
  /\ raced' = IF Committing(n, t) THEN raced \cup {calls + 1} ELSE raced
  /\ UNCHANGED <<now, skew, cache, client, msgs, restarts, sends, applies, outcomes, forgot, cut, lowered>>

(* Mutant of AddOperation: also to a transaction that is not pending.      *)
AddOperationAnytime(n, t, k) ==
  /\ t \in Known(n)
  /\ Append1(n, t, k)

AddOperation(n, t, k) ==
  /\ txns[n][t].status = "pending"
  /\ Append1(n, t, k)

(* RollbackTransaction discards nothing: it only forbids the commit.       *)
RollbackTransaction(n, t) ==
  /\ Call
  /\ txns[n][t].status = "pending"
  /\ Update(n, t, "rolled_back", txns[n][t].operations)
  /\ outcomes' = [outcomes EXCEPT ![t] = @ + 1]
  /\ UNCHANGED <<now, skew, cache, client, msgs, restarts, sends, applies, forgot, raced, cut, lowered>>

(* Mutant of CleanupExpired: expired transactions are marked, not removed. *)
MarkExpired(n) ==
  LET expired == {t \in Known(n) : UnixMilli(n) - txns[n][t].created > Timeout}
  IN  /\ expired # {}
      /\ txns' = [txns EXCEPT ![n] = [t \in Txn |-> IF t \in expired THEN [@[t] EXCEPT !.status = "expired"] ELSE @[t]]]
      /\ forgot' = forgot \cup expired
      /\ UNCHANGED <<now, skew, cache, client, msgs, restarts, calls, sends, applies, outcomes, touched, raced, cut, lowered>>

(* A tick of cleanupExpiredTransactions, whatever the transactions' status. *)
CleanupExpired(n) ==
  LET expired == {t \in Known(n) : UnixMilli(n) - txns[n][t].created > Timeout}
  IN  /\ expired # {}
      /\ txns' = [txns EXCEPT ![n] = [t \in Txn |-> IF t \in expired THEN Absent ELSE @[t]]]
      /\ forgot' = forgot \cup expired
      /\ UNCHANGED <<now, skew, cache, client, msgs, restarts, calls, sends, applies, outcomes, touched, raced, cut, lowered>>

----------------------------------------------------------------------------
(* MeshStore.CommitTransaction, first step: the operations are read.       *)
ReadOperations(c, n, t) ==
  /\ client[c] = Idle
  /\ Call
  /\ t \in Known(n)
  /\ client' = [client EXCEPT ![c] =
                  [pc |-> "commit", at |-> n, txn |-> t,
                   ops |-> txns[n][t].operations, apply |-> 0]]
  /\ UNCHANGED <<now, skew, txns, cache, msgs, restarts, sends, history>>

(* Second step, under the transaction's lock: refused unless it is pending *)
(* by now.  No caller can give an operation an error, so validation never  *)
(* fails.                                                                  *)
CommitRefused(c) ==
  /\ client[c].pc = "commit"
  /\ txns[client[c].at][client[c].txn].status # "pending"
  /\ client' = [client EXCEPT ![c] = Idle]
  /\ UNCHANGED <<now, skew, txns, cache, msgs, restarts, calls, sends, history>>

Committed(c) ==
  LET n == client[c].at
      t == client[c].txn
  IN  /\ Update(n, t, "committed", txns[n][t].operations)
      /\ client' = [client EXCEPT ![c].pc = "lock"]
      /\ outcomes' = [outcomes EXCEPT ![t] = @ + 1]
      /\ UNCHANGED <<now, skew, cache, msgs, restarts, calls, sends, applies, forgot, raced, cut, lowered>>

(* Mutant of Commit: the status is not looked at again.                    *)
CommitBlindly(c) ==
  /\ client[c].pc = "commit"
  /\ txns[client[c].at][client[c].txn].status # "absent"
  /\ Committed(c)

Commit(c) ==
  /\ client[c].pc = "commit"
  /\ txns[client[c].at][client[c].txn].status = "pending"
  /\ Committed(c)

(* Third step, under the store's lock: one write after the other, each     *)
(* stamped and logged by itself.                                           *)
StoreLocked(n) == \E c \in Client : client[c].pc = "apply" /\ client[c].at = n

LockStore(c) ==
  /\ client[c].pc = "lock"
  /\ ~StoreLocked(client[c].at)
  /\ client' = [client EXCEPT ![c] = IF client[c].ops = <<>> THEN Idle
                                     ELSE [@ EXCEPT !.pc = "apply", !.apply = Len(applies) + 1]]
  /\ applies' = IF client[c].ops = <<>> THEN applies
                ELSE Append(applies, [ops |-> {}, writes |-> [k \in Key |-> NoEntry], torn |-> FALSE])
  /\ UNCHANGED <<now, skew, txns, cache, msgs, restarts, calls, sends, outcomes, touched, forgot, raced, cut, lowered>>

cacheEntryLess(a, b) == a.ts < b.ts \/ (a.ts = b.ts /\ a.node < b.node)

(* UnixNano is above that of the node's last write.  After the last        *)
(* operation the lock is released and the call returns.                    *)
Write(c, queue) ==
  LET n     == client[c].at
      op    == Head(queue)
      entry == [apply |-> client[c].apply, ts |-> UnixNano(n) + 1, node |-> n]
  IN  /\ client[c].pc = "apply"
      /\ now < MaxTime
      /\ now' = now + 1
      /\ cache' = [cache EXCEPT ![n][op.key] = entry]
      /\ applies' = [applies EXCEPT ![client[c].apply] =
                       [ops |-> @.ops \cup {op.id}, writes |-> [@.writes EXCEPT ![op.key] = entry],
                        torn |-> @.torn]]
      /\ lowered' = IF cacheEntryLess(entry, cache[n][op.key]) THEN lowered \cup {op.key} ELSE lowered
      /\ client' = [client EXCEPT ![c] = IF Tail(queue) = <<>> THEN Idle
                                         ELSE [@ EXCEPT !.ops = Tail(queue)]]
      /\ UNCHANGED <<skew, txns, msgs, restarts, calls, sends, outcomes, touched, forgot, raced, cut>>

(* Mutant of ApplyWrite: the first operation is taken for done.            *)
ApplyAllButFirst(c) ==
  LET queue == client[c].ops
  IN  Write(c, IF Len(queue) > 1 THEN Tail(queue) ELSE queue)

ApplyWrite(c) == Write(c, client[c].ops)

----------------------------------------------------------------------------
(* GetState at m, for n to merge: it takes the store's lock for reading. A *)
(* state that is lost is one that is never delivered.                      *)
Copy(m, n) ==
  /\ m # n
  /\ sends < MaxSends /\ msgs = {}
  /\ sends' = sends + 1
  /\ msgs' = msgs \cup {[from |-> m, to |-> n, txns |-> txns[m], cache |-> cache[m]]}
  /\ UNCHANGED <<now, skew, txns, cache, client, restarts, calls, history>>

(* Mutant of Send: without the lock.                                       *)
SendUnlocked(m, n) == Copy(m, n)

Send(m, n) ==
  /\ ~StoreLocked(m)
  /\ Copy(m, n)

(* Mutant of txnLess: an equal version replaces.                           *)
txnLessEq(a, b) ==
  a.updatedAt < b.updatedAt \/ (a.updatedAt = b.updatedAt /\ a.node <= b.node)

txnLess(a, b) ==
  a.updatedAt < b.updatedAt \/ (a.updatedAt = b.updatedAt /\ a.node < b.node)

(* MergeSnapshot of the manager: what is unknown is inserted, whatever     *)
(* maxTxns; what is strictly newer replaces, also a terminal status.       *)
MergeTxn(local, peer) ==
  IF peer.status # "absent" /\ (local.status = "absent" \/ txnLess(local, peer)) THEN peer ELSE local

MergeState(n, peer) ==
  LET merged == [t \in Txn |-> MergeTxn(txns[n][t], peer.txns[t])]
      gained == {t \in Txn : Committing(n, t) /\ merged[t] # txns[n][t]}
  IN  /\ txns' = [txns EXCEPT ![n] = merged]
      /\ cache' = [cache EXCEPT ![n] = [k \in Key |->
                     IF cacheEntryLess(@[k], peer.cache[k]) THEN peer.cache[k] ELSE @[k]]]
      /\ raced' = raced \cup UNION {Ids(merged[t].operations) \ Ids(txns[n][t].operations) : t \in gained}

Deliver(m, n) ==
  \E msg \in msgs :
    /\ msg.from = m /\ msg.to = n
    /\ ~StoreLocked(n)
    /\ msgs' = msgs \ {msg}
    /\ MergeState(n, msg)
    /\ UNCHANGED <<now, skew, client, restarts, calls, sends, applies, outcomes, touched, forgot, cut, lowered>>

(* A kill and the start of the next process.  Every write that reached the *)
(* cache is in the log; the transactions are not (those a snapshot brings  *)
(* back are those an old message of the node's own would).                 *)
Restart(n) ==
  LET dead == {c \in Client : client[c].at = n}
  IN  /\ restarts < MaxRestarts
      /\ restarts' = restarts + 1
      /\ txns' = [txns EXCEPT ![n] = [t \in Txn |-> Absent]]
      /\ client' = [c \in Client |-> IF c \in dead THEN Idle ELSE client[c]]
      /\ forgot' = forgot \cup Known(n)
      /\ cut' = cut \cup UNION {Ids(client[c].ops) : c \in {d \in dead : client[d].pc # "commit"}}
      /\ applies' = [i \in DOMAIN applies |->
                       [applies[i] EXCEPT !.torn = @ \/ \E c \in dead : client[c].apply = i]]
      /\ UNCHANGED <<now, skew, cache, msgs, calls, sends, outcomes, touched, raced, lowered>>

Next ==
  \/ Tick
  \/ \E n \in Node :
       \/ \E t \in Txn :
            \/ BeginTransaction(n, t)
            \/ \E k \in Key : AddOperation(n, t, k)
            \/ RollbackTransaction(n, t)
            \/ \E c \in Client : ReadOperations(c, n, t)
       \/ CleanupExpired(n)
       \/ Restart(n)
  \/ \E c \in Client : CommitRefused(c) \/ Commit(c) \/ LockStore(c) \/ ApplyWrite(c)
  \/ \E m, n \in Node : Send(m, n) \/ Deliver(m, n)

Spec == Init /\ [][Next]_vars

----------------------------------------------------------------------------
Status == {"absent", "pending", "committed", "rolled_back"}

Transaction ==
  [status : Status, operations : Seq(Operation), created : Nat, updatedAt : Nat, node : Node \cup {0}]

ClientState ==
  [pc : {"idle", "commit", "lock", "apply"}, at : Node \cup {0}, txn : Txn \cup {0},
   ops : Seq(Operation), apply : Nat]

(* Every variable has values of its type.  (transactions.go, mesh_store.go) *)
TypeOK ==
  /\ now \in 0 .. MaxTime
  /\ skew \in [Node -> Skews]
  /\ txns \in [Node -> [Txn -> Transaction]]
  /\ cache \in [Node -> [Key -> Entry]]
  /\ client \in [Client -> ClientState]
  /\ msgs \subseteq [from : Node, to : Node, txns : [Txn -> Transaction], cache : [Key -> Entry]]
  /\ restarts \in 0 .. MaxRestarts
  /\ calls \in 0 .. MaxCalls
  /\ sends \in 0 .. MaxSends
  /\ applies \in Seq([ops : SUBSET (1 .. MaxCalls), writes : [Key -> Entry], torn : BOOLEAN])
  /\ outcomes \in [Txn -> Nat]
  /\ touched \in [Txn -> SUBSET Node]
  /\ forgot \subseteq Txn
  /\ raced \subseteq 1 .. MaxCalls
  /\ cut \subseteq 1 .. MaxCalls
  /\ lowered \subseteq Key

(* What is committed is applied: wherever a transaction is known as        *)
(* committed, each of its Sets has been applied, is about to be, or was    *)
(* interrupted by a kill, except those that were added, by a caller or by  *)
(* gossip, while the call that committed it was between its two first      *)
(* steps: CommitTransaction applies the operations it read before it set   *)
(* the status (mesh_store.go:717, :722).                                   *)
CommittedIsApplied ==
  \A n \in Node, t \in Txn : txns[n][t].status = "committed" =>
    Ids(txns[n][t].operations) \subseteq
      (UNION {applies[i].ops : i \in DOMAIN applies})
        \cup (UNION {Ids(client[c].ops) : c \in {d \in Client : client[d].pc \in {"lock", "apply"}}})
        \cup raced \cup cut

(* All or nothing: whoever shows one write of a commit, in its cache or in *)
(* what it hands to a peer, shows each other key of that commit with that  *)
(* commit's write or a newer version.  Only a commit that a kill cut in    *)
(* two is exempt (mesh_store.go:736-748 logs write by write), and keys     *)
(* where some commit, by a clock that is behind, got a lower version than  *)
(* what it replaced: what gossip may bring back there is anything between. *)
Shown == {cache[n] : n \in {m \in Node : ~StoreLocked(m)}} \cup {msg.cache : msg \in msgs}

AllOrNothing ==
  \A view \in Shown, k \in Key, other \in Key \ lowered :
    LET i == view[k].apply
    IN  i # 0 /\ ~applies[i].torn /\ applies[i].writes[other] # NoEntry =>
          ~cacheEntryLess(view[other], applies[i].writes[other])

(* One outcome: a transaction whose calls all go to one node, as           *)
(* transactions.go:328 asks of callers, is committed or rolled back once,  *)
(* whatever older states of it gossip brings back and whoever else calls   *)
(* in between, unless a clean-up or a kill made a node forget it.          *)
OneOutcome ==
  \A t \in Txn : Cardinality(touched[t]) <= 1 /\ t \notin forgot => outcomes[t] <= 1
=============================================================================
