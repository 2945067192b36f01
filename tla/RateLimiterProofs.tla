------------------------- MODULE RateLimiterProofs -------------------------
(***************************************************************************)
(* Safety of the mesh rate limiter for every set of nodes, nonces and       *)
(* limits.  The invariants TLC checks are not inductive: a restart replaces *)
(* a node's counter by its log, so the log has to be related to the own     *)
(* slots (LogAgrees), and Consume compares a sum with the limit, so slots   *)
(* have to be related to sums (the three lemmas on Value).                  *)
(***************************************************************************)
EXTENDS RateLimiter, FiniteSetTheorems, TLAPS

(* What a node's log says of the node itself and of the answers it gave.    *)
LogAgrees ==
  \A n \in Node :
    /\ counts[n][n] = wal[n].consumed
    /\ wal[n].consumed <= MaxLimit
    /\ admitted[n] <= wal[n].consumed
    /\ wal[n].seen \subseteq seen[n]

AnswersLogged ==
  \A n \in Node, i \in Item : fresh[n][i] <= 1 /\ (fresh[n][i] = 1 => i \in wal[n].seen)

IInv == TypeOK /\ LogAgrees /\ NoInventedCounts /\ AnswersLogged

----------------------------------------------------------------------------
(* The increments of a counter whose slots are at most K are among K per    *)
(* node, so there are finitely many, at most |Node| * K.                    *)
LEMMA IncrementsBounded ==
  ASSUME NEW c \in Counter, NEW K \in Nat, \A m \in Node : c[m] <= K
  PROVE  /\ Increments(c) \subseteq Node \X (1 .. K)
         /\ IsFiniteSet(Increments(c))
         /\ Value(c) \in Nat
         /\ Value(c) <= Cardinality(Node) * K
<1>1. Increments(c) \subseteq Node \X (1 .. K)
  BY DEF Increments, Counter
<1>2. IsFiniteSet(1 .. K) /\ Cardinality(1 .. K) = K
  BY FS_Interval
<1>3. /\ IsFiniteSet(Node \X (1 .. K))
      /\ Cardinality(Node \X (1 .. K)) = Cardinality(Node) * K
  BY <1>2, NodeAssumption, FS_Product
<1>4. /\ IsFiniteSet(Increments(c))
      /\ Cardinality(Increments(c)) <= Cardinality(Node) * K
  BY <1>1, <1>3, FS_Subset
<1>5. Cardinality(Increments(c)) \in Nat
  BY <1>4, FS_CardinalityType
<1> QED
  BY <1>1, <1>4, <1>5 DEF Value

(* No slot exceeds the sum of all slots.                                    *)
LEMMA SlotBelowValue ==
  ASSUME NEW c \in Counter, NEW K \in Nat, \A m \in Node : c[m] <= K, NEW n \in Node
  PROVE  c[n] <= Value(c)
<1> DEFINE Own == {n} \X (1 .. c[n])
<1>0. c[n] \in Nat
  BY DEF Counter
<1>1. \A k \in Nat : IsFiniteSet(1 .. k) /\ Cardinality(1 .. k) = k
  BY FS_Interval
<1>2. IsFiniteSet({n}) /\ Cardinality({n}) = 1
  BY FS_Singleton
<1>3. Cardinality(Own) = c[n]
  <2>1. IsFiniteSet(1 .. c[n]) /\ Cardinality(1 .. c[n]) = c[n]
    BY <1>0, <1>1
  <2>2. Cardinality(Own) = Cardinality({n}) * Cardinality(1 .. c[n])
    BY <1>2, <2>1, FS_Product
  <2> QED
    BY <1>0, <1>2, <2>1, <2>2
<1>4. Own \subseteq Increments(c)
  BY DEF Increments
<1>5. Cardinality(Own) <= Cardinality(Increments(c))
  BY <1>4, IncrementsBounded, FS_Subset
<1> QED
  BY <1>0, <1>3, <1>5 DEF Value

(* The sum is monotone in the slots.                                        *)
LEMMA ValueMonotone ==
  ASSUME NEW c \in Counter, NEW d \in Counter, NEW K \in Nat,
         \A m \in Node : c[m] <= d[m], \A m \in Node : d[m] <= K
  PROVE  Value(c) <= Value(d)
<1>1. Increments(c) \subseteq Increments(d)
  <2> SUFFICES ASSUME NEW m \in Node
               PROVE  {m} \X (1 .. c[m]) \subseteq {m} \X (1 .. d[m])
    BY DEF Increments
  <2> QED
    BY DEF Counter
<1>2. IsFiniteSet(Increments(d))
  BY IncrementsBounded
<1> QED
  BY <1>1, <1>2, FS_Subset DEF Value

(* Merging is the slotwise maximum.                                         *)
LEMMA MergeIsMaximum ==
  ASSUME NEW c \in Counter, NEW d \in Counter
  PROVE  /\ MergeCounters(c, d) \in Counter
         /\ \A m \in Node : /\ c[m] <= MergeCounters(c, d)[m]
                            /\ d[m] <= MergeCounters(c, d)[m]
                            /\ MergeCounters(c, d)[m] \in {c[m], d[m]}
BY DEF MergeCounters, Larger, Counter

(* A node that finds its view of the count below a limit owns fewer than    *)
(* MaxLimit increments itself.                                              *)
LEMMA RoomInOwnSlot ==
  ASSUME IInv, NEW n \in Node, NEW limit \in Limits, Value(counts[n]) < limit
  PROVE  wal[n].consumed + 1 <= MaxLimit
<1>1. counts[n] \in Counter /\ wal[n].consumed \in Nat
  BY DEF IInv, TypeOK
<1>2. \A m \in Node : counts[n][m] <= MaxLimit
  BY LimitsAssumption DEF IInv, TypeOK, Counter, NoInventedCounts, LogAgrees
<1>3. counts[n][n] <= Value(counts[n]) /\ Value(counts[n]) \in Nat
  BY <1>1, <1>2, LimitsAssumption, SlotBelowValue, IncrementsBounded
<1>4. counts[n][n] = wal[n].consumed
  BY DEF IInv, LogAgrees
<1> QED
  BY <1>1, <1>3, <1>4, LimitsAssumption

----------------------------------------------------------------------------
LEMMA InitIInv == Init => IInv
BY LimitsAssumption
   DEF Init, IInv, TypeOK, Counter, Message, Zero, LogAgrees, NoInventedCounts, AnswersLogged

(* A restart leaves a node with its logged consumes in its own slot,        *)
(* nothing in the others, and its logged nonces.                            *)
LEMMA RecoverFacts ==
  ASSUME TypeOK, NEW n \in Node, NEW log \in [consumed : Nat, seen : SUBSET Item],
         Recover(n, log)
  PROVE  /\ counts' \in [Node -> Counter]
         /\ seen' \in [Node -> SUBSET Item]
         /\ counts'[n][n] = log.consumed
         /\ \A m \in Node : m # n => counts'[n][m] = 0 /\ counts'[m] = counts[m]
         /\ seen'[n] = log.seen
         /\ \A m \in Node : m # n => seen'[m] = seen[m]
<1>1. [Zero EXCEPT ![n] = log.consumed] \in Counter
  BY DEF Zero, Counter
<1> QED
  BY <1>1 DEF Recover, TypeOK, Zero, Counter

(* In a state of the invariant, whose slots are whose.                      *)
LEMMA SlotFacts ==
  ASSUME IInv
  PROVE  /\ \A k, m \in Node : counts[k][m] \in Nat /\ counts[k][m] <= counts[m][m]
         /\ \A msg \in msgs, m \in Node :
              msg.counts[m] \in Nat /\ msg.counts[m] <= counts[m][m]
<1>1. \A k, m \in Node : counts[k][m] \in Nat
  BY DEF IInv, TypeOK, Counter
<1>2. \A msg \in msgs, m \in Node : msg.counts[m] \in Nat
  BY DEF IInv, TypeOK, Counter, Message
<1> QED
  BY <1>1, <1>2 DEF IInv, NoInventedCounts

(* A crash of node n that left it with the given log.                       *)
LEMMA CrashKeepsIInv ==
  ASSUME IInv, NEW n \in Node, NEW log \in [consumed : Nat, seen : SUBSET Item],
         Recover(n, log), wal' = [wal EXCEPT ![n] = log],
         wal[n].consumed <= log.consumed, log.consumed <= MaxLimit,
         wal[n].seen \subseteq log.seen,
         UNCHANGED <<msgs, admitted, fresh>>, restarts' \in Nat
  PROVE  IInv'
<1>1. /\ counts' \in [Node -> Counter]
      /\ seen' \in [Node -> SUBSET Item]
      /\ counts'[n][n] = log.consumed
      /\ \A m \in Node : m # n => counts'[n][m] = 0 /\ counts'[m] = counts[m]
      /\ seen'[n] = log.seen
      /\ \A m \in Node : m # n => seen'[m] = seen[m]
  BY RecoverFacts DEF IInv
<1>2. TypeOK'
  BY <1>1 DEF IInv, TypeOK
<1>3. LogAgrees'
  BY <1>1, LimitsAssumption DEF IInv, TypeOK, LogAgrees, Counter
<1>4. NoInventedCounts'
  <2>1. counts[n][n] <= counts'[n][n]
    BY <1>1 DEF IInv, LogAgrees
  <2>2. \A m \in Node : counts'[m][m] \in Nat
    BY <1>1 DEF Counter
  <2>3. \A m \in Node : counts[m][m] <= counts'[m][m]
    BY <1>1, <2>1, SlotFacts
  <2>4. ASSUME NEW k \in Node, NEW m \in Node
        PROVE  counts'[k][m] <= counts'[m][m]
    <3>1. CASE k # n
      BY <1>1, <2>2, <2>3, <3>1, SlotFacts
    <3>2. CASE k = n
      BY <1>1, <2>2, <3>2
    <3> QED
      BY <3>1, <3>2
  <2>5. \A msg \in msgs', m \in Node : msg.counts[m] <= counts'[m][m]
    BY <2>2, <2>3, SlotFacts
  <2> QED
    BY <2>4, <2>5 DEF NoInventedCounts
<1>5. AnswersLogged'
  BY <1>1 DEF IInv, TypeOK, AnswersLogged
<1> QED
  BY <1>2, <1>3, <1>4, <1>5 DEF IInv

LEMMA ConsumeKeepsIInv ==
  ASSUME IInv, NEW n \in Node, NEW limit \in Limits, Consume(n, limit)
  PROVE  IInv'
<1>1. wal[n].consumed + 1 <= MaxLimit
  BY RoomInOwnSlot DEF Consume
<1>2. /\ counts' = [counts EXCEPT ![n] = [counts[n] EXCEPT ![n] = counts[n][n] + 1]]
      /\ [counts[n] EXCEPT ![n] = counts[n][n] + 1] \in Counter
  <2>1. counts[n] \in Counter /\ counts[n][n] + 1 \in Nat
    BY DEF IInv, TypeOK, Counter
  <2> QED
    BY <2>1 DEF Consume, Counter, IInv, TypeOK
<1>3. /\ counts' \in [Node -> Counter]
      /\ counts'[n][n] = counts[n][n] + 1
      /\ \A m \in Node : m # n => counts'[n][m] = counts[n][m] /\ counts'[m] = counts[m]
  BY <1>2 DEF IInv, TypeOK, Counter
<1>4. /\ wal' \in [Node -> [consumed : Nat, seen : SUBSET Item]]
      /\ wal'[n].consumed = wal[n].consumed + 1
      /\ \A m \in Node : wal'[m].seen = wal[m].seen
      /\ \A m \in Node : m # n => wal'[m] = wal[m]
  <2>1. /\ wal[n] \in [consumed : Nat, seen : SUBSET Item]
        /\ wal' = [wal EXCEPT ![n] = [wal[n] EXCEPT !.consumed = wal[n].consumed + 1]]
    BY DEF Consume, IInv, TypeOK
  <2>2. [wal[n] EXCEPT !.consumed = wal[n].consumed + 1]
          = [consumed |-> wal[n].consumed + 1, seen |-> wal[n].seen]
    BY <2>1
  <2>3. wal[n].consumed + 1 \in Nat /\ wal[n].seen \in SUBSET Item
    BY <2>1
  <2>4. wal' = [wal EXCEPT ![n] = [consumed |-> wal[n].consumed + 1, seen |-> wal[n].seen]]
    BY <2>1, <2>2
  <2> QED
    BY <2>3, <2>4 DEF IInv, TypeOK
<1>5. /\ admitted' \in [Node -> Nat]
      /\ admitted'[n] = admitted[n] + 1
      /\ \A m \in Node : m # n => admitted'[m] = admitted[m]
  BY DEF Consume, IInv, TypeOK
<1>6. UNCHANGED <<seen, msgs, restarts, fresh>>
  BY DEF Consume
<1>7. TypeOK'
  BY <1>3, <1>4, <1>5, <1>6 DEF IInv, TypeOK
<1>8. LogAgrees'
  <2> SUFFICES ASSUME NEW m \in Node
               PROVE  /\ counts'[m][m] = wal'[m].consumed
                      /\ wal'[m].consumed <= MaxLimit
                      /\ admitted'[m] <= wal'[m].consumed
                      /\ wal'[m].seen \subseteq seen'[m]
    BY DEF LogAgrees
  <2>1. admitted[m] \in Nat /\ wal[m].consumed \in Nat
    BY DEF IInv, TypeOK
  <2>2. CASE m = n
    BY <1>1, <1>3, <1>4, <1>5, <1>6, <2>1, <2>2 DEF IInv, LogAgrees
  <2>3. CASE m # n
    BY <1>3, <1>4, <1>5, <1>6, <2>3 DEF IInv, LogAgrees
  <2> QED
    BY <2>2, <2>3
<1>9. NoInventedCounts'
  <2>1. \A m \in Node : counts'[m][m] \in Nat /\ counts[m][m] <= counts'[m][m]
    BY <1>3, SlotFacts DEF Counter
  <2>2. \A k, m \in Node : counts'[k][m] <= counts'[m][m]
    BY <1>3, <2>1, SlotFacts
  <2>3. \A msg \in msgs', m \in Node : msg.counts[m] <= counts'[m][m]
    BY <1>6, <2>1, SlotFacts
  <2> QED
    BY <2>2, <2>3 DEF NoInventedCounts
<1>10. AnswersLogged'
  BY <1>4, <1>6 DEF IInv, AnswersLogged
<1> QED
  BY <1>7, <1>8, <1>9, <1>10 DEF IInv

LEMMA SeenKeepsIInv ==
  ASSUME IInv, NEW n \in Node, NEW i \in Item, Seen(n, i)
  PROVE  IInv'
<1>1. TypeOK'
  <2>1. TypeOK
    BY DEF IInv
  <2>2. /\ seen' \in [Node -> SUBSET Item] /\ fresh' \in [Node -> [Item -> Nat]]
        /\ UNCHANGED <<counts, msgs, restarts, admitted>>
    BY <2>1 DEF Seen, TypeOK
  <2>3. wal' \in [Node -> [consumed : Nat, seen : SUBSET Item]]
    BY <2>1 DEF Seen, TypeOK
  <2> QED
    BY <2>1, <2>2, <2>3 DEF TypeOK
<1>2. LogAgrees'
  BY DEF Seen, LogAgrees, IInv, TypeOK
<1>3. NoInventedCounts'
  BY DEF Seen, NoInventedCounts, IInv
<1>4. AnswersLogged'
  <2>1. i \notin wal[n].seen
    BY DEF Seen, IInv, LogAgrees
  <2>2. fresh[n][i] \in Nat /\ fresh[n][i] <= 1 /\ fresh[n][i] # 1
    BY <2>1 DEF IInv, TypeOK, AnswersLogged
  <2>3. fresh[n][i] = 0
    BY <2>2
  <2>4. /\ fresh'[n][i] = 1 /\ i \in wal'[n].seen
        /\ \A m \in Node, j \in Item :
             /\ wal[m].seen \subseteq wal'[m].seen
             /\ m # n \/ j # i => fresh'[m][j] = fresh[m][j]
    BY <2>3 DEF Seen, IInv, TypeOK
  <2> QED
    BY <2>4 DEF IInv, AnswersLogged
<1> QED
  BY <1>1, <1>2, <1>3, <1>4 DEF IInv

LEMMA SendKeepsIInv ==
  ASSUME IInv, NEW m \in Node, NEW n \in Node, Send(m, n)
  PROVE  IInv'
<1>1. TypeOK'
  BY DEF Send, Message, crdts, answers, IInv, TypeOK
<1>2. LogAgrees' /\ AnswersLogged'
  BY DEF Send, LogAgrees, AnswersLogged, crdts, answers, IInv
<1>3. NoInventedCounts'
  BY DEF Send, NoInventedCounts, crdts, answers, IInv
<1> QED
  BY <1>1, <1>2, <1>3 DEF IInv

LEMMA DeliverKeepsIInv ==
  ASSUME IInv, NEW msg \in msgs, Merge(msg)
  PROVE  IInv'
<1> DEFINE n == msg.to
<1>1. /\ n \in Node /\ msg.counts \in Counter /\ msg.seen \in SUBSET Item
      /\ counts[n] \in Counter
  BY DEF IInv, TypeOK, Message
<1>2. /\ counts' = [counts EXCEPT ![n] = MergeCounters(counts[n], msg.counts)]
      /\ MergeCounters(counts[n], msg.counts) \in Counter
  BY <1>1, MergeIsMaximum DEF Merge
<1>3. /\ counts' \in [Node -> Counter]
      /\ \A m \in Node : m # n => counts'[m] = counts[m]
      /\ \A m \in Node : counts'[n][m] \in {counts[n][m], msg.counts[m]}
      /\ \A m \in Node : counts[n][m] <= counts'[n][m]
  BY <1>1, <1>2, MergeIsMaximum DEF IInv, TypeOK
<1>4. \A m \in Node : counts'[m][m] = counts[m][m]
  <2>1. counts[n][n] \in Nat /\ msg.counts[n] \in Nat /\ msg.counts[n] <= counts[n][n]
    BY <1>1, SlotFacts
  <2>2. counts'[n][n] = counts[n][n]
    BY <1>1, <1>3, <2>1
  <2> QED
    BY <1>3, <2>2
<1>5. /\ seen' \in [Node -> SUBSET Item] /\ \A m \in Node : seen[m] \subseteq seen'[m]
      /\ msgs' \subseteq msgs /\ UNCHANGED <<wal, restarts, admitted, fresh>>
  BY <1>1 DEF Merge, answers, IInv, TypeOK
<1>6. TypeOK'
  BY <1>3, <1>5 DEF IInv, TypeOK
<1>7. LogAgrees'
  BY <1>4, <1>5 DEF LogAgrees, IInv
<1>8. NoInventedCounts'
  <2>1. \A k, m \in Node : counts'[k][m] <= counts'[m][m]
    BY <1>1, <1>3, <1>4, SlotFacts
  <2>2. \A other \in msgs', m \in Node : other.counts[m] <= counts'[m][m]
    BY <1>4, <1>5, SlotFacts
  <2> QED
    BY <2>1, <2>2 DEF NoInventedCounts
<1>9. AnswersLogged'
  BY <1>5 DEF IInv, AnswersLogged
<1> QED
  BY <1>6, <1>7, <1>8, <1>9 DEF IInv

(* Both ways to crash inside an operation, and the crash between two.       *)
LEMMA RestartKeepsIInv ==
  ASSUME IInv, NEW n \in Node, Restart(n)
  PROVE  IInv'
<1>1. /\ wal[n] \in [consumed : Nat, seen : SUBSET Item]
      /\ wal[n].consumed <= MaxLimit
      /\ wal' = [wal EXCEPT ![n] = wal[n]]
      /\ restarts' \in Nat
  BY DEF Restart, IInv, TypeOK, LogAgrees
<1>2. wal[n].consumed <= wal[n].consumed
  BY <1>1
<1> QED
  BY <1>1, <1>2, CrashKeepsIInv DEF Restart

LEMMA CrashInConsumeKeepsIInv ==
  ASSUME IInv, NEW n \in Node, NEW limit \in Limits, CrashInConsume(n, limit)
  PROVE  IInv'
<1> DEFINE log == [wal[n] EXCEPT !.consumed = wal[n].consumed + 1]
<1>1. /\ wal[n] \in [consumed : Nat, seen : SUBSET Item]
      /\ restarts' \in Nat
      /\ CrashLogged(n, log)
  BY DEF CrashInConsume, CrashLogged, IInv, TypeOK
<1>2. log = [consumed |-> wal[n].consumed + 1, seen |-> wal[n].seen]
  BY <1>1
<1>3. wal[n].consumed + 1 <= MaxLimit
  BY RoomInOwnSlot DEF CrashInConsume
<1>4. wal[n].consumed \in Nat /\ wal[n].seen \in SUBSET Item
  BY <1>1
<1>5. /\ log \in [consumed : Nat, seen : SUBSET Item]
      /\ wal[n].consumed <= log.consumed /\ log.consumed <= MaxLimit
      /\ wal[n].seen \subseteq log.seen
  BY <1>2, <1>3, <1>4
<1> HIDE DEF log
<1> QED
  BY <1>1, <1>5, CrashKeepsIInv DEF CrashLogged

LEMMA CrashInSeenKeepsIInv ==
  ASSUME IInv, NEW n \in Node, NEW i \in Item, CrashInSeen(n, i)
  PROVE  IInv'
<1> DEFINE log == [wal[n] EXCEPT !.seen = wal[n].seen \cup {i}]
<1>1. /\ wal[n] \in [consumed : Nat, seen : SUBSET Item]
      /\ wal[n].consumed <= MaxLimit
      /\ restarts' \in Nat
      /\ CrashLogged(n, log)
  BY DEF CrashInSeen, CrashLogged, IInv, TypeOK, LogAgrees
<1>2. log = [consumed |-> wal[n].consumed, seen |-> wal[n].seen \cup {i}]
  BY <1>1
<1>3. /\ log \in [consumed : Nat, seen : SUBSET Item]
      /\ wal[n].consumed <= log.consumed /\ log.consumed <= MaxLimit
      /\ wal[n].seen \subseteq log.seen
  BY <1>1, <1>2
<1> HIDE DEF log
<1> QED
  BY <1>1, <1>3, CrashKeepsIInv DEF CrashLogged

LEMMA LoseKeepsIInv ==
  ASSUME IInv, NEW msg \in msgs, Lose(msg)
  PROVE  IInv'
BY DEF Lose, crdts, answers, IInv, TypeOK, LogAgrees, NoInventedCounts, AnswersLogged

LEMMA NextKeepsIInv == IInv /\ [Next]_vars => IInv'
<1> SUFFICES ASSUME IInv, [Next]_vars
             PROVE  IInv'
  OBVIOUS
<1>1. ASSUME NEW n \in Node, NEW limit \in Limits, Consume(n, limit)
      PROVE  IInv'
  BY <1>1, ConsumeKeepsIInv
<1>2. ASSUME NEW n \in Node, NEW limit \in Limits, CrashInConsume(n, limit)
      PROVE  IInv'
  BY <1>2, CrashInConsumeKeepsIInv
<1>3. ASSUME NEW n \in Node, NEW i \in Item, Seen(n, i)
      PROVE  IInv'
  BY <1>3, SeenKeepsIInv
<1>4. ASSUME NEW n \in Node, NEW i \in Item, CrashInSeen(n, i)
      PROVE  IInv'
  BY <1>4, CrashInSeenKeepsIInv
<1>5. ASSUME NEW m \in Node, NEW n \in Node, Send(m, n)
      PROVE  IInv'
  BY <1>5, SendKeepsIInv
<1>6. ASSUME NEW m \in Node, NEW n \in Node, Deliver(m, n)
      PROVE  IInv'
  BY <1>6, DeliverKeepsIInv DEF Deliver
<1>7. ASSUME NEW msg \in msgs, Lose(msg)
      PROVE  IInv'
  BY <1>7, LoseKeepsIInv
<1>8. ASSUME NEW n \in Node, Restart(n)
      PROVE  IInv'
  BY <1>8, RestartKeepsIInv
<1>9. CASE UNCHANGED vars
  BY <1>9 DEF vars, IInv, TypeOK, LogAgrees, NoInventedCounts, AnswersLogged
<1> QED
  BY <1>1, <1>2, <1>3, <1>4, <1>5, <1>6, <1>7, <1>8, <1>9 DEF Next

(* The strengthened invariant holds in every reachable state.               *)
THEOREM Invariance == Spec => []IInv
BY InitIInv, NextKeepsIInv, PTL DEF Spec

----------------------------------------------------------------------------
(* Every variable keeps its type: in particular a replayed log gives back a *)
(* counter, and a merge of two counters is one.                             *)
THEOREM TypeCorrect == Spec => []TypeOK
<1>1. IInv => TypeOK
  BY DEF IInv
<1> QED
  BY <1>1, Invariance, PTL

(* The requests admitted over the whole mesh are at most the largest limit  *)
(* times the number of nodes, whatever gossip does and wherever nodes crash *)
(* that recover from their whole log.                                       *)
THEOREM MeshQuotaHolds == Spec => []MeshQuota
<1>1. ASSUME IInv
      PROVE  MeshQuota
  <2>1. admitted \in Counter
    BY <1>1 DEF IInv, TypeOK, Counter
  <2>2. \A n \in Node : admitted[n] <= MaxLimit
    <3> SUFFICES ASSUME NEW n \in Node
                 PROVE  admitted[n] <= MaxLimit
      OBVIOUS
    <3>1. admitted[n] \in Nat /\ wal[n].consumed \in Nat
      BY <1>1 DEF IInv, TypeOK
    <3> QED
      BY <1>1, <3>1, LimitsAssumption DEF IInv, LogAgrees
  <2> QED
    BY <2>1, <2>2, LimitsAssumption, IncrementsBounded DEF MeshQuota
<1> QED
  BY <1>1, Invariance, PTL

(* No node and no state in flight overstates how much a peer has consumed,  *)
(* also once the peer has recovered from its whole log.                     *)
THEOREM NoInventedCountsHolds == Spec => []NoInventedCounts
<1>1. IInv => NoInventedCounts
  BY DEF IInv
<1> QED
  BY <1>1, Invariance, PTL

(* No node ever answers "not seen" twice to the same nonce, also once it    *)
(* has recovered from its whole log.                                        *)
THEOREM FreshOnceHolds == Spec => []FreshOnce
<1>1. IInv => FreshOnce
  BY DEF IInv, AnswersLogged, FreshOnce
<1> QED
  BY <1>1, Invariance, PTL

----------------------------------------------------------------------------
(* What a step does to the slots: as long as nobody crashes, none shrinks.  *)
LEMMA SlotsNeverShrink ==
  ASSUME IInv, [Next]_vars, restarts' = restarts
  PROVE  \A n, m \in Node : counts[n][m] <= counts'[n][m]
<1>0. \A n, m \in Node : counts[n][m] \in Nat
  BY SlotFacts
<1>1. ASSUME NEW k \in Node, NEW limit \in Limits, Consume(k, limit)
      PROVE  \A n, m \in Node : counts[n][m] <= counts'[n][m]
  BY <1>0, <1>1 DEF Consume, IInv, TypeOK, Counter
<1>2. ASSUME NEW msg \in msgs, Merge(msg)
      PROVE  \A n, m \in Node : counts[n][m] <= counts'[n][m]
  <2>1. msg.to \in Node /\ msg.counts \in Counter /\ counts[msg.to] \in Counter
    BY DEF IInv, TypeOK, Message
  <2> QED
    BY <1>0, <1>2, <2>1, MergeIsMaximum DEF Merge, IInv, TypeOK
<1>3. CASE UNCHANGED counts
  BY <1>0, <1>3
<1>4. restarts + 1 # restarts
  BY DEF IInv, TypeOK
<1> QED
  BY <1>1, <1>2, <1>3, <1>4
     DEF Next, Seen, Send, Deliver, Lose, Restart, CrashInConsume, CrashInSeen, CrashLogged,
         crdts, vars

(* While no node crashes, no node's view of the count falls.                *)
THEOREM ViewNeverFallsHolds == Spec => ViewNeverFalls
<1>1. ASSUME IInv, IInv', [Next]_vars
      PROVE  [\A n \in Node : restarts' = restarts => Value(counts'[n]) >= Value(counts[n])]_vars
  <2> SUFFICES ASSUME NEW n \in Node, restarts' = restarts
               PROVE  Value(counts'[n]) >= Value(counts[n])
    OBVIOUS
  <2>1. counts[n] \in Counter /\ counts'[n] \in Counter
    BY <1>1 DEF IInv, TypeOK
  <2>2. \A m \in Node : counts[n][m] <= counts'[n][m]
    BY <1>1, SlotsNeverShrink
  <2>3. \A m \in Node : counts[n][m] <= MaxLimit /\ counts'[n][m] <= MaxLimit
    BY <1>1, LimitsAssumption DEF IInv, TypeOK, Counter, NoInventedCounts, LogAgrees
  <2>4. Value(counts[n]) \in Nat /\ Value(counts'[n]) \in Nat
    BY <2>1, <2>3, LimitsAssumption, IncrementsBounded
  <2>5. Value(counts[n]) <= Value(counts'[n])
    BY <2>1, <2>2, <2>3, LimitsAssumption, ValueMonotone
  <2> QED
    BY <2>4, <2>5
<1> QED
  BY <1>1, Invariance, PTL DEF Spec, ViewNeverFalls

----------------------------------------------------------------------------
(* What a step does to the own slots: at most one grows, by one, and not    *)
(* beyond the largest limit.                                                *)
LEMMA OwnSlotStep ==
  ASSUME IInv, [Next]_vars
  PROVE  \/ \A m \in Node : counts'[m][m] = counts[m][m]
         \/ \E n \in Node :
              /\ counts[n][n] + 1 <= MaxLimit
              /\ counts'[n][n] = counts[n][n] + 1
              /\ \A m \in Node : m # n => counts'[m][m] = counts[m][m]
<1> DEFINE Same == \A m \in Node : counts'[m][m] = counts[m][m]
           Grows(n) == /\ counts[n][n] + 1 <= MaxLimit
                       /\ counts'[n][n] = counts[n][n] + 1
                       /\ \A m \in Node : m # n => counts'[m][m] = counts[m][m]
<1>1. ASSUME NEW n \in Node, NEW limit \in Limits, Consume(n, limit)
      PROVE  Grows(n)
  <2>1. counts[n][n] + 1 <= MaxLimit
    BY <1>1, RoomInOwnSlot DEF Consume, IInv, LogAgrees
  <2> QED
    BY <1>1, <2>1 DEF Consume, IInv, TypeOK, Counter
<1>2. ASSUME NEW n \in Node, NEW limit \in Limits, CrashInConsume(n, limit)
      PROVE  Grows(n)
  <2>1. counts[n][n] + 1 <= MaxLimit /\ counts[n][n] = wal[n].consumed
    BY <1>2, RoomInOwnSlot DEF CrashInConsume, IInv, LogAgrees
  <2>2. counts' = [counts EXCEPT ![n] = [Zero EXCEPT ![n] = wal[n].consumed + 1]]
    BY <1>2 DEF CrashInConsume, CrashLogged, Recover, IInv, TypeOK
  <2> QED
    BY <2>1, <2>2 DEF IInv, TypeOK, Counter, Zero
<1>3. ASSUME NEW n \in Node, NEW i \in Item, CrashInSeen(n, i)
      PROVE  Same
  <2>1. counts' = [counts EXCEPT ![n] = [Zero EXCEPT ![n] = wal[n].consumed]]
    BY <1>3 DEF CrashInSeen, CrashLogged, Recover, IInv, TypeOK
  <2> QED
    BY <2>1 DEF IInv, TypeOK, LogAgrees, Counter, Zero
<1>4. ASSUME NEW n \in Node, Restart(n)
      PROVE  Same
  BY <1>4 DEF Restart, Recover, IInv, TypeOK, LogAgrees, Counter, Zero
<1>5. ASSUME NEW msg \in msgs, Merge(msg)
      PROVE  Same
  <2> DEFINE n == msg.to
  <2>1. n \in Node /\ msg.counts \in Counter /\ counts[n] \in Counter
    BY DEF IInv, TypeOK, Message
  <2>2. counts' = [counts EXCEPT ![n] = MergeCounters(counts[n], msg.counts)]
    BY <1>5 DEF Merge
  <2>3. counts[n][n] \in Nat /\ msg.counts[n] \in Nat /\ msg.counts[n] <= counts[n][n]
    BY <2>1, SlotFacts
  <2>4. MergeCounters(counts[n], msg.counts)[n] = counts[n][n]
    BY <2>1, <2>3, MergeIsMaximum
  <2> QED
    BY <2>1, <2>2, <2>4 DEF IInv, TypeOK
<1>6. CASE UNCHANGED counts
  BY <1>6
<1> HIDE DEF Same, Grows
<1>7. Same \/ \E n \in Node : Grows(n)
  <2>1. UNCHANGED counts => Same
    BY <1>6 DEF Same
  <2> QED
    BY <1>1, <1>2, <1>3, <1>4, <1>5, <2>1 DEF Next, Seen, Send, Deliver, Lose, crdts, vars
<1> QED
  BY <1>7 DEF Same, Grows

(* The limiter implements module Quota: a step that grows an own slot uses  *)
(* one new ticket of its node, every other step uses none and gives none    *)
(* back, a recovery from the whole log included.                            *)
THEOREM Refinement == Spec => ImplementsQuota
<1>1. Init => Q!Init
  <2> SUFFICES ASSUME Init, NEW n \in Node
               PROVE  {n} \X (1 .. counts[n][n]) = {}
    BY DEF Q!Init, UsedTickets
  <2>1. counts[n][n] = 0
    BY DEF Init, Zero
  <2> QED
    BY <2>1
<1>2. ASSUME IInv, [Next]_vars
      PROVE  [Q!Next]_UsedTickets
  <2>1. \A m \in Node : counts[m][m] \in Nat
    BY <1>2, SlotFacts
  <2>2. CASE \A m \in Node : counts'[m][m] = counts[m][m]
    BY <2>2 DEF UsedTickets
  <2>3. ASSUME NEW n \in Node,
               counts[n][n] + 1 <= MaxLimit,
               counts'[n][n] = counts[n][n] + 1,
               \A m \in Node : m # n => counts'[m][m] = counts[m][m]
        PROVE  Q!Use(n)
    <3> DEFINE k == counts[n][n] + 1
    <3>1. k \in 1 .. MaxLimit
      BY <2>1, <2>3, LimitsAssumption
    <3>2. <<n, k>> \notin UsedTickets
      <4>1. k \notin 1 .. counts[n][n]
        BY <2>1
      <4> QED
        BY <4>1 DEF UsedTickets
    <3>3. 1 .. counts'[n][n] = (1 .. counts[n][n]) \cup {k}
      BY <2>1, <2>3
    <3>4. UsedTickets' = UsedTickets \cup {<<n, k>>}
      BY <2>3, <3>3 DEF UsedTickets
    <3> QED
      BY <3>1, <3>2, <3>4 DEF Q!Use
  <2> QED
    BY <1>2, <2>2, <2>3, OwnSlotStep DEF Q!Next
<1> QED
  BY <1>1, <1>2, Invariance, PTL DEF Spec, ImplementsQuota, Q!Spec

=============================================================================
