--------------------------- MODULE JobQueueProofs ---------------------------
(***************************************************************************)
(* Proofs about job queues, for any number of nodes, jobs, claims, reports *)
(* and messages, and any priorities, limits, deadlines and timeouts.       *)
(*                                                                         *)
(* First what the list operators return: what an operation does to the     *)
(* order of a list matters to none of the properties, only which elements  *)
(* are left.  The loop over a peer's log is a function on its turns, whose *)
(* existence and effect follow by induction, from Least.                   *)
(*                                                                         *)
(* Then each operation, as a step from a queue q to a queue r: it keeps    *)
(* the invariant of one queue (Sound), and it makes a job fail only with a *)
(* dead letter (Follows).  The invariant of the mesh says in addition that *)
(* dead letters outlive every version of the job that travels              *)
(* (DeadLetters).                                                          *)
(*                                                                         *)
(* Last, a node alone: the attempts at a job are paid for by reports and   *)
(* timeouts (Attempts).                                                    *)
(***************************************************************************)
EXTENDS JobQueue, FiniteSetTheorems, WellFoundedInduction, TLAPS

(* In a finite set S with a strict total order, where below[x] are the     *)
(* elements before x, the number of those is a rank: it respects the order *)
(* and takes every value under the size of S once.                         *)
LEMMA RankFacts ==
  ASSUME NEW S, IsFiniteSet(S), NEW below \in [S -> SUBSET S],
         \A x \in S : x \notin below[x],
         \A x, y \in S : y \in below[x] => below[y] \subseteq below[x],
         \A x, y \in S : x # y => x \in below[y] \/ y \in below[x]
  PROVE  /\ Cardinality(S) \in Nat
         /\ \A x \in S : Cardinality(below[x]) \in 0 .. Cardinality(S) - 1
         /\ \A x, y \in S : x \in below[y] <=> Cardinality(below[x]) < Cardinality(below[y])
         /\ \A x, y \in S : Cardinality(below[x]) = Cardinality(below[y]) => x = y
         /\ \A k \in 0 .. Cardinality(S) - 1 : \E x \in S : Cardinality(below[x]) = k
<1> DEFINE rank == [x \in S |-> Cardinality(below[x])]
           Ranks == 0 .. Cardinality(S) - 1
<1>1. \A x \in S : IsFiniteSet(below[x]) /\ Cardinality(below[x]) \in Nat
  BY FS_Subset, FS_CardinalityType
<1>2. Cardinality(S) \in Nat
  BY FS_CardinalityType
<1>3. \A x \in S : rank[x] = Cardinality(below[x]) /\ rank[x] \in Nat
  BY <1>1
<1> HIDE DEF rank
<1>4. ASSUME NEW x \in S, NEW T, IsFiniteSet(T), below[x] \subseteq T, x \in T
      PROVE  rank[x] < Cardinality(T)
  <2>1. below[x] \in SUBSET T
    BY <1>4
  <2>2. Cardinality(below[x]) <= Cardinality(T)
    BY <1>4, <2>1, FS_Subset
  <2>3. Cardinality(below[x]) # Cardinality(T)
    BY <1>4, <2>1, FS_Subset
  <2>4. Cardinality(T) \in Nat
    BY <1>4, FS_CardinalityType
  <2> QED
    BY <1>3, <2>2, <2>3, <2>4
<1>5. \A x \in S : rank[x] < Cardinality(S)
  BY <1>4
<1>6. \A x, y \in S : x \in below[y] => rank[x] < rank[y]
  BY <1>1, <1>3, <1>4
<1>7. \A x, y \in S : x \in below[y] <=> rank[x] < rank[y]
  <2>1. SUFFICES ASSUME NEW x \in S, NEW y \in S, rank[x] < rank[y], x \notin below[y]
                 PROVE  FALSE
    BY <1>6
  <2>2. x # y
    BY <1>3, <2>1
  <2>3. rank[y] < rank[x]
    BY <1>6, <2>1, <2>2
  <2> QED
    BY <1>3, <2>1, <2>3
<1>8. \A x, y \in S : rank[x] = rank[y] => x = y
  <2>1. SUFFICES ASSUME NEW x \in S, NEW y \in S, rank[x] = rank[y], x # y
                 PROVE  FALSE
    OBVIOUS
  <2>2. rank[x] < rank[y] \/ rank[y] < rank[x]
    BY <1>6, <2>1
  <2> QED
    BY <1>3, <2>1, <2>2
<1>9. IsFiniteSet(Ranks) /\ Cardinality(Ranks) = Cardinality(S)
  <2>1. 0 \in Int /\ Cardinality(S) - 1 \in Int
    BY <1>2
  <2> QED
    BY <1>2, <2>1, FS_Interval
<1>10. rank \in [S -> Ranks]
  BY <1>2, <1>3, <1>5 DEF rank
<1>11. rank \in Injection(S, Ranks)
  BY <1>8, <1>10 DEF Injection, IsInjective
<1>12. rank \in Surjection(S, Ranks)
  BY <1>9, <1>11, FS_Injection
<1>13. \A k \in Ranks : \E x \in S : rank[x] = k
  BY <1>12 DEF Surjection
<1> QED
  BY <1>2, <1>3, <1>7, <1>8, <1>10, <1>13

(* What Picked returns: the elements at the positions, in their order.     *)
LEMMA PickedFacts ==
  ASSUME NEW X, NEW list \in Seq(X), NEW I \in SUBSET DOMAIN list
  PROVE  LET out == Picked(list, I)
         IN  /\ IsFiniteSet(I) /\ Cardinality(I) <= Len(list)
             /\ out \in Seq(X) /\ Len(out) = Cardinality(I)
             /\ ToSet(out) = {list[i] : i \in I}
             /\ \E at \in [1 .. Len(out) -> I] :
                  /\ \A k \in 1 .. Len(out) : out[k] = list[at[k]]
                  /\ \A k, l \in 1 .. Len(out) : k < l => at[k] < at[l]
                  /\ \A i \in I : \E k \in 1 .. Len(out) : at[k] = i
<1> DEFINE below == [x \in I |-> {j \in I : j < x}]
           c == Cardinality(I)
           at == [k \in 1 .. c |-> CHOOSE i \in I : Cardinality({j \in I : j < i}) = k - 1]
<1>1. DOMAIN list = 1 .. Len(list) /\ Len(list) \in Nat /\ I \subseteq Nat
  OBVIOUS
<1>2. IsFiniteSet(I) /\ c <= Len(list)
  <2>1. IsFiniteSet(1 .. Len(list)) /\ Cardinality(1 .. Len(list)) = Len(list)
    <3> DEFINE n == Len(list)
    <3>1. 1 \in Int /\ n \in Int /\ n \in Nat
      BY <1>1
    <3> HIDE DEF n
    <3>2. IsFiniteSet(1 .. n) /\ Cardinality(1 .. n) = IF 1 > n THEN 0 ELSE n - 1 + 1
      BY <3>1, FS_Interval
    <3> QED
      BY <3>1, <3>2 DEF n
  <2> QED
    BY <1>1, <2>1, FS_Subset
<1>3. below \in [I -> SUBSET I] /\ \A x, y \in I : x \in below[y] <=> x < y
  OBVIOUS
<1>4. \A x \in I : Cardinality(below[x]) = Cardinality({j \in I : j < x})
  OBVIOUS
<1> HIDE DEF below
<1>5. /\ c \in Nat
      /\ \A x \in I : Cardinality(below[x]) \in 0 .. c - 1
      /\ \A x, y \in I : x \in below[y] <=> Cardinality(below[x]) < Cardinality(below[y])
      /\ \A x, y \in I : Cardinality(below[x]) = Cardinality(below[y]) => x = y
      /\ \A k \in 0 .. c - 1 : \E x \in I : Cardinality(below[x]) = k
  <2>1. \A x \in I : x \notin below[x]
    BY <1>1, <1>3
  <2>2. \A x, y \in I : y \in below[x] => below[y] \subseteq below[x]
    BY <1>1, <1>3
  <2>3. \A x, y \in I : x # y => x \in below[y] \/ y \in below[x]
    BY <1>1, <1>3
  <2> QED
    BY <1>2, <1>3, <2>1, <2>2, <2>3, RankFacts
<1>6. \A k \in 1 .. c : at[k] \in I /\ Cardinality(below[at[k]]) = k - 1
  <2>1. TAKE k \in 1 .. c
  <2> k - 1 \in 0 .. c - 1
    BY <1>5
  <2>2. PICK x \in I : Cardinality(below[x]) = k - 1
    BY <1>5
  <2>3. \E i \in I : Cardinality({j \in I : j < i}) = k - 1
    BY <1>4, <2>2
  <2>4. at[k] \in I /\ Cardinality({j \in I : j < at[k]}) = k - 1
    BY <2>3
  <2> QED
    BY <1>4, <2>4
<1>7. at \in [1 .. c -> I]
  BY <1>6
<1>8. Picked(list, I) = [k \in 1 .. c |-> list[at[k]]]
  BY DEF Picked
<1> HIDE DEF at
<1>9. \A k, l \in 1 .. c : k < l => at[k] < at[l]
  BY <1>3, <1>5, <1>6
<1>10. \A i \in I : \E k \in 1 .. c : at[k] = i
  <2>1. TAKE i \in I
  <2>2. Cardinality(below[i]) \in 0 .. c - 1
    BY <1>5
  <2>3. Cardinality(below[i]) + 1 \in 1 .. c
    BY <1>5, <2>2
  <2>4. Cardinality(below[at[Cardinality(below[i]) + 1]]) = Cardinality(below[i])
    BY <1>6, <2>2, <2>3
  <2> QED
    BY <1>5, <1>6, <2>3, <2>4
<1> DEFINE out == Picked(list, I)
<1>11. out \in Seq(X) /\ Len(out) = c
  <2>1. \A k \in 1 .. c : list[at[k]] \in X
    BY <1>1, <1>7
  <2>2. c \in Nat /\ out = [k \in 1 .. c |-> list[at[k]]]
    BY <1>5, <1>8
  <2> HIDE DEF out, c
  <2> QED
    BY <2>1, <2>2
<1>12. ToSet(out) = {list[i] : i \in I}
  <2>1. DOMAIN out = 1 .. c /\ \A k \in 1 .. c : out[k] = list[at[k]]
    BY <1>8
  <2> HIDE DEF out
  <2>2. ToSet(out) = {out[k] : k \in 1 .. c}
    BY <2>1 DEF ToSet
  <2> QED
    BY <1>7, <1>10, <2>1, <2>2
<1>13. \A k \in 1 .. c : out[k] = list[at[k]]
  BY <1>8
<1> HIDE DEF out
<1>14. \E a \in [1 .. Len(out) -> I] :
         /\ \A k \in 1 .. Len(out) : out[k] = list[a[k]]
         /\ \A k, l \in 1 .. Len(out) : k < l => a[k] < a[l]
         /\ \A i \in I : \E k \in 1 .. Len(out) : a[k] = i
  <2> HIDE DEF c
  <2>1. Len(out) = c
    BY <1>11
  <2>2. at \in [1 .. Len(out) -> I]
    BY <1>7, <2>1
  <2>3. \A k \in 1 .. Len(out) : out[k] = list[at[k]]
    BY <1>13, <2>1
  <2>4. /\ \A k, l \in 1 .. Len(out) : k < l => at[k] < at[l]
        /\ \A i \in I : \E k \in 1 .. Len(out) : at[k] = i
    BY <1>9, <1>10, <2>1
  <2> QED
    BY <2>2, <2>3, <2>4
<1> QED
  BY <1>2, <1>11, <1>12, <1>14 DEF out


(* A nonempty set of numbers has a least one.                               *)
LEMMA Least ==
  ASSUME NEW T \in SUBSET Nat, T # {}
  PROVE  \E x \in T : \A y \in T : x <= y
<1> DEFINE R == OpToRel(<, Nat)
<1>1. IsWellFoundedOn(R, Nat)
  BY NatLessThanWellFounded
<1>2. R = {ss \in Nat \X Nat : ss[1] < ss[2]}
  BY DEF OpToRel
<1> HIDE DEF R
<1>3. PICK x \in T : \A y \in T : <<y, x>> \notin R
  BY <1>1, WFMin
<1>4. ASSUME NEW y \in T
      PROVE  x <= y
  <2>1. <<y, x>> \in Nat \X Nat /\ <<y, x>>[1] = y /\ <<y, x>>[2] = x
    OBVIOUS
  <2>2. ~(y < x)
    BY <1>2, <1>3, <2>1
  <2> QED
    BY <2>2
<1> QED
  BY <1>4

(* The elements of a list that is extended.                                 *)
LEMMA ListFacts ==
  ASSUME NEW X, NEW list \in Seq(X)
  PROVE  /\ ToSet(list) \subseteq X
         /\ \A x \in X : Append(list, x) \in Seq(X) /\ ToSet(Append(list, x)) = ToSet(list) \cup {x}
         /\ \A more \in Seq(X) : list \o more \in Seq(X)
                                  /\ ToSet(list \o more) = ToSet(list) \cup ToSet(more)
<1>1. ToSet(list) \subseteq X
  BY DEF ToSet
<1>2. DOMAIN list = 1 .. Len(list) /\ Len(list) \in Nat
  OBVIOUS
<1>3. ASSUME NEW x \in X
      PROVE  Append(list, x) \in Seq(X) /\ ToSet(Append(list, x)) = ToSet(list) \cup {x}
  <2>1. /\ DOMAIN Append(list, x) = 1 .. Len(list) + 1
        /\ Append(list, x)[Len(list) + 1] = x
        /\ \A k \in 1 .. Len(list) : Append(list, x)[k] = list[k]
    OBVIOUS
  <2> QED
    BY <1>2, <2>1 DEF ToSet
<1>4. ASSUME NEW more \in Seq(X)
      PROVE  list \o more \in Seq(X) /\ ToSet(list \o more) = ToSet(list) \cup ToSet(more)
  <2> DEFINE both == list \o more
  <2>1. /\ both \in Seq(X) /\ Len(both) = Len(list) + Len(more) /\ DOMAIN both = 1 .. Len(both)
        /\ \A k \in 1 .. Len(both) :
              both[k] = IF k <= Len(list) THEN list[k] ELSE more[k - Len(list)]
    OBVIOUS
  <2>2. DOMAIN more = 1 .. Len(more) /\ Len(more) \in Nat
    OBVIOUS
  <2> HIDE DEF both
  <2>3. ToSet(both) \subseteq ToSet(list) \cup ToSet(more)
    <3>1. ASSUME NEW k \in 1 .. Len(both)
          PROVE  both[k] \in ToSet(list) \cup ToSet(more)
      <4>1. CASE k <= Len(list)
        <5>1. k \in DOMAIN list /\ both[k] = list[k]
          BY <1>2, <2>1, <2>2, <4>1
        <5> QED
          BY <5>1 DEF ToSet
      <4>2. CASE ~(k <= Len(list))
        <5>1. k - Len(list) \in 1 .. Len(more) /\ both[k] = more[k - Len(list)]
          BY <1>2, <2>1, <2>2, <4>2
        <5> QED
          BY <2>2, <5>1 DEF ToSet
      <4> QED
        BY <4>1, <4>2
    <3> QED
      BY <2>1, <3>1 DEF ToSet
  <2>4. ASSUME NEW k \in DOMAIN list
        PROVE  list[k] \in ToSet(both)
    BY <1>2, <2>1, <2>2 DEF ToSet
  <2>5. ASSUME NEW k \in DOMAIN more
        PROVE  more[k] \in ToSet(both)
    <3>1. k + Len(list) \in 1 .. Len(both) /\ both[k + Len(list)] = more[k]
      BY <1>2, <2>1, <2>2
    <3> QED
      BY <2>1, <3>1 DEF ToSet
  <2>6. ToSet(list) \subseteq ToSet(both) /\ ToSet(more) \subseteq ToSet(both)
    BY <2>4, <2>5 DEF ToSet
  <2> QED
    BY <2>1, <2>3, <2>6 DEF both
<1> QED
  BY <1>1, <1>3, <1>4

(* Taking the first occurrence of x from a list leaves all other elements.  *)
LEMMA RemoveFirstFacts ==
  ASSUME NEW X, NEW list \in Seq(X), NEW x
  PROVE  LET out == RemoveFirst(list, x)
         IN  /\ out \in Seq(X)
             /\ ToSet(out) \subseteq ToSet(list)
             /\ ToSet(list) \subseteq ToSet(out) \cup {x}
<1> DEFINE out == RemoveFirst(list, x)
<1>1. CASE ~ \E i \in 1 .. Len(list) : list[i] = x
  BY <1>1 DEF RemoveFirst
<1>2. CASE \E i \in 1 .. Len(list) : list[i] = x
  <2> DEFINE I == {i \in 1 .. Len(list) : list[i] = x}
  <2>1. I # {} /\ I \in SUBSET Nat
    BY <1>2
  <2>2. PICK m \in I : \A i \in I : m <= i
    BY <2>1, Least
  <2>3. Min(I) \in I
    BY <2>2 DEF Min
  <2>4. PICK i \in 1 .. Len(list) : list[i] = x /\ i = SelectInSeq(list, LAMBDA v : v = x)
    BY <2>1, <2>3 DEF SelectInSeq
  <2>5. out = SubSeq(list, 1, i - 1) \o SubSeq(list, i + 1, Len(list))
    BY <1>2, <2>4 DEF RemoveFirst, RemoveAt
  <2>6. Len(list) \in Nat /\ DOMAIN list = 1 .. Len(list)
    OBVIOUS
  <2> DEFINE front == SubSeq(list, 1, i - 1)
             back == SubSeq(list, i + 1, Len(list))
  <2>7. /\ front \in Seq(X) /\ DOMAIN front = 1 .. i - 1
        /\ \A k \in 1 .. i - 1 : front[k] = list[k]
    BY <2>6
  <2>8. /\ back \in Seq(X) /\ DOMAIN back = 1 .. Len(list) - i
        /\ \A k \in 1 .. Len(list) - i : back[k] = list[k + i]
    BY <2>6
  <2> HIDE DEF front, back
  <2>9. out \in Seq(X) /\ ToSet(out) = ToSet(front) \cup ToSet(back)
    <3>1. out = front \o back
      BY <2>5 DEF front, back
    <3> HIDE DEF out
    <3>2. /\ front \o back \in Seq(X)
          /\ ToSet(front \o back) = ToSet(front) \cup ToSet(back)
      BY <2>7, <2>8, ListFacts
    <3> QED
      BY <3>1, <3>2
  <2>10. ToSet(front) \subseteq ToSet(list)
    BY <2>6, <2>7 DEF ToSet
  <2>11. ToSet(back) \subseteq ToSet(list)
    <3>1. \A k \in DOMAIN back : k + i \in DOMAIN list /\ back[k] = list[k + i]
      <4>1. ASSUME NEW k \in DOMAIN back PROVE k + i \in DOMAIN list /\ back[k] = list[k + i]
        <5>1. k \in 1 .. Len(list) - i
          BY <2>8, <4>1
        <5>2. k + i \in 1 .. Len(list)
          BY <2>6, <5>1
        <5> QED
          BY <2>6, <2>8, <5>1, <5>2
      <4> QED
        BY <4>1
    <3> QED
      BY <3>1, Zenon DEF ToSet
  <2>12. ASSUME NEW k \in 1 .. Len(list), k # i
         PROVE  list[k] \in ToSet(front) \cup ToSet(back)
    <3>1. CASE k < i
      BY <2>6, <2>7, <3>1 DEF ToSet
    <3>2. CASE k > i
      <4>1. k - i \in 1 .. Len(list) - i /\ back[k - i] = list[k]
        BY <2>6, <2>8, <3>2
      <4> QED
        BY <2>8, <4>1 DEF ToSet
    <3> QED
      BY <2>12, <3>1, <3>2
  <2>13. ToSet(list) \subseteq ToSet(out) \cup {x}
    BY <2>4, <2>6, <2>9, <2>12 DEF ToSet
  <2> QED
    BY <2>9, <2>10, <2>11, <2>13
<1> QED
  BY <1>1, <1>2

(* Only keeps the elements in ids, and Without those outside.               *)
LEMMA OnlyFacts ==
  ASSUME NEW X, NEW list \in Seq(X), NEW ids
  PROVE  Only(list, ids) \in Seq(X) /\ ToSet(Only(list, ids)) = ToSet(list) \cap ids
<1> DEFINE I == {i \in DOMAIN list : list[i] \in ids}
<1>1. I \in SUBSET DOMAIN list
  OBVIOUS
<1>2. Picked(list, I) \in Seq(X) /\ ToSet(Picked(list, I)) = {list[i] : i \in I}
  BY <1>1, PickedFacts
<1>3. {list[i] : i \in I} = ToSet(list) \cap ids
  BY DEF ToSet
<1> QED
  BY <1>2, <1>3 DEF Only

LEMMA WithoutFacts ==
  ASSUME NEW X, NEW list \in Seq(X), NEW ids
  PROVE  Without(list, ids) \in Seq(X) /\ ToSet(Without(list, ids)) = ToSet(list) \ ids
<1> DEFINE I == {i \in DOMAIN list : list[i] \notin ids}
<1>1. I \in SUBSET DOMAIN list
  OBVIOUS
<1>2. Picked(list, I) \in Seq(X) /\ ToSet(Picked(list, I)) = {list[i] : i \in I}
  BY <1>1, PickedFacts
<1>3. {list[i] : i \in I} = ToSet(list) \ ids
  BY DEF ToSet
<1> QED
  BY <1>2, <1>3 DEF Without

----------------------------------------------------------------------------
(* The invariant of one queue at time t: it has its types, its log is       *)
(* finite, pending jobs are listed or expired, and no job has left the log. *)
QueueOK(q) == IsQueue(q) /\ IsFiniteSet(q.shared) /\ IsFiniteSet(q.outdated)

Waits(q, t) ==
  \A id \in DOMAIN q.index :
    q.index[id].status = "pending" =>
      id \in ToSet(q.pending) \/ t > q.index[id].deadlineAt

Gossiped(q) == DOMAIN q.index \subseteq {job.id : job \in Log(q)}

Sound(q, t) == QueueOK(q) /\ Waits(q, t) /\ Gossiped(q)

(* All versions of jobs a queue holds.                                      *)
Objects(q) == {q.index[id] : id \in DOMAIN q.index} \cup q.outdated

(* The dead-letter queue keeps its limit.                                   *)
DeadOK(dead) == dead \in Seq(ID) /\ Len(dead) <= MaxSize

(* What an operation of node n that is given the versions in S may do to    *)
(* dead letters: none is lost, and a job fails only with one at n.          *)
Follows(q, r, n, S) ==
  /\ \A id : Buried(q, id) => Buried(r, id)
  /\ \A job \in Objects(r) :
       \/ job \in Objects(q) \cup S
       \/ job.status # "failed"
       \/ job.node = n /\ Buried(r, job.id)

(* The fields of a version of a job.                                        *)
LEMMA JobFacts ==
  ASSUME NEW job \in Job
  PROVE  /\ job.id \in ID /\ job.status \in Status /\ job.priority \in Nat
         /\ job.timestamp \in Nat /\ job.retries \in Nat
         /\ job.maxRetries \in Retries /\ job.updatedAt \in Nat /\ job.node \in Node
         /\ job.deadlineAt \in Nat /\ job.started \in Nat
BY SetsAssumption DEF Job

(* The objects of a log that are shared have the ID they are indexed by.    *)
LEMMA LogFacts ==
  ASSUME NEW q, QueueOK(q)
  PROVE  /\ Log(q) \subseteq Job /\ Log(q) \subseteq Objects(q) /\ IsFiniteSet(Log(q))
         /\ \A id \in q.shared : q.index[id] \in Log(q) /\ q.index[id].id = id
         /\ \A job \in Log(q) : job.id \in q.shared \/ job \in q.outdated
         /\ Objects(q) \subseteq Job
<1> DEFINE S == {q.index[id] : id \in q.shared}
<1>1. /\ q.shared \subseteq DOMAIN q.index /\ IsFiniteSet(q.shared) /\ IsFiniteSet(q.outdated)
      /\ q.outdated \subseteq Job
      /\ \A id \in DOMAIN q.index : q.index[id] \in Job /\ q.index[id].id = id
  BY DEF QueueOK, IsQueue
<1>2. IsFiniteSet(S)
  <2> DEFINE f == [id \in q.shared |-> q.index[id]]
  <2>1. f \in Surjection(q.shared, S)
    BY DEF Surjection
  <2> HIDE DEF f, S
  <2> QED
    BY <1>1, <2>1, FS_Surjection
<1>3. Log(q) = S \cup q.outdated
  BY DEF Log
<1>4. IsFiniteSet(Log(q))
  <2> HIDE DEF S
  <2>1. IsFiniteSet(S \cup q.outdated)
    BY ONLY <1>1, <1>2, FS_Union
  <2> QED
    BY <1>3, <2>1
<1> QED
  BY <1>1, <1>3, <1>4 DEF Objects

(* A job of the index is in the log, shared or outdated.                    *)
LEMMA KnownFacts ==
  ASSUME NEW q, QueueOK(q), Gossiped(q), NEW id \in DOMAIN q.index
  PROVE  id \in q.shared \/ \E job \in q.outdated : job.id = id
<1>1. PICK job \in Log(q) : job.id = id
  BY DEF Gossiped
<1> QED
  BY <1>1, LogFacts

(* An operation that puts one version of one job into the index.            *)
Puts(q, r, job) ==
  /\ DOMAIN r = DOMAIN q
  /\ DOMAIN r.index = DOMAIN q.index \cup {job.id}
  /\ r.index[job.id] = job
  /\ \A id \in DOMAIN q.index : id # job.id => r.index[id] = q.index[id]

(* ... and keeps the job in the log, and in the list if it is pending,      *)
(* keeps the queue sound.                                                   *)
LEMMA PutFacts ==
  ASSUME NEW q, NEW t, Sound(q, t), NEW job \in Job, NEW r, Puts(q, r, job),
         r.shared \subseteq q.shared \cup {job.id},
         q.shared \subseteq r.shared \cup {job.id},
         q.outdated \subseteq r.outdated,
         r.outdated \subseteq Log(q),
         job.id \in r.shared \/ \E j \in r.outdated : j.id = job.id,
         r.pending \in Seq(ID), r.processing \in Seq(ID), DeadOK(r.dead),
         ToSet(q.pending) \subseteq ToSet(r.pending) \cup {job.id},
         job.status = "pending" => job.id \in ToSet(r.pending)
  PROVE  Sound(r, t) /\ Objects(r) \subseteq Objects(q) \cup {job}
<1>1. job.id \in ID
  BY JobFacts
<1>2. IsQueue(q) /\ IsFiniteSet(q.shared) /\ QueueOK(q)
  BY DEF Sound, QueueOK
<1>3. /\ DOMAIN q.index \subseteq ID /\ q.shared \subseteq DOMAIN q.index
      /\ DOMAIN q = DOMAIN EmptyQueue
      /\ \A id \in DOMAIN q.index : q.index[id] \in Job /\ q.index[id].id = id
  BY <1>2 DEF IsQueue
<1>4. Log(q) \subseteq Job /\ IsFiniteSet(Log(q)) /\ Log(q) \subseteq Objects(q)
  BY <1>2, LogFacts
<1>5. IsQueue(r)
  <2>1. DOMAIN r = DOMAIN EmptyQueue /\ DOMAIN r.index \subseteq ID
    BY <1>1, <1>3 DEF Puts
  <2>2. \A id \in DOMAIN r.index : r.index[id] \in Job /\ r.index[id].id = id
    BY <1>3 DEF Puts
  <2>3. r.shared \subseteq DOMAIN r.index
    BY <1>3 DEF Puts
  <2> QED
    BY <1>4, <2>1, <2>2, <2>3 DEF IsQueue, DeadOK
<1>6. IsFiniteSet(r.shared) /\ IsFiniteSet(r.outdated)
  <2>1. IsFiniteSet(q.shared \cup {job.id})
    BY <1>2, FS_AddElement
  <2> QED
    BY <1>4, <2>1, FS_Subset
<1>7. Waits(r, t)
  BY DEF Sound, Waits, Puts
<1>8. Gossiped(r)
  <2>1. ASSUME NEW id \in DOMAIN r.index
        PROVE  \E j \in Log(r) : j.id = id
    <3>1. CASE id = job.id
      BY <3>1 DEF Log, Puts
    <3>2. CASE id # job.id
      <4>1. id \in DOMAIN q.index /\ r.index[id].id = id
        BY <1>3, <3>2 DEF Puts
      <4>2. id \in q.shared \/ \E j \in q.outdated : j.id = id
        BY <1>2, <4>1, KnownFacts DEF Sound
      <4> QED
        BY <3>2, <4>1, <4>2 DEF Log
    <3> QED
      BY <3>1, <3>2
  <2> QED
    BY <2>1 DEF Gossiped
<1>9. Objects(r) \subseteq Objects(q) \cup {job}
  BY <1>4 DEF Objects, Puts
<1> QED
  BY <1>5, <1>6, <1>7, <1>8, <1>9 DEF Sound, QueueOK

(* Above is a strict total order of the positions, if no job was evicted.   *)
LEMMA AboveFacts ==
  ASSUME NEW q, IsQueue(q), ToSet(q.pending) \subseteq DOMAIN q.index
  PROVE  LET D == DOMAIN q.pending
         IN  /\ \A i \in D : ~Above(q, i, i)
             /\ \A i, j, k \in D : Above(q, i, j) /\ Above(q, j, k) => Above(q, i, k)
             /\ \A i, j \in D : i # j => Above(q, i, j) \/ Above(q, j, i)
<1> DEFINE D == DOMAIN q.pending
           p == [i \in D |-> q.index[q.pending[i]].priority]
           s == [i \in D |-> q.index[q.pending[i]].timestamp]
<1>1. ASSUME NEW i \in D
      PROVE  i \in Nat /\ p[i] \in Nat /\ s[i] \in Nat
  <2>1. q.pending \in Seq(ID) /\ q.pending[i] \in DOMAIN q.index
    BY DEF IsQueue, ToSet
  <2>2. q.index[q.pending[i]] \in Job
    BY <2>1 DEF IsQueue
  <2>3. i \in Nat
    BY <2>1
  <2> QED
    BY <2>2, <2>3, JobFacts
<1>2. \A i, j \in D :
        Above(q, i, j) <=> \/ p[i] > p[j] \/ (p[i] = p[j] /\ s[i] < s[j])
                           \/ i < j /\ ~(p[j] > p[i] \/ (p[j] = p[i] /\ s[j] < s[i]))
  BY DEF Above, Before
<1> HIDE DEF p, s, D
<1>3. \A i \in D : ~Above(q, i, i)
  BY <1>1, <1>2
<1>4. \A i, j, k \in D : Above(q, i, j) /\ Above(q, j, k) => Above(q, i, k)
  BY <1>1, <1>2
<1>5. \A i, j \in D : i # j => Above(q, i, j) \/ Above(q, j, i)
  BY <1>1, <1>2
<1> QED
  BY <1>3, <1>4, <1>5 DEF D

(* Sorting permutes the pending list and leaves the rest alone.             *)
LEMMA OrderedFacts ==
  ASSUME NEW q, IsQueue(q), ToSet(q.pending) \subseteq DOMAIN q.index
  PROVE  Ordered(q) \in Seq(ID) /\ ToSet(Ordered(q)) = ToSet(q.pending)
<1> DEFINE list == q.pending
           D == DOMAIN q.pending
           c == Cardinality(D)
           below == [i \in D |-> {j \in D : Above(q, j, i)}]
           at == [k \in D |-> CHOOSE i \in D : Cardinality({j \in D : Above(q, j, i)}) = k - 1]
<1>1. list \in Seq(ID) /\ D = 1 .. Len(list) /\ Len(list) \in Nat
  BY DEF IsQueue
<1>2. IsFiniteSet(D) /\ c = Len(list)
  BY <1>1, FS_Interval
<1>3. /\ below \in [D -> SUBSET D]
      /\ \A i, j \in D : j \in below[i] <=> Above(q, j, i)
      /\ \A i \in D : Cardinality(below[i]) = Cardinality({j \in D : Above(q, j, i)})
  OBVIOUS
<1> HIDE DEF below
<1>4. /\ \A i \in D : Cardinality(below[i]) \in 0 .. c - 1
      /\ \A k \in 0 .. c - 1 : \E i \in D : Cardinality(below[i]) = k
      /\ \A i, j \in D : Cardinality(below[i]) = Cardinality(below[j]) => i = j
  <2>1. \A i \in D : i \notin below[i]
    BY <1>3, AboveFacts
  <2>2. \A i, j \in D : j \in below[i] => below[j] \subseteq below[i]
    <3>1. \A i, j, k \in D : Above(q, i, j) /\ Above(q, j, k) => Above(q, i, k)
      BY AboveFacts
    <3> HIDE DEF D
    <3> QED
      BY <1>3, <3>1
  <2>3. \A i, j \in D : i # j => i \in below[j] \/ j \in below[i]
    BY <1>3, AboveFacts
  <2> HIDE DEF D
  <2> QED
    BY <1>2, <1>3, <2>1, <2>2, <2>3, RankFacts
<1>5. \A k \in D : at[k] \in D /\ Cardinality(below[at[k]]) = k - 1
  <2>1. TAKE k \in D
  <2>2. k - 1 \in 0 .. c - 1
    BY <1>1, <1>2
  <2>3. \E i \in D : Cardinality({j \in D : Above(q, j, i)}) = k - 1
    BY <1>3, <1>4, <2>2
  <2>4. at[k] \in D /\ Cardinality({j \in D : Above(q, j, at[k])}) = k - 1
    BY <2>3
  <2> QED
    BY <1>3, <2>4
<1>6. Ordered(q) = [k \in D |-> list[at[k]]]
  BY DEF Ordered
<1> HIDE DEF at
<1>7. ASSUME NEW i \in D
      PROVE  \E k \in D : at[k] = i
  <2>1. Cardinality(below[i]) \in 0 .. c - 1
    BY <1>4
  <2>2. Cardinality(below[i]) + 1 \in D
    BY <1>1, <1>2, <2>1
  <2>3. Cardinality(below[at[Cardinality(below[i]) + 1]]) = Cardinality(below[i])
    BY <1>5, <2>1, <2>2
  <2> QED
    BY <1>4, <1>5, <2>2, <2>3
<1>8. Ordered(q) \in Seq(ID)
  BY <1>1, <1>5, <1>6
<1>9. ToSet(Ordered(q)) = ToSet(list)
  <2>1. DOMAIN Ordered(q) = D /\ \A k \in D : Ordered(q)[k] = list[at[k]]
    BY <1>6
  <2> QED
    BY <1>5, <1>7, <2>1 DEF ToSet
<1> QED
  BY <1>8, <1>9

(* Sorted changes the order of the pending list, or nothing.                *)
LEMMA SortedFacts ==
  ASSUME NEW q, IsQueue(q)
  PROVE  LET r == Sorted(q)
         IN  /\ DOMAIN r = DOMAIN q /\ r.index = q.index /\ r.shared = q.shared
             /\ r.outdated = q.outdated /\ r.processing = q.processing /\ r.dead = q.dead
             /\ r.pending \in Seq(ID) /\ ToSet(r.pending) = ToSet(q.pending)
<1>1. CASE ToSet(q.pending) \subseteq DOMAIN q.index
  <2>1. Sorted(q) = [q EXCEPT !.pending = Ordered(q)]
    BY <1>1 DEF Sorted
  <2>2. Ordered(q) \in Seq(ID) /\ ToSet(Ordered(q)) = ToSet(q.pending)
    BY <1>1, OrderedFacts
  <2> QED
    BY <2>1, <2>2 DEF IsQueue, EmptyQueue
<1>2. CASE ~(ToSet(q.pending) \subseteq DOMAIN q.index)
  BY <1>2 DEF Sorted, IsQueue
<1> QED
  BY <1>1, <1>2

(* The order matters to no part of the invariant.                           *)
LEMMA SortedKeepsSound ==
  ASSUME NEW q, NEW t, Sound(q, t)
  PROVE  Sound(Sorted(q), t) /\ Objects(Sorted(q)) = Objects(q) /\ Sorted(q).dead = q.dead
<1> DEFINE r == Sorted(q)
<1>1. IsQueue(q)
  BY DEF Sound, QueueOK
<1>2. /\ DOMAIN r = DOMAIN q /\ r.index = q.index /\ r.shared = q.shared
      /\ r.outdated = q.outdated /\ r.processing = q.processing /\ r.dead = q.dead
      /\ r.pending \in Seq(ID) /\ ToSet(r.pending) = ToSet(q.pending)
  BY <1>1, SortedFacts
<1> HIDE DEF r
<1>3. IsQueue(r)
  BY <1>1, <1>2 DEF IsQueue
<1>4. Log(r) = Log(q) /\ Objects(r) = Objects(q)
  BY <1>2 DEF Log, Objects
<1>5. Sound(r, t)
  BY <1>2, <1>3, <1>4 DEF Sound, QueueOK, Waits, Gossiped
<1> QED
  BY <1>2, <1>4, <1>5 DEF r

(* Enqueue: a job of the same ID stays in the log.                          *)
LEMMA EnqueuedFacts ==
  ASSUME NEW q, NEW t, Sound(q, t), NEW job \in Job, job.status = "pending", NEW n
  PROVE  LET r == Enqueued(q, job)
         IN  /\ Sound(r, t) /\ Follows(q, r, n, {})
             /\ Puts(q, r, job)
<1> DEFINE old == IF job.id \in q.shared THEN {q.index[job.id]} ELSE {}
           r == [WithJob(q, job) EXCEPT !.shared = @ \cup {job.id}, !.outdated = @ \cup old,
                                        !.pending = Append(@, job.id)]
<1>1. IsQueue(q) /\ QueueOK(q) /\ q.pending \in Seq(ID) /\ job.id \in ID
  BY JobFacts DEF Sound, QueueOK, IsQueue, DeadOK
<1>2. /\ Puts(q, r, job)
      /\ r.shared = q.shared \cup {job.id} /\ r.outdated = q.outdated \cup old
      /\ r.pending = Append(q.pending, job.id)
      /\ r.processing = q.processing /\ r.dead = q.dead
  BY <1>1 DEF WithJob, IsQueue, EmptyQueue, Puts
<1>3. Enqueued(q, job) = Sorted(r)
  BY DEF Enqueued
<1> HIDE DEF r
<1>4. old \subseteq Log(q) /\ q.outdated \subseteq Log(q)
  BY <1>1, LogFacts DEF Log
<1>5. r.pending \in Seq(ID) /\ ToSet(r.pending) = ToSet(q.pending) \cup {job.id}
  BY <1>1, <1>2, ListFacts
<1> HIDE DEF old
<1>6. q.processing \in Seq(ID) /\ DeadOK(q.dead)
  BY <1>1 DEF IsQueue, DeadOK
<1>7. Sound(r, t) /\ Objects(r) \subseteq Objects(q) \cup {job}
  BY <1>2, <1>4, <1>5, <1>6, PutFacts
<1>8. /\ Sound(Sorted(r), t) /\ Objects(Sorted(r)) = Objects(r)
      /\ Sorted(r).dead = r.dead
  BY <1>7, SortedKeepsSound
<1>9. Puts(q, Sorted(r), job)
  <2>1. IsQueue(r)
    BY <1>7 DEF Sound, QueueOK
  <2> QED
    BY <1>2, <2>1, SortedFacts DEF Puts
<1> QED
  BY <1>2, <1>3, <1>7, <1>8, <1>9 DEF Follows, Buried

(* A dead-letter queue keeps its letters and the new ones, or is full.      *)
LEMMA DeadLetterFacts ==
  ASSUME NEW dead, DeadOK(dead), NEW ids \in Seq(ID)
  PROVE  LET out == DeadLetter(dead, ids)
         IN  /\ DeadOK(out)
             /\ Len(dead) = MaxSize => Len(out) = MaxSize
             /\ Len(out) # MaxSize => ToSet(out) = ToSet(dead) \cup ToSet(ids)
<1> DEFINE all == dead \o ids
           out == DeadLetter(dead, ids)
<1>1. /\ all \in Seq(ID) /\ ToSet(all) = ToSet(dead) \cup ToSet(ids)
      /\ Len(all) = Len(dead) + Len(ids)
  BY ListFacts DEF DeadOK
<1>2. Len(dead) \in Nat /\ Len(ids) \in Nat /\ MaxSize \in Nat \ {0} /\ Len(dead) <= MaxSize
  BY LimitAssumption DEF DeadOK
<1>3. out = IF Len(all) <= MaxSize THEN all
            ELSE SubSeq(all, Len(all) - MaxSize + 1, Len(all))
  BY DEF DeadLetter
<1> HIDE DEF all, out
<1>4. CASE Len(all) <= MaxSize
  BY <1>1, <1>2, <1>3, <1>4 DEF DeadOK, out
<1>5. CASE ~(Len(all) <= MaxSize)
  <2>1. Len(all) \in Nat /\ Len(all) - MaxSize + 1 \in 1 .. Len(all)
    BY <1>1, <1>2, <1>5
  <2>2. out \in Seq(ID) /\ Len(out) = MaxSize
    BY <1>1, <1>2, <1>3, <1>5, <2>1
  <2> QED
    BY <1>2, <2>2 DEF DeadOK, out
<1> QED
  BY <1>4, <1>5 DEF out

(* Letters added one after the other bury what was buried and their own.    *)
LEMMA BuriedFacts ==
  ASSUME NEW q, NEW r, NEW ids \in Seq(ID), DeadOK(q.dead), r.dead = DeadLetter(q.dead, ids)
  PROVE  /\ DeadOK(r.dead)
         /\ \A id : Buried(q, id) => Buried(r, id)
         /\ \A id \in ToSet(ids) : Buried(r, id)
BY DeadLetterFacts DEF Buried

(* MarkComplete puts the completed version into the index.                  *)
Completed(q, job, n) ==
  [WithJob(q, [job EXCEPT !.status = "completed", !.updatedAt = now, !.node = n])
     EXCEPT !.processing = RemoveFirst(@, job.id)]

(* ... and takes the job out of the processing list.                        *)
LEMMA CompletedFacts ==
  ASSUME NEW q, NEW t, Sound(q, t), now \in Nat, NEW n \in Node, NEW id \in DOMAIN q.index
  PROVE  LET r == Completed(q, q.index[id], n)
         IN  /\ Sound(r, t) /\ Follows(q, r, n, {})
             /\ \E job \in Job :
                  /\ Puts(q, r, job) /\ job.id = id /\ job.status = "completed"
                  /\ job.retries = q.index[id].retries
                  /\ job.maxRetries = q.index[id].maxRetries
<1> DEFINE job == [q.index[id] EXCEPT !.status = "completed", !.updatedAt = now, !.node = n]
           r == Completed(q, q.index[id], n)
<1>1. /\ IsQueue(q) /\ QueueOK(q) /\ q.index[id] \in Job /\ q.index[id].id = id
      /\ q.processing \in Seq(ID) /\ q.pending \in Seq(ID) /\ DeadOK(q.dead)
      /\ q.outdated \subseteq Log(q)
  BY DEF Sound, QueueOK, IsQueue, DeadOK, Log
<1>2. /\ job \in Job /\ job.id = id /\ job.status = "completed"
      /\ job.retries = q.index[id].retries /\ job.maxRetries = q.index[id].maxRetries
  BY <1>1 DEF Job, Status
<1>3. r = [WithJob(q, job) EXCEPT !.processing = RemoveFirst(@, id)]
  BY <1>1 DEF Completed
<1> HIDE DEF r, job
<1>4. /\ Puts(q, r, job)
      /\ r.shared = q.shared /\ r.outdated = q.outdated /\ r.pending = q.pending
      /\ r.processing = RemoveFirst(q.processing, id) /\ r.dead = q.dead
  BY <1>1, <1>2, <1>3 DEF WithJob, IsQueue, EmptyQueue, Puts
<1>5. r.processing \in Seq(ID)
  BY <1>1, <1>4, RemoveFirstFacts
<1>6. id \in q.shared \/ \E j \in q.outdated : j.id = id
  BY <1>1, KnownFacts DEF Sound
<1>7. Sound(r, t) /\ Objects(r) \subseteq Objects(q) \cup {job}
  BY <1>1, <1>2, <1>4, <1>5, <1>6, PutFacts
<1>8. Follows(q, r, n, {})
  BY <1>2, <1>4, <1>7 DEF Follows, Buried
<1> QED
  BY <1>2, <1>4, <1>7, <1>8 DEF r

(* A backoff is a number of ticks.                                          *)
LEMMA BackoffFacts ==
  ASSUME NEW retries \in Nat
  PROVE  Backoff(retries) \in Nat
<1>1. \A a, b \in Nat : a * b \in Nat
  OBVIOUS
<1>2. 2 * InitialBackoff \in Nat
  BY TicksAssumption
<1>3. (2 * InitialBackoff) * retries \in Nat
  BY <1>1, <1>2
<1> QED
  BY <1>3, TicksAssumption DEF Backoff

(* MarkFailed puts a pending version into the index and the list, or a      *)
(* failed one into the index and the dead letters.                          *)
LEMMA FailedFacts ==
  ASSUME NEW q, NEW t, Sound(q, t), now \in Nat, NEW n \in Node, NEW id \in DOMAIN q.index
  PROVE  LET r == Failed(q, n, q.index[id])
         IN  /\ Sound(r, t) /\ Follows(q, r, n, {})
             /\ \E job \in Job :
                  /\ Puts(q, r, job) /\ job.id = id
                  /\ job.retries = q.index[id].retries + 1
                  /\ job.maxRetries = q.index[id].maxRetries
                  /\ job.status = IF job.retries >= job.maxRetries THEN "failed" ELSE "pending"
<1> DEFINE old == q.index[id]
           report == [old EXCEPT !.retries = @ + 1, !.node = n]
           done == [q EXCEPT !.processing = RemoveFirst(@, old.id)]
           r == Failed(q, n, q.index[id])
<1>1. /\ IsQueue(q) /\ QueueOK(q) /\ old \in Job /\ old.id = id /\ id \in ID
      /\ q.processing \in Seq(ID) /\ q.pending \in Seq(ID) /\ DeadOK(q.dead)
      /\ q.outdated \subseteq Log(q)
  BY DEF Sound, QueueOK, IsQueue, DeadOK, Log
<1>2. /\ report \in Job /\ report.id = id /\ report.node = n
      /\ report.retries = old.retries + 1 /\ report.maxRetries = old.maxRetries
      /\ report.retries \in Nat
  <2>1. old.retries + 1 \in Nat
    BY <1>1, JobFacts
  <2>2. report = [old EXCEPT !.retries = old.retries + 1, !.node = n]
    OBVIOUS
  <2> HIDE DEF report, old
  <2> QED
    BY <1>1, <2>1, <2>2 DEF Job
<1>3. RemoveFirst(q.processing, id) \in Seq(ID)
  BY <1>1, RemoveFirstFacts
<1>4. id \in q.shared \/ \E j \in q.outdated : j.id = id
  BY <1>1, KnownFacts DEF Sound
<1>5. CASE report.retries >= report.maxRetries
  <2> DEFINE job == [report EXCEPT !.status = "failed", !.updatedAt = now]
  <2>1. job \in Job /\ job.id = id /\ job.node = n /\ job.status = "failed"
    BY <1>2 DEF Job, Status
  <2>2. job.retries = report.retries /\ job.maxRetries = report.maxRetries
    BY <1>2 DEF Job
  <2>3. r = [WithJob(done, job) EXCEPT !.dead = DeadLetter(@, <<id>>)]
    BY <1>1, <1>5 DEF Failed
  <2> HIDE DEF r, job, report
  <2>4. /\ Puts(q, r, job)
        /\ r.shared = q.shared /\ r.outdated = q.outdated /\ r.pending = q.pending
        /\ r.processing = RemoveFirst(q.processing, id) /\ r.dead = DeadLetter(q.dead, <<id>>)
    BY <1>1, <2>1, <2>3 DEF WithJob, IsQueue, EmptyQueue, Puts
  <2>5. <<id>> \in Seq(ID) /\ id \in ToSet(<<id>>)
    <3>1. <<id>> \in Seq(ID) /\ 1 \in DOMAIN <<id>> /\ <<id>>[1] = id
      BY <1>1
    <3> QED
      BY <3>1 DEF ToSet
  <2>6. DeadOK(r.dead) /\ (\A i : Buried(q, i) => Buried(r, i)) /\ Buried(r, id)
    BY <1>1, <2>4, <2>5, BuriedFacts
  <2>7. Sound(r, t) /\ Objects(r) \subseteq Objects(q) \cup {job}
    BY <1>1, <1>3, <1>4, <2>1, <2>4, <2>6, PutFacts
  <2>8. Follows(q, r, n, {})
    BY <2>1, <2>6, <2>7 DEF Follows
  <2> QED
    BY <1>2, <1>5, <2>1, <2>2, <2>4, <2>7, <2>8 DEF r
<1>6. CASE ~(report.retries >= report.maxRetries)
  <2> DEFINE job == [report EXCEPT !.status = "pending",
                                   !.updatedAt = now + Backoff(report.retries)]
             s == [WithJob(done, job) EXCEPT !.pending = Append(@, id)]
  <2>1. Backoff(report.retries) \in Nat
    BY <1>2, BackoffFacts
  <2>2. job \in Job /\ job.id = id /\ job.status = "pending"
    <3>1. now + Backoff(report.retries) \in Nat
      BY <2>1
    <3> QED
      BY <1>2, <3>1 DEF Job, Status
  <2>3. job.retries = report.retries /\ job.maxRetries = report.maxRetries
    BY <1>2 DEF Job
  <2>4. r = Sorted(s)
    BY <1>1, <1>6 DEF Failed
  <2> HIDE DEF r, job, report
  <2>5. /\ Puts(q, s, job)
        /\ s.shared = q.shared /\ s.outdated = q.outdated /\ s.dead = q.dead
        /\ s.processing = RemoveFirst(q.processing, id) /\ s.pending = Append(q.pending, id)
    BY <1>1, <2>2 DEF WithJob, IsQueue, EmptyQueue, Puts
  <2> HIDE DEF s
  <2>6. s.pending \in Seq(ID) /\ ToSet(s.pending) = ToSet(q.pending) \cup {id}
    BY <1>1, <2>5, ListFacts
  <2>7. Sound(s, t) /\ Objects(s) \subseteq Objects(q) \cup {job}
    BY <1>1, <1>3, <1>4, <2>2, <2>5, <2>6, PutFacts
  <2>8. Sound(r, t) /\ Objects(r) = Objects(s) /\ r.dead = s.dead
    BY <2>4, <2>7, SortedKeepsSound
  <2>9. Puts(q, r, job)
    <3>1. IsQueue(s)
      BY <2>7 DEF Sound, QueueOK
    <3> QED
      BY <2>4, <2>5, <3>1, SortedFacts DEF Puts
  <2>10. Follows(q, r, n, {})
    BY <2>2, <2>5, <2>7, <2>8 DEF Follows, Buried
  <2> QED
    BY <1>2, <1>6, <2>2, <2>3, <2>8, <2>9, <2>10 DEF r
<1> QED
  BY <1>5, <1>6

(* An operation that changes jobs of the index, but none of their IDs.      *)
LEMMA ChangeFacts ==
  ASSUME NEW q, QueueOK(q), Gossiped(q), NEW r,
         DOMAIN r = DOMAIN q, r.shared = q.shared, r.outdated = q.outdated,
         DOMAIN r.index = DOMAIN q.index,
         \A id \in DOMAIN q.index : r.index[id] \in Job /\ r.index[id].id = id,
         r.pending \in Seq(ID), r.processing \in Seq(ID), DeadOK(r.dead)
  PROVE  QueueOK(r) /\ Gossiped(r)
<1>1. IsQueue(q)
  BY DEF QueueOK
<1>2. IsQueue(r)
  BY <1>1 DEF IsQueue, DeadOK
<1>3. ASSUME NEW id \in DOMAIN r.index
      PROVE  \E job \in Log(r) : job.id = id
  <2>1. id \in q.shared \/ \E job \in q.outdated : job.id = id
    BY <1>3, KnownFacts
  <2> QED
    BY <2>1 DEF Log
<1>4. Gossiped(r)
  BY <1>3 DEF Gossiped
<1> QED
  BY <1>2, <1>4 DEF QueueOK

(* GetNextJob: the jobs it claims were pending, and what it takes from the  *)
(* pending list was claimed or has expired.                                 *)
LEMMA ScanFacts ==
  ASSUME NEW q, IsQueue(q)
  PROVE  LET scan == Scan(q)
         IN  /\ scan.late \in Seq(ID) /\ \A id \in ToSet(scan.late) : Late(q, id)
             /\ \A id \in scan.taken : Ready(q, id)
             /\ scan.listed \subseteq scan.taken
             /\ scan.pending \in Seq(ID)
             /\ ToSet(q.pending) \subseteq ToSet(scan.pending) \cup ToSet(scan.late) \cup scan.taken
<1> DEFINE place == Places(q)
           Id(i) == At(q, place[i])
           turns == DOMAIN q.pending
           ends == {i \in turns : \/ Id(i) \notin DOMAIN q.index
                                  \/ Ready(q, Id(i))
                                  \/ Late(q, Id(i)) /\ place[i] > Len(q.pending)}
           end == Min(ends \cup {Len(q.pending)})
           late == {i \in turns : i <= end /\ Late(q, Id(i))}
           looked == [i \in turns |-> Id(i)]
           taken == {i \in {end} : Ready(q, Id(i))}
           gone == {place[i] : i \in late \cup taken}
           scan == Scan(q)
<1>1. /\ scan.late = Picked(looked, late) /\ scan.taken = {Id(i) : i \in taken}
      /\ scan.listed = {Id(i) : i \in {j \in taken : place[j] \in turns}}
      /\ scan.pending = Picked(q.pending, turns \ gone)
  BY DEF Scan
<1> HIDE DEF scan, place, end
<1>2. q.pending \in Seq(ID)
  BY DEF IsQueue
<1>3. /\ scan.late \in Seq(ID) /\ ToSet(scan.late) = {Id(i) : i \in late}
      /\ \A id \in ToSet(scan.late) : Late(q, id)
  <2> DEFINE X == {Id(i) : i \in turns}
  <2>1. turns = 1 .. Len(q.pending) /\ Len(q.pending) \in Nat
    BY <1>2
  <2>2. looked \in Seq(X) /\ DOMAIN looked = turns
    BY <2>1
  <2>3. late \in SUBSET DOMAIN looked
    OBVIOUS
  <2>4. scan.late \in Seq(X) /\ ToSet(scan.late) = {looked[i] : i \in late}
    <3> HIDE DEF X, looked, late
    <3> QED
      BY <1>1, <2>2, <2>3, PickedFacts
  <2>5. ToSet(scan.late) = {Id(i) : i \in late}
    BY <2>4
  <2>6. ASSUME NEW id \in ToSet(scan.late)
        PROVE  Late(q, id) /\ id \in ID
    <3>1. Late(q, id)
      BY <2>5
    <3> QED
      BY <3>1 DEF Late, IsQueue
  <2>7. scan.late \in Seq(ID)
    <3>1. DOMAIN scan.late = 1 .. Len(scan.late) /\ Len(scan.late) \in Nat
      BY <2>4
    <3>2. \A k \in 1 .. Len(scan.late) : scan.late[k] \in ID
      BY <2>6, <3>1 DEF ToSet
    <3>3. scan.late = [k \in 1 .. Len(scan.late) |-> scan.late[k]]
      BY <2>4
    <3> QED
      BY <3>1, <3>2, <3>3
  <2> QED
    BY <2>5, <2>6, <2>7
<1>4. \A id \in scan.taken : Ready(q, id)
  BY <1>1
<1>5. scan.listed \subseteq scan.taken
  BY <1>1
<1>6. scan.pending \in Seq(ID) /\ ToSet(scan.pending) = {q.pending[i] : i \in turns \ gone}
  <2>1. turns \ gone \in SUBSET DOMAIN q.pending
    OBVIOUS
  <2> QED
    BY <1>1, <1>2, <2>1, PickedFacts
<1>7. ASSUME NEW k \in turns, k \in gone
      PROVE  q.pending[k] \in ToSet(scan.late) \cup scan.taken
  <2>1. PICK i \in late \cup taken : place[i] = k
    BY <1>7
  <2>2. Id(i) = q.pending[k]
    BY <1>2, <2>1 DEF At
  <2> QED
    BY <1>1, <1>3, <2>1, <2>2
<1>8. ToSet(q.pending) \subseteq ToSet(scan.pending) \cup ToSet(scan.late) \cup scan.taken
  <2> HIDE DEF gone
  <2> QED
    BY <1>6, <1>7 DEF ToSet
<1> QED
  BY <1>3, <1>4, <1>5, <1>6, <1>8 DEF scan

(* What GetNextJob at node n does to the jobs it claims.                    *)
Take(job, ids, n) ==
  IF job.id \in ids
  THEN [job EXCEPT !.status = "processing", !.started = now, !.updatedAt = now, !.node = n]
  ELSE job

(* GetNextJob changes nothing but pending jobs into jobs in processing.     *)
LEMMA ClaimedFacts ==
  ASSUME NEW q, Sound(q, now), now \in Nat, NEW n \in Node
  PROVE  LET r == Claimed(q, n)
         IN  /\ Sound(r, now) /\ Follows(q, r, n, {})
             /\ DOMAIN r.index = DOMAIN q.index
             /\ \A id \in DOMAIN q.index :
                  /\ r.index[id].retries = q.index[id].retries
                  /\ r.index[id].maxRetries = q.index[id].maxRetries
                  /\ IF id \in Scan(q).taken
                     THEN q.index[id].status = "pending" /\ r.index[id].status = "processing"
                     ELSE r.index[id].status = q.index[id].status
<1> DEFINE scan == Scan(q)
           r == Claimed(q, n)
           after == IF scan.listed = {} THEN q.processing
                    ELSE Append(q.processing, CHOOSE id \in scan.listed : TRUE)
<1>1. /\ IsQueue(q) /\ QueueOK(q) /\ DeadOK(q.dead) /\ Gossiped(q) /\ Waits(q, now)
      /\ q.processing \in Seq(ID) /\ DOMAIN q.index \subseteq ID
      /\ \A id \in DOMAIN q.index : q.index[id] \in Job /\ q.index[id].id = id
  BY DEF Sound, QueueOK, IsQueue, DeadOK
<1>2. /\ scan.late \in Seq(ID) /\ \A id \in ToSet(scan.late) : Late(q, id)
      /\ \A id \in scan.taken : Ready(q, id)
      /\ scan.listed \subseteq scan.taken
      /\ scan.pending \in Seq(ID)
      /\ ToSet(q.pending) \subseteq ToSet(scan.pending) \cup ToSet(scan.late) \cup scan.taken
  BY <1>1, ScanFacts
<1>3. r = [q EXCEPT !.index = [id \in DOMAIN q.index |-> Take(q.index[id], scan.taken, n)],
                    !.pending = scan.pending,
                    !.processing = after,
                    !.dead = DeadLetter(q.dead, scan.late)]
  BY DEF Claimed, Take
<1> HIDE DEF scan, r, after
<1>4. /\ DOMAIN r = DOMAIN q /\ r.shared = q.shared /\ r.outdated = q.outdated
      /\ r.index = [id \in DOMAIN q.index |-> Take(q.index[id], scan.taken, n)]
      /\ r.pending = scan.pending /\ r.processing = after /\ r.dead = DeadLetter(q.dead, scan.late)
  BY <1>1, <1>3 DEF IsQueue, EmptyQueue
<1>5. ASSUME NEW id \in DOMAIN q.index
      PROVE  /\ r.index[id] \in Job /\ r.index[id].id = id
             /\ r.index[id].retries = q.index[id].retries
             /\ r.index[id].maxRetries = q.index[id].maxRetries
             /\ IF id \in scan.taken
                THEN q.index[id].status = "pending" /\ r.index[id].status = "processing"
                ELSE r.index[id] = q.index[id]
  <2>1. q.index[id] \in Job /\ q.index[id].id = id
    BY <1>1
  <2>2. CASE id \in scan.taken
    <3>1. r.index[id] = [q.index[id] EXCEPT !.status = "processing", !.started = now,
                                            !.updatedAt = now, !.node = n]
      <4>1. r.index[id] = Take(q.index[id], scan.taken, n)
        BY <1>4
      <4> QED
        BY <2>1, <2>2, <4>1 DEF Take
    <3>2. q.index[id].status = "pending"
      BY <1>2, <2>2 DEF Ready
    <3> QED
      BY <2>1, <2>2, <3>1, <3>2 DEF Job, Status
  <2>3. CASE id \notin scan.taken
    BY <1>4, <2>1, <2>3 DEF Take
  <2> QED
    BY <2>2, <2>3
<1>6. after \in Seq(ID)
  <2>1. CASE scan.listed = {}
    BY <1>1, <2>1 DEF after
  <2>2. CASE scan.listed # {}
    <3>1. PICK id \in scan.listed : id = CHOOSE i \in scan.listed : TRUE
      BY <2>2
    <3>2. id \in ID
      BY <1>1, <1>2 DEF Ready
    <3> QED
      BY <1>1, <2>2, <3>1, <3>2, ListFacts DEF after
  <2> QED
    BY <2>1, <2>2
<1>7. DeadOK(r.dead) /\ \A id : Buried(q, id) => Buried(r, id)
  BY <1>1, <1>2, <1>4, BuriedFacts
<1>8. QueueOK(r) /\ Gossiped(r)
  <2>1. \A id \in DOMAIN q.index : r.index[id] \in Job /\ r.index[id].id = id
    BY <1>5
  <2>2. /\ DOMAIN r.index = DOMAIN q.index /\ r.pending \in Seq(ID)
        /\ r.processing \in Seq(ID) /\ DeadOK(r.dead)
    BY <1>1, <1>2, <1>4, <1>6, <1>7
  <2>3. DOMAIN r = DOMAIN q /\ r.shared = q.shared /\ r.outdated = q.outdated
    BY <1>4
  <2> QED
    BY <1>1, <2>1, <2>2, <2>3, ChangeFacts
<1>9. Waits(r, now)
  <2>1. ASSUME NEW id \in DOMAIN r.index, r.index[id].status = "pending"
        PROVE  id \in ToSet(r.pending) \/ now > r.index[id].deadlineAt
    <3>1. id \in DOMAIN q.index /\ id \notin scan.taken /\ r.index[id] = q.index[id]
      BY <1>4, <1>5, <2>1
    <3>2. id \in ToSet(q.pending) \/ now > q.index[id].deadlineAt
      BY <1>1, <2>1, <3>1 DEF Waits
    <3>3. id \in ToSet(scan.late) => now > q.index[id].deadlineAt
      BY <1>2 DEF Late, Expired
    <3> QED
      BY <1>2, <1>4, <3>1, <3>2, <3>3
  <2> QED
    BY <2>1 DEF Waits
<1>10. Follows(q, r, n, {})
  BY <1>4, <1>5, <1>7 DEF Follows, Objects
<1> QED
  BY <1>4, <1>5, <1>8, <1>9, <1>10 DEF Sound, scan, r

(* What cleanup does to the jobs it takes back.                             *)
Free(job, ids) == IF job.id \in ids THEN [job EXCEPT !.status = "pending"] ELSE job

(* cleanupExpiredJobs, with no evicted job on a list.                       *)
LEMMA RequeuedFacts ==
  ASSUME NEW q, Sound(q, now), Dangling(q) = {}, NEW n
  PROVE  LET r == Requeued(q)
         IN  /\ Sound(r, now) /\ Follows(q, r, n, {})
             /\ DOMAIN r.index = DOMAIN q.index
             /\ \A id \in DOMAIN q.index :
                  /\ r.index[id].retries = q.index[id].retries
                  /\ r.index[id].maxRetries = q.index[id].maxRetries
                  /\ IF id \in ToSet(q.processing) /\ Stuck(q.index[id])
                     THEN r.index[id].status = "pending"
                     ELSE r.index[id].status = q.index[id].status
<1> DEFINE expired == {id \in ToSet(q.pending) : Expired(q.index[id])}
           stuck == {id \in ToSet(q.processing) : Stuck(q.index[id])}
           kept == Without(q.pending, expired)
           back == Only(q.processing, stuck)
           letters == Only(q.pending, expired)
           s == [q EXCEPT !.index = [id \in DOMAIN q.index |-> Free(q.index[id], stuck)],
                          !.pending = kept \o back,
                          !.processing = Without(q.processing, stuck),
                          !.dead = DeadLetter(q.dead, letters)]
           r == Requeued(q)
<1>1. /\ IsQueue(q) /\ QueueOK(q) /\ DeadOK(q.dead) /\ Gossiped(q) /\ Waits(q, now)
      /\ q.pending \in Seq(ID) /\ q.processing \in Seq(ID) /\ DOMAIN q.index \subseteq ID
      /\ \A id \in DOMAIN q.index : q.index[id] \in Job /\ q.index[id].id = id
  BY DEF Sound, QueueOK, IsQueue, DeadOK
<1>2. r = Sorted(s)
  BY DEF Requeued, Free
<1>3. /\ kept \in Seq(ID) /\ ToSet(kept) = ToSet(q.pending) \ expired
      /\ back \in Seq(ID) /\ ToSet(back) = ToSet(q.processing) \cap stuck
      /\ letters \in Seq(ID)
      /\ Without(q.processing, stuck) \in Seq(ID)
  BY <1>1, OnlyFacts, WithoutFacts
<1>4. kept \o back \in Seq(ID) /\ ToSet(kept \o back) = ToSet(kept) \cup ToSet(back)
  <2> HIDE DEF kept, back, letters
  <2> QED
    BY <1>3, ListFacts
<1>5. stuck \subseteq ToSet(q.processing) /\ stuck \subseteq ID /\ expired \subseteq ID
  <2>1. ToSet(q.pending) \subseteq ID /\ ToSet(q.processing) \subseteq ID
    BY <1>1, ListFacts
  <2> QED
    BY <2>1
<1>6. /\ \A id : id \in stuck <=> id \in ToSet(q.processing) /\ Stuck(q.index[id])
      /\ \A id \in expired : now > q.index[id].deadlineAt
  BY DEF Expired
<1>7. /\ DOMAIN s = DOMAIN q /\ s.shared = q.shared /\ s.outdated = q.outdated
      /\ s.index = [id \in DOMAIN q.index |-> Free(q.index[id], stuck)]
      /\ s.pending = kept \o back /\ s.processing = Without(q.processing, stuck)
      /\ s.dead = DeadLetter(q.dead, letters)
  <2> HIDE DEF stuck, expired, kept, back, letters
  <2> QED
    BY <1>1 DEF IsQueue, EmptyQueue
<1> HIDE DEF stuck, expired, s, r, kept, back, letters
<1>8. DeadOK(s.dead) /\ \A id : Buried(q, id) => Buried(s, id)
  BY <1>1, <1>3, <1>7, BuriedFacts
<1>9. ASSUME NEW id \in DOMAIN q.index
      PROVE  /\ s.index[id] \in Job /\ s.index[id].id = id
             /\ s.index[id].retries = q.index[id].retries
             /\ s.index[id].maxRetries = q.index[id].maxRetries
             /\ IF id \in stuck THEN s.index[id].status = "pending"
                                ELSE s.index[id] = q.index[id]
  <2>1. q.index[id] \in Job /\ q.index[id].id = id
    BY <1>1
  <2>2. CASE id \in stuck
    <3>1. s.index[id] = [q.index[id] EXCEPT !.status = "pending"]
      BY <1>7, <2>1, <2>2 DEF Free
    <3> QED
      BY <2>1, <2>2, <3>1 DEF Job, Status
  <2>3. CASE id \notin stuck
    BY <1>7, <2>1, <2>3 DEF Free
  <2> QED
    BY <2>2, <2>3
<1>10. QueueOK(s) /\ Gossiped(s)
  <2>1. \A id \in DOMAIN q.index : s.index[id] \in Job /\ s.index[id].id = id
    BY <1>9
  <2>2. /\ DOMAIN s.index = DOMAIN q.index /\ s.pending \in Seq(ID)
        /\ s.processing \in Seq(ID) /\ DeadOK(s.dead)
    BY <1>1, <1>3, <1>4, <1>5, <1>7, <1>8
  <2>3. DOMAIN s = DOMAIN q /\ s.shared = q.shared /\ s.outdated = q.outdated
    BY <1>7
  <2> QED
    BY <1>1, <2>1, <2>2, <2>3, ChangeFacts
<1>11. Waits(s, now)
  <2>1. ASSUME NEW id \in DOMAIN s.index, s.index[id].status = "pending"
        PROVE  id \in ToSet(s.pending) \/ now > s.index[id].deadlineAt
    <3>1. CASE id \in stuck
      BY <1>3, <1>4, <1>5, <1>7, <3>1
    <3>2. CASE id \notin stuck
      <4>1. id \in DOMAIN q.index /\ s.index[id] = q.index[id]
        BY <1>7, <1>9, <3>2
      <4>2. id \in ToSet(q.pending) \/ now > q.index[id].deadlineAt
        BY <1>1, <2>1, <4>1 DEF Waits
      <4> QED
        BY <1>3, <1>4, <1>6, <1>7, <4>1, <4>2
    <3> QED
      BY <3>1, <3>2
  <2> QED
    BY <2>1 DEF Waits
<1>12. Sound(s, now)
  BY <1>10, <1>11 DEF Sound
<1>13. Follows(q, s, n, {})
  <2>1. ASSUME NEW job \in Objects(s)
        PROVE  job \in Objects(q) \/ job.status # "failed"
    <3>1. CASE job \in q.outdated
      BY <3>1 DEF Objects
    <3>2. CASE job \notin q.outdated
      <4>1. PICK id \in DOMAIN q.index : job = s.index[id]
        BY <1>7, <2>1, <3>2 DEF Objects
      <4> QED
        BY <1>9, <4>1 DEF Objects
    <3> QED
      BY <3>1, <3>2
  <2>2. \A id : Buried(q, id) => Buried(s, id)
    BY <1>8
  <2> QED
    BY <2>1, <2>2 DEF Follows
<1>14. /\ Sound(r, now) /\ Objects(r) = Objects(s) /\ r.dead = s.dead
  BY <1>2, <1>12, SortedKeepsSound
<1>15. r.index = s.index
  BY <1>2, <1>10, SortedFacts DEF QueueOK
<1>16. Follows(q, r, n, {})
  BY <1>13, <1>14 DEF Follows, Buried
<1>17. DOMAIN r.index = DOMAIN q.index
  BY <1>7, <1>15
<1>18. ASSUME NEW id \in DOMAIN q.index
       PROVE  /\ r.index[id].retries = q.index[id].retries
              /\ r.index[id].maxRetries = q.index[id].maxRetries
              /\ IF id \in ToSet(q.processing) /\ Stuck(q.index[id])
                 THEN r.index[id].status = "pending"
                 ELSE r.index[id].status = q.index[id].status
  BY <1>6, <1>9, <1>15
<1> QED
  BY <1>14, <1>16, <1>17, <1>18 DEF r

(* Eviction takes an ID out of the index and out of the log, or out of      *)
(* neither.                                                                 *)
LEMMA EvictedFacts ==
  ASSUME NEW q, NEW t, Sound(q, t), NEW n
  PROVE  LET r == Evicted(q)
         IN  /\ Sound(r, t) /\ Follows(q, r, n, {})
             /\ DOMAIN r.index \subseteq DOMAIN q.index
             /\ \A id \in DOMAIN r.index : r.index[id] = q.index[id]
<1> DEFINE gone == {job.id : job \in {j \in Log(q) : Evictable(j)}}
           kept == DOMAIN q.index \ gone
           young == {j \in Log(q) : ~Evictable(j)}
           r == Evicted(q)
<1>1. /\ IsQueue(q) /\ QueueOK(q) /\ Gossiped(q) /\ Waits(q, t)
      /\ DOMAIN q.index \subseteq ID /\ q.shared \subseteq DOMAIN q.index /\ IsFiniteSet(q.shared)
      /\ \A id \in DOMAIN q.index : q.index[id] \in Job /\ q.index[id].id = id
  BY DEF Sound, QueueOK, IsQueue, DeadOK
<1>2. Log(q) \subseteq Job /\ Log(q) \subseteq Objects(q) /\ IsFiniteSet(Log(q))
  BY <1>1, LogFacts
<1>3. /\ \A id \in DOMAIN q.index : id \in kept => \A j \in Log(q) : j.id = id => j \in young
      /\ kept \subseteq DOMAIN q.index /\ young \subseteq Log(q)
  OBVIOUS
<1>4. r = [q EXCEPT !.index = Restrict(@, kept), !.shared = @ \cap kept,
                    !.outdated = young \ {q.index[id] : id \in q.shared \cap kept}]
  BY DEF Evicted
<1> HIDE DEF gone, kept, young, r
<1>5. /\ DOMAIN r = DOMAIN q /\ r.index = [id \in kept |-> q.index[id]]
      /\ r.shared = q.shared \cap kept
      /\ r.outdated = young \ {q.index[id] : id \in q.shared \cap kept}
      /\ r.pending = q.pending /\ r.processing = q.processing /\ r.dead = q.dead
  BY <1>1, <1>4 DEF IsQueue, EmptyQueue, Restrict
<1>6. young \subseteq Log(r)
  <2>1. ASSUME NEW j \in young, j \notin r.outdated
        PROVE  j \in Log(r)
    <3>1. PICK id \in q.shared \cap kept : j = q.index[id]
      BY <1>5, <2>1
    <3>2. id \in r.shared /\ r.index[id] = j
      BY <1>5, <3>1
    <3> QED
      BY <3>2 DEF Log
  <2> QED
    BY <2>1 DEF Log
<1>7. IsQueue(r)
  BY <1>1, <1>2, <1>3, <1>5 DEF IsQueue
<1>8. IsFiniteSet(r.shared) /\ IsFiniteSet(r.outdated)
  <2>1. r.shared \subseteq q.shared /\ r.outdated \subseteq Log(q)
    BY <1>3, <1>5
  <2> QED
    BY <1>1, <1>2, <2>1, FS_Subset
<1>9. Waits(r, t)
  BY <1>1, <1>3, <1>5 DEF Waits
<1>10. Gossiped(r)
  <2>1. ASSUME NEW id \in DOMAIN r.index
        PROVE  \E j \in Log(r) : j.id = id
    <3>1. id \in kept /\ id \in DOMAIN q.index
      BY <1>3, <1>5
    <3>2. PICK j \in Log(q) : j.id = id
      BY <1>1, <3>1 DEF Gossiped
    <3> QED
      BY <1>3, <1>6, <3>1, <3>2
  <2> QED
    BY <2>1 DEF Gossiped
<1>11. Objects(r) \subseteq Objects(q)
  BY <1>2, <1>3, <1>5 DEF Objects
<1>12. Follows(q, r, n, {})
  BY <1>5, <1>11 DEF Follows, Buried
<1> QED
  BY <1>3, <1>5, <1>7, <1>8, <1>9, <1>10, <1>12 DEF Sound, QueueOK, r

----------------------------------------------------------------------------
(* One turn of MergeSnapshot's loop, for a version of the peer's log S.     *)
LEMMA AdoptFacts ==
  ASSUME NEW q, NEW t, Sound(q, t), NEW S, NEW peer \in Job, peer \in S, NEW n
  PROVE  Sound(Adopt(q, peer), t) /\ Follows(q, Adopt(q, peer), n, S)
<1> DEFINE known == peer.id \in DOMAIN q.index
           replaced == known /\ peer.id \in q.shared
           old == IF replaced THEN {q.index[peer.id]} ELSE {}
           Listed(list, status) ==
             (IF known THEN RemoveFirst(list, peer.id) ELSE list)
               \o (IF peer.status = status THEN <<peer.id>> ELSE <<>>)
           shared == IF known THEN q.shared \ {peer.id} ELSE q.shared \cup {peer.id}
           r == [WithJob(q, peer) EXCEPT
                   !.shared = shared,
                   !.outdated = q.outdated \cup old,
                   !.pending = Listed(q.pending, "pending"),
                   !.processing = Listed(q.processing, "processing")]
<1>1. CASE known /\ ~Older(q.index[peer.id], peer)
  <2>1. Adopt(q, peer) = q
    BY <1>1 DEF Adopt
  <2> QED
    BY <2>1 DEF Follows
<1>2. CASE ~(known /\ ~Older(q.index[peer.id], peer))
  <2>1. Adopt(q, peer) = r
    <3>1. /\ WithJob(q, peer).shared = q.shared /\ WithJob(q, peer).outdated = q.outdated
          /\ WithJob(q, peer).pending = q.pending /\ WithJob(q, peer).processing = q.processing
      BY DEF WithJob, Sound, QueueOK, IsQueue, EmptyQueue
    <3> QED
      BY <1>2, <3>1 DEF Adopt
  <2>2. /\ IsQueue(q) /\ QueueOK(q) /\ Gossiped(q) /\ DeadOK(q.dead)
        /\ q.pending \in Seq(ID) /\ q.processing \in Seq(ID) /\ peer.id \in ID
        /\ q.shared \subseteq DOMAIN q.index
    BY JobFacts DEF Sound, QueueOK, IsQueue, DeadOK
  <2>3. ASSUME NEW list \in Seq(ID), NEW status
        PROVE  /\ Listed(list, status) \in Seq(ID)
               /\ ToSet(list) \subseteq ToSet(Listed(list, status)) \cup {peer.id}
               /\ peer.status = status => peer.id \in ToSet(Listed(list, status))
    <3> DEFINE front == IF known THEN RemoveFirst(list, peer.id) ELSE list
               back == IF peer.status = status THEN <<peer.id>> ELSE <<>>
    <3>1. front \in Seq(ID) /\ ToSet(list) \subseteq ToSet(front) \cup {peer.id}
      BY RemoveFirstFacts
    <3>2. back \in Seq(ID) /\ (peer.status = status => peer.id \in ToSet(back))
      <4>1. CASE peer.status = status
        <5>1. back = <<peer.id>>
          BY <4>1
        <5> HIDE DEF back
        <5>2. back \in Seq(ID) /\ 1 \in DOMAIN back /\ back[1] = peer.id
          BY <2>2, <5>1
        <5> QED
          BY <5>2 DEF ToSet
      <4>2. CASE peer.status # status
        BY <4>2
      <4> QED
        BY <4>1, <4>2
    <3>3. Listed(list, status) = front \o back
      OBVIOUS
    <3> HIDE DEF front, back, Listed
    <3>4. front \o back \in Seq(ID) /\ ToSet(front \o back) = ToSet(front) \cup ToSet(back)
      BY <3>1, <3>2, ListFacts
    <3> QED
      BY <3>1, <3>2, <3>3, <3>4
  <2> DEFINE pending == Listed(q.pending, "pending")
             processing == Listed(q.processing, "processing")
  <2>4. /\ pending \in Seq(ID) /\ processing \in Seq(ID)
        /\ ToSet(q.pending) \subseteq ToSet(pending) \cup {peer.id}
        /\ peer.status = "pending" => peer.id \in ToSet(pending)
    <3> HIDE DEF Listed
    <3> QED
      BY <2>2, <2>3
  <2>5. r = [WithJob(q, peer) EXCEPT !.shared = shared, !.outdated = q.outdated \cup old,
                                     !.pending = pending, !.processing = processing]
    OBVIOUS
  <2>6. old \subseteq Log(q) /\ q.outdated \subseteq Log(q)
    BY <2>2, LogFacts DEF Log
  <2>7. peer.id \in shared \/ \E j \in q.outdated \cup old : j.id = peer.id
    <3>1. CASE ~known
      BY <3>1
    <3>2. CASE replaced
      BY <2>2, <3>2, LogFacts
    <3>3. CASE known /\ peer.id \notin q.shared
      BY <2>2, <3>3, KnownFacts
    <3> QED
      BY <3>1, <3>2, <3>3
  <2>8. shared \subseteq q.shared \cup {peer.id} /\ q.shared \subseteq shared \cup {peer.id}
    OBVIOUS
  <2> HIDE DEF r, shared, old, pending, processing
  <2>9. /\ Puts(q, r, peer)
        /\ r.shared = shared /\ r.outdated = q.outdated \cup old
        /\ r.pending = pending /\ r.processing = processing /\ r.dead = q.dead
    BY <2>2, <2>5 DEF WithJob, IsQueue, EmptyQueue, Puts
  <2>10. Sound(r, t) /\ Objects(r) \subseteq Objects(q) \cup {peer}
    BY <2>2, <2>4, <2>6, <2>7, <2>8, <2>9, PutFacts
  <2>11. Follows(q, r, n, S)
    BY <2>9, <2>10 DEF Follows, Buried
  <2> QED
    BY <2>1, <2>10, <2>11
<1> QED
  BY <1>1, <1>2

(* The loop: f is the function of the queues after each turn.               *)
Turns(q, log, m, f) ==
  f = [k \in 0 .. m |-> IF k = 0 THEN q ELSE Adopt(f[k - 1], log[k])]

Ends(q, log, m) == \E f : Turns(q, log, m, f)

(* There is such a function, and Adopted is its last value.                 *)
LEMMA AdoptedTurns ==
  ASSUME NEW q, NEW log \in Seq(Job)
  PROVE  \E f : Turns(q, log, Len(log), f) /\ Adopted(q, log) = f[Len(log)]
<1>1. Len(log) \in Nat
  OBVIOUS
<1>2. Ends(q, log, 0)
  <2> DEFINE f == [k \in 0 .. 0 |-> q]
  <2>1. f = [k \in 0 .. 0 |-> IF k = 0 THEN q ELSE Adopt(f[k - 1], log[k])]
    OBVIOUS
  <2> QED
    BY <2>1 DEF Ends, Turns
<1>3. ASSUME NEW m \in Nat, Ends(q, log, m)
      PROVE  Ends(q, log, m + 1)
  <2>1. PICK f : Turns(q, log, m, f)
    BY <1>3 DEF Ends
  <2> DEFINE last == Adopt(f[m], log[m + 1])
             g == [k \in 0 .. m + 1 |-> IF k = m + 1 THEN last ELSE f[k]]
  <2>2. ASSUME NEW k \in 0 .. m + 1
        PROVE  g[k] = IF k = 0 THEN q ELSE Adopt(g[k - 1], log[k])
    <3>1. CASE k = m + 1
      <4>1. g[k] = last /\ k # 0 /\ k - 1 = m /\ g[k - 1] = f[m]
        BY <3>1
      <4> QED
        BY <3>1, <4>1
    <3>2. CASE k # m + 1
      <4>1. k \in 0 .. m /\ g[k] = f[k]
        BY <3>2
      <4>2. f[k] = IF k = 0 THEN q ELSE Adopt(f[k - 1], log[k])
        BY <2>1, <4>1 DEF Turns
      <4>3. k # 0 => g[k - 1] = f[k - 1]
        BY <4>1
      <4> QED
        BY <4>1, <4>2, <4>3
    <3> QED
      BY <3>1, <3>2
  <2>3. g = [k \in 0 .. m + 1 |-> g[k]]
    OBVIOUS
  <2> HIDE DEF g, last
  <2>4. Turns(q, log, m + 1, g)
    BY <2>2, <2>3 DEF Turns
  <2> QED
    BY <2>4 DEF Ends
<1>4. Ends(q, log, Len(log))
  <2> DEFINE T == {m \in Nat : ~Ends(q, log, m)}
  <2>1. T = {}
    <3>1. SUFFICES ASSUME T # {}
                   PROVE  FALSE
      OBVIOUS
    <3>2. PICK m \in T : \A l \in T : m <= l
      BY <3>1, Least
    <3>3. m \in Nat /\ m # 0
      BY <1>2
    <3>4. m - 1 \in Nat /\ m - 1 \notin T
      BY <3>2, <3>3
    <3>5. Ends(q, log, m)
      <4>1. Ends(q, log, m - 1)
        BY <3>4
      <4>2. Ends(q, log, (m - 1) + 1)
        BY <1>3, <3>4, <4>1
      <4>3. (m - 1) + 1 = m
        BY <3>3
      <4> QED
        BY <4>2, <4>3
    <3> QED
      BY <3>5
  <2> QED
    BY <1>1, <2>1
<1> DEFINE merged == CHOOSE f : Turns(q, log, Len(log), f)
<1>5. Turns(q, log, Len(log), merged)
  BY <1>4 DEF Ends
<1>6. Adopted(q, log) = merged[Len(log)]
  BY DEF Adopted, Turns
<1> QED
  BY <1>5, <1>6

(* A whole merge, as a turn of it.                                          *)
LEMMA AdoptedFacts ==
  ASSUME NEW q, NEW t, Sound(q, t), NEW log \in Seq(Job), NEW n
  PROVE  Sound(Adopted(q, log), t) /\ Follows(q, Adopted(q, log), n, ToSet(log))
<1>1. PICK f : Turns(q, log, Len(log), f) /\ Adopted(q, log) = f[Len(log)]
  BY AdoptedTurns
<1> DEFINE Good(k) == Sound(f[k], t) /\ Follows(q, f[k], n, ToSet(log))
           T == {k \in Nat : k <= Len(log) /\ ~Good(k)}
<1>2. Len(log) \in Nat
  OBVIOUS
<1>3. \A k \in 0 .. Len(log) : f[k] = IF k = 0 THEN q ELSE Adopt(f[k - 1], log[k])
  BY <1>1 DEF Turns
<1>4. Good(0)
  <2>1. f[0] = q
    BY <1>2, <1>3
  <2> QED
    BY <2>1 DEF Follows
<1>5. ASSUME NEW k \in 1 .. Len(log), Good(k - 1)
      PROVE  Good(k)
  <2>1. f[k] = Adopt(f[k - 1], log[k])
    BY <1>2, <1>3
  <2>2. log[k] \in Job /\ log[k] \in ToSet(log)
    BY DEF ToSet
  <2>3. Sound(f[k], t) /\ Follows(f[k - 1], f[k], n, ToSet(log))
    BY <1>5, <2>1, <2>2, AdoptFacts
  <2>4. Follows(q, f[k], n, ToSet(log))
    BY <1>5, <2>3 DEF Follows
  <2> QED
    BY <2>3, <2>4
<1> HIDE DEF Good
<1>6. T = {}
  <2>1. SUFFICES ASSUME T # {}
                 PROVE  FALSE
    OBVIOUS
  <2>2. PICK k \in T : \A l \in T : k <= l
    BY <2>1, Least
  <2>3. k \in Nat /\ k <= Len(log) /\ ~Good(k) /\ k # 0
    BY <1>4, <2>2
  <2>4. k \in 1 .. Len(log) /\ k - 1 \in Nat /\ k - 1 <= Len(log) /\ k - 1 \notin T
    BY <1>2, <2>2, <2>3
  <2>5. Good(k - 1)
    BY <2>4
  <2> QED
    BY <1>5, <2>3, <2>4, <2>5
<1>7. Good(Len(log))
  BY <1>2, <1>6
<1> QED
  BY <1>1, <1>7 DEF Good

----------------------------------------------------------------------------
(* The types, with finite logs in flight.                                   *)
Types ==
  /\ now \in Nat
  /\ lamport \in [Node -> Nat]
  /\ up \subseteq Node
  /\ jobs \in Nat /\ sends \in Nat
  /\ \A msg \in msgs : /\ msg.from \in Node /\ msg.to \in Node
                       /\ msg.log \subseteq Job /\ IsFiniteSet(msg.log)
  /\ claims \in [ID -> Nat]
  /\ timeouts \in [ID -> Nat]

(* Every node's queue is sound.                                             *)
Queues ==
  /\ DOMAIN queue = Node
  /\ \A n \in Node : Sound(queue[n], now)

(* No node has stamped more jobs than there are.                            *)
Stamps == \A n \in Node : lamport[n] <= jobs

(* A failed version of a job is at most where its dead letter is: with the  *)
(* node that failed it, or beyond its death.                                *)
DeadLettered(job) ==
  job.status = "failed" /\ job.node \in up => Buried(queue[job.node], job.id)

DeadLetters ==
  /\ \A n \in Node : \A job \in Objects(queue[n]) : DeadLettered(job)
  /\ \A msg \in msgs : \A job \in msg.log : DeadLettered(job)

IInv == Types /\ Queues /\ Stamps /\ DeadLetters

(* The queue of a process that ended.                                       *)
LEMMA EmptyFacts ==
  ASSUME NEW t
  PROVE  Sound(EmptyQueue, t) /\ Objects(EmptyQueue) = {}
<1>1. /\ EmptyQueue.index = <<>> /\ EmptyQueue.shared = {} /\ EmptyQueue.outdated = {}
      /\ EmptyQueue.pending = <<>> /\ EmptyQueue.processing = <<>> /\ EmptyQueue.dead = <<>>
  BY DEF EmptyQueue
<1>2. DOMAIN EmptyQueue.index = {}
  BY <1>1
<1>3. IsQueue(EmptyQueue)
  BY <1>1, <1>2, LimitAssumption DEF IsQueue
<1>4. IsFiniteSet({})
  BY FS_EmptySet
<1> QED
  BY <1>1, <1>2, <1>3, <1>4 DEF Sound, QueueOK, Waits, Gossiped, Objects

(* Empty queues satisfy the invariant.                                      *)
LEMMA InitIInv == Init => IInv
<1> SUFFICES ASSUME Init
             PROVE  IInv
  OBVIOUS
<1>1. Types
  BY DEF Init, Types
<1>2. Queues
  BY EmptyFacts DEF Init, Queues
<1>3. Stamps
  BY DEF Init, Stamps
<1>4. DeadLetters
  BY EmptyFacts DEF Init, DeadLetters
<1> QED
  BY <1>1, <1>2, <1>3, <1>4 DEF IInv

(* A step that leaves the queues alone and takes no time.                   *)
LEMMA QuietStep ==
  ASSUME Queues, DeadLetters, UNCHANGED <<now, queue, up>>,
         \A msg \in msgs' : msg \in msgs \/ \A job \in msg.log : DeadLettered(job)
  PROVE  (Queues /\ DeadLetters)'
<1>1. Queues'
  BY DEF Queues
<1>2. ASSUME NEW job
      PROVE  DeadLettered(job)' <=> DeadLettered(job)
  BY DEF DeadLettered
<1>3. DeadLetters'
  BY <1>2 DEF DeadLetters
<1> QED
  BY <1>1, <1>3

(* A step of a node that replaces its queue by r.                           *)
LEMMA QueueStep ==
  ASSUME Types, Queues, DeadLetters, NEW n \in Node, NEW r, NEW S,
         Sound(r, now), Follows(queue[n], r, n, S), \A job \in S : DeadLettered(job),
         queue' = [queue EXCEPT ![n] = r], UNCHANGED <<now, up>>, msgs' \subseteq msgs
  PROVE  (Queues /\ DeadLetters)'
<1>1. DOMAIN queue' = Node /\ queue'[n] = r /\ \A m \in Node : m # n => queue'[m] = queue[m]
  BY DEF Queues
<1>2. Queues'
  <2>1. \A m \in Node : Sound(queue'[m], now')
    BY <1>1 DEF Queues
  <2> QED
    BY <1>1, <2>1 DEF Queues
<1>3. ASSUME NEW m \in Node
      PROVE  \A id : Buried(queue[m], id) => Buried(queue'[m], id)
  BY <1>1 DEF Follows
<1>4. ASSUME NEW job, DeadLettered(job)
      PROVE  DeadLettered(job)'
  BY <1>3, <1>4 DEF DeadLettered, Types
<1>5. ASSUME NEW job \in Objects(r)
      PROVE  DeadLettered(job)'
  <2>1. CASE job \in Objects(queue[n]) \cup S
    BY <1>4, <2>1 DEF DeadLetters
  <2>2. CASE job.status # "failed"
    BY <2>2 DEF DeadLettered
  <2>3. CASE job.node = n /\ Buried(r, job.id)
    BY <1>1, <2>3 DEF DeadLettered
  <2> QED
    BY <2>1, <2>2, <2>3 DEF Follows
<1>6. ASSUME NEW m \in Node, NEW job \in Objects(queue'[m])
      PROVE  DeadLettered(job)'
  <2>1. CASE m = n
    BY <1>1, <1>5, <2>1
  <2>2. CASE m # n
    BY <1>1, <1>4, <2>2 DEF DeadLetters
  <2> QED
    BY <2>1, <2>2
<1>7. ASSUME NEW msg \in msgs', NEW job \in msg.log
      PROVE  DeadLettered(job)'
  BY <1>4 DEF DeadLetters
<1>8. DeadLetters'
  BY <1>6, <1>7 DEF DeadLetters
<1> QED
  BY <1>2, <1>8

(* ... and is given no versions.                                            *)
LEMMA OwnStep ==
  ASSUME Types, Queues, DeadLetters, NEW n \in Node, NEW r,
         Sound(r, now), Follows(queue[n], r, n, {}),
         queue' = [queue EXCEPT ![n] = r], UNCHANGED <<now, up>>, msgs' \subseteq msgs
  PROVE  (Queues /\ DeadLetters)'
<1>1. PICK S : S = {}
  OBVIOUS
<1>2. Follows(queue[n], r, n, S) /\ \A job \in S : DeadLettered(job)
  BY <1>1
<1> QED
  BY <1>2, QueueStep

(* A process that ends takes its queue with it.                             *)
LEMMA DiesStep ==
  ASSUME Types, Queues, DeadLetters, NEW n \in Node, Dies(n), now' = now, msgs' \subseteq msgs
  PROVE  (Queues /\ DeadLetters)' /\ up' \subseteq Node
<1>1. /\ DOMAIN queue' = Node /\ queue'[n] = EmptyQueue
      /\ \A m \in Node : m # n => queue'[m] = queue[m]
      /\ up' = up \ {n} /\ up \subseteq Node
  BY DEF Queues, Dies, Types
<1>2. Queues'
  <2>1. \A m \in Node : Sound(queue'[m], now')
    BY <1>1, EmptyFacts DEF Queues
  <2> QED
    BY <1>1, <2>1 DEF Queues
<1>3. ASSUME NEW job, DeadLettered(job)
      PROVE  DeadLettered(job)'
  <2>1. CASE job.node = n
    BY <1>1, <2>1 DEF DeadLettered
  <2>2. CASE job.node # n
    BY <1>1, <1>3, <2>2 DEF DeadLettered
  <2> QED
    BY <2>1, <2>2
<1>4. ASSUME NEW m \in Node, NEW job \in Objects(queue'[m])
      PROVE  DeadLettered(job)'
  <2>1. m # n
    BY <1>1, EmptyFacts
  <2> QED
    BY <1>1, <1>3, <2>1 DEF DeadLetters
<1>5. ASSUME NEW msg \in msgs', NEW job \in msg.log
      PROVE  DeadLettered(job)'
  BY <1>3 DEF DeadLetters
<1>6. DeadLetters'
  BY <1>4, <1>5 DEF DeadLetters
<1> QED
  BY <1>1, <1>2, <1>6

(* Jobs only come nearer to their deadlines.                                *)
LEMMA TickKeepsIInv == IInv /\ Tick => IInv'
<1> SUFFICES ASSUME IInv, Tick
             PROVE  IInv'
  OBVIOUS
<1>1. now \in Nat /\ now' = now + 1 /\ UNCHANGED <<lamport, queue, up, msgs, jobs, sends, claims, timeouts>>
  BY DEF Tick, bounded, history, IInv, Types
<1>2. Types'
  BY <1>1 DEF IInv, Types
<1>3. Queues'
  <2>1. ASSUME NEW n \in Node
        PROVE  Sound(queue[n], now + 1)
    <3>1. Sound(queue[n], now)
      BY DEF IInv, Queues
    <3>2. \A id \in DOMAIN queue[n].index : queue[n].index[id].deadlineAt \in Nat
      BY <3>1, JobFacts DEF Sound, QueueOK, IsQueue, DeadOK
    <3>3. Waits(queue[n], now + 1)
      BY <1>1, <3>1, <3>2 DEF Sound, Waits
    <3> QED
      BY <3>1, <3>3 DEF Sound
  <2> QED
    BY <1>1, <2>1 DEF IInv, Queues
<1>4. Stamps'
  BY <1>1 DEF IInv, Stamps
<1>5. DeadLetters'
  BY <1>1 DEF IInv, DeadLetters, DeadLettered
<1> QED
  BY <1>2, <1>3, <1>4, <1>5 DEF IInv

(* A new stamp is within the bound of stamps.                               *)
LEMMA EnqueueKeepsIInv ==
  ASSUME IInv, NEW n \in Node, NEW p \in Priorities, NEW mr \in Retries, NEW d \in Deadlines,
         NEW s \in Suffix, Enqueue(n, p, mr, d, s)
  PROVE  IInv'
<1>1. PICK ts : ts = lamport[n] + 1
  OBVIOUS
<1>2. PICK job : job = [id |-> <<ts, s>>, status |-> "pending", priority |-> p,
                        timestamp |-> ts, retries |-> 0, maxRetries |-> mr,
                        updatedAt |-> now, node |-> n, deadlineAt |-> now + d,
                        started |-> 0]
  OBVIOUS
<1>3. /\ jobs < MaxJobs /\ jobs' = jobs + 1 /\ lamport' = [lamport EXCEPT ![n] = ts]
      /\ queue' = [queue EXCEPT ![n] = Enqueued(@, job)]
      /\ UNCHANGED <<now, up, msgs, sends, claims, timeouts>>
  BY <1>1, <1>2 DEF Enqueue, history
<1>4. ts \in 1 .. MaxJobs
  BY <1>1, <1>3, BoundsAssumption DEF IInv, Types, Stamps
<1>5. job \in Job /\ job.status = "pending"
  <2>1. <<ts, s>> \in ID
    BY <1>4 DEF ID
  <2>2. now + d \in Nat /\ now \in Nat /\ p \in Nat /\ ts \in Nat
    BY <1>4, SetsAssumption DEF IInv, Types
  <2> QED
    BY <1>2, <2>1, <2>2 DEF Job, Status
<1>6. PICK r : r = Enqueued(queue[n], job)
  OBVIOUS
<1>7. Sound(r, now) /\ Follows(queue[n], r, n, {})
  BY <1>5, <1>6, EnqueuedFacts DEF IInv, Queues
<1>8. (Queues /\ DeadLetters)'
  <2>1. queue' = [queue EXCEPT ![n] = r] /\ UNCHANGED <<now, up>> /\ msgs' \subseteq msgs
    BY <1>3, <1>6 DEF IInv, Queues
  <2> QED
    BY <1>7, <2>1, OwnStep DEF IInv
<1>9. Types' /\ Stamps'
  BY <1>1, <1>3, <1>4 DEF IInv, Types, Stamps
<1> QED
  BY <1>8, <1>9 DEF IInv

(* A claim counts the jobs it takes.                                        *)
LEMMA ClaimKeepsIInv ==
  ASSUME IInv, NEW n \in Node, Claim(n)
  PROVE  IInv'
<1>1. PICK r : r = Claimed(queue[n], n)
  OBVIOUS
<1>2. /\ queue' = [queue EXCEPT ![n] = r] /\ n \in up
      /\ claims' = [id \in ID |-> IF id \in Scan(queue[n]).taken THEN claims[id] + 1
                                                                 ELSE claims[id]]
      /\ UNCHANGED <<now, lamport, up, msgs, jobs, sends, timeouts>>
  BY <1>1 DEF Claim, bounded, IInv, Queues
<1>3. Sound(r, now) /\ Follows(queue[n], r, n, {})
  BY <1>1, ClaimedFacts DEF IInv, Queues, Types
<1>4. (Queues /\ DeadLetters)'
  BY <1>2, <1>3, OwnStep DEF IInv
<1>5. Types' /\ Stamps'
  BY <1>2 DEF IInv, Types, Stamps
<1> QED
  BY <1>4, <1>5 DEF IInv

(* A job that completes needs no place in a list.                           *)
LEMMA MarkCompleteKeepsIInv ==
  ASSUME IInv, NEW n \in Node, NEW id \in ID, MarkComplete(n, id)
  PROVE  IInv'
<1>1. PICK r : r = Completed(queue[n], queue[n].index[id], n)
  OBVIOUS
<1>2. id \in DOMAIN queue[n].index /\ queue[n].index[id].id = id
  BY DEF MarkComplete, IInv, Queues, Sound, QueueOK, IsQueue
<1>3. /\ queue' = [queue EXCEPT ![n] = r]
      /\ UNCHANGED <<now, lamport, up, msgs, jobs, sends, claims, timeouts>>
  BY <1>1, <1>2 DEF MarkComplete, Completed, bounded, history
<1>4. Sound(r, now) /\ Follows(queue[n], r, n, {})
  BY <1>1, <1>2, CompletedFacts DEF IInv, Queues, Types
<1>5. (Queues /\ DeadLetters)'
  BY <1>3, <1>4, OwnStep DEF IInv
<1>6. Types' /\ Stamps'
  BY <1>3 DEF IInv, Types, Stamps
<1> QED
  BY <1>5, <1>6 DEF IInv

(* A report puts the job back, or its ID among the dead letters.            *)
LEMMA MarkFailedKeepsIInv ==
  ASSUME IInv, NEW n \in Node, NEW id \in ID, MarkFailed(n, id)
  PROVE  IInv'
<1>1. PICK r : r = Failed(queue[n], n, queue[n].index[id])
  OBVIOUS
<1>2. /\ id \in DOMAIN queue[n].index
      /\ queue' = [queue EXCEPT ![n] = r]
      /\ UNCHANGED <<now, lamport, up, msgs, jobs, sends, claims, timeouts>>
  BY <1>1 DEF MarkFailed, bounded, history, IInv, Queues
<1>3. Sound(r, now) /\ Follows(queue[n], r, n, {})
  BY <1>1, <1>2, FailedFacts DEF IInv, Queues, Types
<1>4. (Queues /\ DeadLetters)'
  BY <1>2, <1>3, OwnStep DEF IInv
<1>5. Types' /\ Stamps'
  BY <1>2 DEF IInv, Types, Stamps
<1> QED
  BY <1>4, <1>5 DEF IInv

(* Cleanup, or the panic it ends in.                                        *)
LEMMA CleanupKeepsIInv ==
  ASSUME IInv, NEW n \in Node, Cleanup(n)
  PROVE  IInv'
<1>1. UNCHANGED <<now, lamport, msgs, jobs, sends, claims>>
  BY DEF Cleanup, bounded
<1>2. CASE Dangling(queue[n]) = {}
  <2>1. PICK q : q = Requeued(queue[n])
    OBVIOUS
  <2>2. PICK r : r = Evicted(q)
    OBVIOUS
  <2>3. /\ queue' = [queue EXCEPT ![n] = r] /\ up' = up
        /\ timeouts' = [id \in ID |->
             IF id \in ToSet(queue[n].processing) /\ Stuck(queue[n].index[id])
             THEN timeouts[id] + 1 ELSE timeouts[id]]
    BY <1>2, <2>1, <2>2 DEF Cleanup, IInv, Queues
  <2>4. Sound(q, now) /\ Follows(queue[n], q, n, {})
    BY <1>2, <2>1, RequeuedFacts DEF IInv, Queues
  <2>5. Sound(r, now) /\ Follows(q, r, n, {})
    BY <2>2, <2>4, EvictedFacts
  <2>6. Follows(queue[n], r, n, {})
    BY <2>4, <2>5 DEF Follows
  <2>7. (Queues /\ DeadLetters)'
    BY <1>1, <2>3, <2>5, <2>6, OwnStep DEF IInv
  <2>8. Types' /\ Stamps'
    BY <1>1, <2>3 DEF IInv, Types, Stamps
  <2> QED
    BY <2>7, <2>8 DEF IInv
<1>3. CASE Dangling(queue[n]) # {}
  <2>1. Dies(n) /\ UNCHANGED timeouts
    BY <1>3 DEF Cleanup
  <2>2. (Queues /\ DeadLetters)' /\ up' \subseteq Node
    BY <1>1, <2>1, DiesStep DEF IInv
  <2>3. Types' /\ Stamps'
    BY <1>1, <2>1, <2>2 DEF IInv, Types, Stamps
  <2> QED
    BY <2>2, <2>3 DEF IInv
<1> QED
  BY <1>2, <1>3

(* What is sent is what the node's log holds.                               *)
LEMMA SendKeepsIInv ==
  ASSUME IInv, NEW m \in Node, NEW n \in Node, Send(m, n)
  PROVE  IInv'
<1>1. /\ msgs' = msgs \cup {[from |-> m, to |-> n, log |-> Log(queue[m])]} /\ sends' = sends + 1
      /\ UNCHANGED <<now, lamport, queue, up, jobs, claims, timeouts>>
  BY DEF Send, history
<1>2. /\ Log(queue[m]) \subseteq Job /\ IsFiniteSet(Log(queue[m]))
      /\ Log(queue[m]) \subseteq Objects(queue[m])
  BY LogFacts DEF IInv, Queues, Sound
<1>3. (Queues /\ DeadLetters)'
  <2>1. \A job \in Log(queue[m]) : DeadLettered(job)
    BY <1>2 DEF IInv, DeadLetters
  <2>2. \A msg \in msgs' : msg \in msgs \/ \A job \in msg.log : DeadLettered(job)
    BY <1>1, <2>1
  <2>3. UNCHANGED <<now, queue, up>>
    BY <1>1
  <2> QED
    BY <2>2, <2>3, QuietStep DEF IInv
<1>4. Types' /\ Stamps'
  BY <1>1, <1>2 DEF IInv, Types, Stamps
<1> QED
  BY <1>3, <1>4 DEF IInv

(* A merge, in whatever order the log comes.                                *)
LEMMA DeliverKeepsIInv ==
  ASSUME IInv, NEW m \in Node, NEW n \in Node, Deliver(m, n)
  PROVE  IInv'
<1>1. PICK msg \in msgs : \E log \in SetToSeqs(msg.log) :
        /\ msgs' = msgs \ {msg}
        /\ LET q == Adopted(queue[n], log)
           IN  \/ queue' = [queue EXCEPT ![n] = Sorted(q)] /\ UNCHANGED up
               \/ SortPanics(q) /\ Dies(n)
  BY DEF Deliver
<1>2. PICK log \in SetToSeqs(msg.log) :
        /\ msgs' = msgs \ {msg}
        /\ LET q == Adopted(queue[n], log)
           IN  \/ queue' = [queue EXCEPT ![n] = Sorted(q)] /\ UNCHANGED up
               \/ SortPanics(q) /\ Dies(n)
  BY <1>1
<1>3. UNCHANGED <<now, lamport, jobs, sends, claims, timeouts>>
  BY DEF Deliver, bounded, history
<1>4. log \in Seq(Job) /\ ToSet(log) \subseteq msg.log
  <2>1. msg.log \subseteq Job /\ Cardinality(msg.log) \in Nat
    BY FS_CardinalityType DEF IInv, Types
  <2>2. log \in [1 .. Cardinality(msg.log) -> msg.log]
    BY DEF SetToSeqs
  <2>3. log \in Seq(Job)
    BY <2>1, <2>2
  <2> QED
    BY <2>2, <2>3 DEF ToSet
<1>5. CASE queue' = [queue EXCEPT ![n] = Sorted(Adopted(queue[n], log))] /\ UNCHANGED up
  <2>1. PICK q : q = Adopted(queue[n], log)
    OBVIOUS
  <2>2. PICK r : r = Sorted(q)
    OBVIOUS
  <2>3. Sound(q, now) /\ Follows(queue[n], q, n, ToSet(log))
    BY <1>4, <2>1, AdoptedFacts DEF IInv, Queues
  <2>4. Sound(r, now) /\ Objects(r) = Objects(q) /\ r.dead = q.dead
    BY <2>2, <2>3, SortedKeepsSound
  <2>5. Follows(queue[n], r, n, ToSet(log))
    BY <2>3, <2>4 DEF Follows, Buried
  <2>6. \A job \in ToSet(log) : DeadLettered(job)
    BY <1>4 DEF IInv, DeadLetters
  <2>7. (Queues /\ DeadLetters)'
    <3>1. /\ queue' = [queue EXCEPT ![n] = r] /\ UNCHANGED <<now, up>>
          /\ msgs' \subseteq msgs
      BY <1>2, <1>3, <1>5, <2>1, <2>2
    <3> QED
      BY <2>4, <2>5, <2>6, <3>1, QueueStep DEF IInv
  <2>8. Types' /\ Stamps'
    BY <1>2, <1>3, <1>5 DEF IInv, Types, Stamps
  <2> QED
    BY <2>7, <2>8 DEF IInv
<1>6. CASE Dies(n)
  <2>1. (Queues /\ DeadLetters)' /\ up' \subseteq Node
    BY <1>2, <1>3, <1>6, DiesStep DEF IInv
  <2>2. Types' /\ Stamps'
    BY <1>2, <1>3, <2>1 DEF IInv, Types, Stamps
  <2> QED
    BY <2>1, <2>2 DEF IInv
<1> QED
  BY <1>2, <1>5, <1>6

(* A lost log is one copy less.                                             *)
LEMMA LoseKeepsIInv ==
  ASSUME IInv, NEW msg \in msgs, Lose(msg)
  PROVE  IInv'
<1>1. /\ msgs' \subseteq msgs
      /\ UNCHANGED <<now, lamport, queue, up, jobs, sends, claims, timeouts>>
  BY DEF Lose, bounded, history
<1>2. (Queues /\ DeadLetters)'
  BY <1>1, QuietStep DEF IInv
<1>3. Types' /\ Stamps'
  BY <1>1 DEF IInv, Types, Stamps
<1> QED
  BY <1>2, <1>3 DEF IInv

(* Every step keeps the invariant.                                          *)
LEMMA NextKeepsIInv == IInv /\ [Next]_vars => IInv'
<1> SUFFICES ASSUME IInv, [Next]_vars
             PROVE  IInv'
  OBVIOUS
<1>1. ASSUME NEW n \in Node,
             \/ \E p \in Priorities, r \in Retries, d \in Deadlines, s \in Suffix :
                  Enqueue(n, p, r, d, s)
             \/ Claim(n)
             \/ \E id \in ID : MarkComplete(n, id) \/ MarkFailed(n, id)
             \/ Cleanup(n)
      PROVE  IInv'
  BY <1>1, EnqueueKeepsIInv, ClaimKeepsIInv, MarkCompleteKeepsIInv, MarkFailedKeepsIInv,
     CleanupKeepsIInv
<1>2. ASSUME NEW m \in Node, NEW n \in Node, Send(m, n) \/ Deliver(m, n)
      PROVE  IInv'
  BY <1>2, SendKeepsIInv, DeliverKeepsIInv
<1>3. CASE UNCHANGED vars
  <2>1. UNCHANGED <<now, lamport, queue, up, msgs, jobs, sends, claims, timeouts>>
    BY <1>3 DEF vars, bounded, history
  <2>2. (Queues /\ DeadLetters)'
    BY <2>1, QuietStep DEF IInv
  <2>3. Types' /\ Stamps'
    BY <2>1 DEF IInv, Types, Stamps
  <2> QED
    BY <2>2, <2>3 DEF IInv
<1> QED
  BY <1>1, <1>2, <1>3, TickKeepsIInv, LoseKeepsIInv DEF Next

(* Every reachable state satisfies the invariant.                           *)
THEOREM Invariance == Spec => []IInv
<1>1. Init => IInv
  BY InitIInv
<1>2. IInv /\ [Next]_vars => IInv'
  BY NextKeepsIInv
<1> QED
  BY <1>1, <1>2, PTL DEF Spec

(* Queues keep their types, through the in-place loop, eviction and merges: *)
(* what the log shares with the index is in the index.                      *)
THEOREM TypeCorrect == Spec => []TypeOK
<1>1. IInv => TypeOK
  BY DEF IInv, Types, Queues, Sound, QueueOK, TypeOK
<1> QED
  BY <1>1, Invariance, PTL

(* No waiting job is forgotten: a pending job is on the list GetNextJob     *)
(* reads, or has expired.                                                   *)
THEOREM WaitingIsQueued == Spec => []PendingIsQueued
<1>1. IInv => PendingIsQueued
  BY DEF IInv, Queues, Sound, Waits, PendingIsQueued, Expired
<1> QED
  BY <1>1, Invariance, PTL

(* What any node knows as failed is among the dead letters of the node that *)
(* failed it, as long as that process lives.                                *)
THEOREM FailuresAreKept == Spec => []FailedIsDeadLettered
<1>1. ASSUME IInv
      PROVE  FailedIsDeadLettered
  <2>1. ASSUME NEW n \in Node, NEW id \in DOMAIN queue[n].index
        PROVE  DeadLettered(queue[n].index[id]) /\ queue[n].index[id].id = id
    BY <1>1 DEF IInv, Queues, DeadLetters, Objects, Sound, QueueOK, IsQueue
  <2> QED
    BY <2>1 DEF FailedIsDeadLettered, DeadLettered
<1> QED
  BY <1>1, Invariance, PTL

(* A node gossips some version of every job it knows.                       *)
THEOREM LogsKeepAll == Spec => []KnownIsGossiped
<1>1. IInv => KnownIsGossiped
  BY DEF IInv, Queues, Sound, Gossiped, KnownIsGossiped
<1> QED
  BY <1>1, Invariance, PTL

----------------------------------------------------------------------------
(* One node alone.  Reports of failure use up what max_retries allows: a    *)
(* pending job was given out at most once for each of them, any other job   *)
(* at most once more; and once more for each time it was taken back.        *)
Allowed(job) == IF job.maxRetries = 0 THEN 1 ELSE job.maxRetries

Spent(job) == IF job.retries < Allowed(job) THEN job.retries ELSE Allowed(job) - 1

Within(job, given, back) ==
  given <= Spent(job) + (IF job.status = "pending" THEN 0 ELSE 1) + back

Attempts ==
  /\ msgs = {}
  /\ \A n \in Node :
       /\ \A id \in DOMAIN queue[n].index :
            /\ id[1] <= lamport[n]
            /\ Within(queue[n].index[id], claims[id], timeouts[id])
       /\ \A id \in ID : id[1] > lamport[n] => claims[id] = 0

(* What is spent is below what is allowed.                                  *)
LEMMA SpentFacts ==
  ASSUME NEW job \in Job
  PROVE  /\ Allowed(job) \in Nat \ {0}
         /\ Spent(job) \in Nat /\ Spent(job) < Allowed(job)
<1>1. job.maxRetries \in Nat /\ job.retries \in Nat
  BY JobFacts, SetsAssumption
<1> QED
  BY <1>1 DEF Allowed, Spent

(* Same reports, same limit: the same allowance.                            *)
LEMMA SameSpent ==
  ASSUME NEW old, NEW job, job.retries = old.retries, job.maxRetries = old.maxRetries
  PROVE  Spent(job) = Spent(old)
BY DEF Spent, Allowed

(* Each step pays for the attempt it makes.                                 *)
LEMMA AttemptsStep ==
  ASSUME NEW here, Node = {here}, IInv, Attempts, Next
  PROVE  Attempts'
<1> DEFINE q == queue[here]
<1>1. /\ Sound(q, now) /\ DOMAIN queue = Node /\ here \in Node /\ now \in Nat
      /\ lamport[here] \in Nat /\ lamport \in [Node -> Nat]
      /\ claims \in [ID -> Nat] /\ timeouts \in [ID -> Nat]
      /\ DOMAIN q.index \subseteq ID
      /\ \A id \in DOMAIN q.index : q.index[id] \in Job /\ q.index[id].id = id
      /\ \A id \in ID : id[1] \in Nat
  BY DEF IInv, Queues, Types, Sound, QueueOK, IsQueue, ID
<1>2. /\ msgs = {}
      /\ \A id \in DOMAIN q.index : /\ id[1] <= lamport[here]
                                    /\ Within(q.index[id], claims[id], timeouts[id])
      /\ \A id \in ID : id[1] > lamport[here] => claims[id] = 0
  BY <1>1 DEF Attempts
<1>3. ASSUME msgs' = {},
             \A id \in DOMAIN queue'[here].index :
               /\ id[1] <= lamport'[here]
               /\ Within(queue'[here].index[id], claims'[id], timeouts'[id]),
             \A id \in ID : id[1] > lamport'[here] => claims'[id] = 0
      PROVE  Attempts'
  BY <1>3 DEF Attempts
<1>4. CASE Tick
  <2>1. UNCHANGED <<lamport, queue, msgs, claims, timeouts>>
    BY <1>4 DEF Tick, history
  <2> QED
    BY <1>2, <1>3, <2>1
<1>5. ASSUME NEW p \in Priorities, NEW mr \in Retries, NEW d \in Deadlines, NEW s \in Suffix,
             Enqueue(here, p, mr, d, s)
      PROVE  Attempts'
  <2>1. PICK ts : ts = lamport[here] + 1
    OBVIOUS
  <2>2. PICK job : job = [id |-> <<ts, s>>, status |-> "pending", priority |-> p,
                          timestamp |-> ts, retries |-> 0, maxRetries |-> mr,
                          updatedAt |-> now, node |-> here, deadlineAt |-> now + d,
                          started |-> 0]
    OBVIOUS
  <2>3. /\ jobs < MaxJobs /\ lamport' = [lamport EXCEPT ![here] = ts]
        /\ queue' = [queue EXCEPT ![here] = Enqueued(@, job)]
        /\ UNCHANGED <<msgs, claims, timeouts>>
    BY <1>5, <2>1, <2>2 DEF Enqueue, history
  <2>4. ts \in 1 .. MaxJobs
    BY <1>1, <2>1, <2>3, BoundsAssumption DEF IInv, Types, Stamps
  <2>5. /\ job \in Job /\ job.status = "pending" /\ job.id = <<ts, s>> /\ job.id[1] = ts
        /\ job.id \in ID
    <3>1. <<ts, s>> \in ID
      BY <2>4 DEF ID
    <3>2. now + d \in Nat /\ p \in Nat /\ ts \in Nat
      BY <1>1, <2>4, SetsAssumption
    <3> QED
      BY <1>1, <2>2, <3>1, <3>2 DEF Job, Status
  <2>6. PICK r : r = Enqueued(q, job)
    OBVIOUS
  <2>7. Puts(q, r, job)
    BY <1>1, <2>5, <2>6, EnqueuedFacts
  <2>8. queue'[here] = r /\ lamport'[here] = ts
    BY <1>1, <2>3, <2>6
  <2>9. claims[job.id] = 0
    BY <1>1, <1>2, <2>1, <2>5
  <2>10. Within(job, claims[job.id], timeouts[job.id])
    <3>1. Spent(job) \in Nat /\ timeouts[job.id] \in Nat
      BY <1>1, <2>5, SpentFacts
    <3> QED
      BY <2>5, <2>9, <3>1 DEF Within
  <2>11. ASSUME NEW id \in DOMAIN r.index
         PROVE  id[1] <= ts /\ Within(r.index[id], claims[id], timeouts[id])
    <3>1. CASE id = job.id
      BY <2>4, <2>5, <2>7, <2>10, <3>1 DEF Puts
    <3>2. CASE id # job.id
      <4>1. id \in DOMAIN q.index /\ r.index[id] = q.index[id]
        BY <2>7, <3>2 DEF Puts
      <4> QED
        BY <1>1, <1>2, <2>1, <4>1
    <3> QED
      BY <3>1, <3>2
  <2>12. \A id \in ID : id[1] > ts => claims[id] = 0
    BY <1>1, <1>2, <2>1
  <2> QED
    BY <1>2, <1>3, <2>3, <2>8, <2>11, <2>12
<1>6. CASE Claim(here)
  <2>1. PICK r : r = Claimed(q, here)
    OBVIOUS
  <2>2. PICK taken : taken = Scan(q).taken
    OBVIOUS
  <2>3. /\ queue'[here] = r
        /\ claims' = [id \in ID |-> IF id \in taken THEN claims[id] + 1 ELSE claims[id]]
        /\ UNCHANGED <<lamport, msgs, timeouts>>
    BY <1>1, <1>6, <2>1, <2>2 DEF Claim
  <2>4. /\ DOMAIN r.index = DOMAIN q.index
        /\ \A id \in DOMAIN q.index :
             /\ r.index[id].retries = q.index[id].retries
             /\ r.index[id].maxRetries = q.index[id].maxRetries
             /\ IF id \in taken
                THEN q.index[id].status = "pending" /\ r.index[id].status = "processing"
                ELSE r.index[id].status = q.index[id].status
    BY <1>1, <2>1, <2>2, ClaimedFacts
  <2>5. taken \subseteq DOMAIN q.index
    BY <1>1, <2>2, ScanFacts DEF Ready, Sound, QueueOK
  <2>6. ASSUME NEW id \in DOMAIN q.index
        PROVE  Within(r.index[id], claims'[id], timeouts[id])
    <3>1. /\ Spent(r.index[id]) = Spent(q.index[id]) /\ Spent(q.index[id]) \in Nat
          /\ claims[id] \in Nat /\ timeouts[id] \in Nat
      BY <1>1, <2>4, SpentFacts, SameSpent
    <3>2. Within(q.index[id], claims[id], timeouts[id])
      BY <1>2
    <3>3. CASE id \in taken
      <4>1. claims'[id] = claims[id] + 1
        BY <1>1, <2>3, <3>3
      <4> QED
        BY <2>4, <3>1, <3>2, <3>3, <4>1 DEF Within
    <3>4. CASE id \notin taken
      <4>1. claims'[id] = claims[id]
        BY <1>1, <2>3, <3>4
      <4> QED
        BY <2>4, <3>1, <3>2, <3>4, <4>1 DEF Within
    <3> QED
      BY <3>3, <3>4
  <2>7. ASSUME NEW id \in ID, id[1] > lamport[here]
        PROVE  claims'[id] = 0
    <3>1. id \notin taken
      BY <1>1, <1>2, <2>5, <2>7
    <3> QED
      BY <1>2, <2>3, <2>7, <3>1
  <2> QED
    BY <1>2, <1>3, <2>3, <2>4, <2>6, <2>7
<1>7. ASSUME NEW id \in ID, MarkComplete(here, id)
      PROVE  Attempts'
  <2>1. /\ id \in DOMAIN q.index /\ q.index[id].status = "processing"
        /\ UNCHANGED <<lamport, msgs, claims, timeouts>>
    BY <1>7 DEF MarkComplete, history
  <2>2. PICK r : r = Completed(q, q.index[id], here)
    OBVIOUS
  <2>4. queue'[here] = r
    BY <1>1, <1>7, <2>1, <2>2 DEF MarkComplete, Completed
  <2>5. PICK job \in Job :
          /\ Puts(q, r, job) /\ job.id = id /\ job.status = "completed"
          /\ job.retries = q.index[id].retries /\ job.maxRetries = q.index[id].maxRetries
    BY <1>1, <2>1, <2>2, CompletedFacts
  <2>7. Within(job, claims[id], timeouts[id])
    <3>1. Spent(job) = Spent(q.index[id]) /\ Within(q.index[id], claims[id], timeouts[id])
      BY <1>2, <2>1, <2>5, SameSpent
    <3> QED
      BY <2>1, <2>5, <3>1 DEF Within
  <2>8. \A i \in DOMAIN r.index : i[1] <= lamport[here]
                                  /\ Within(r.index[i], claims[i], timeouts[i])
    BY <1>2, <2>1, <2>5, <2>7 DEF Puts
  <2> QED
    BY <1>2, <1>3, <2>1, <2>4, <2>8
<1>8. ASSUME NEW id \in ID, MarkFailed(here, id)
      PROVE  Attempts'
  <2>1. id \in DOMAIN q.index /\ UNCHANGED <<lamport, msgs, claims, timeouts>>
    BY <1>8 DEF MarkFailed, history
  <2>2. PICK r : r = Failed(q, here, q.index[id])
    OBVIOUS
  <2>3. queue'[here] = r
    BY <1>1, <1>8, <2>2 DEF MarkFailed
  <2>4. PICK job \in Job :
          /\ Puts(q, r, job) /\ job.id = id
          /\ job.retries = q.index[id].retries + 1
          /\ job.maxRetries = q.index[id].maxRetries
          /\ job.status = IF job.retries >= job.maxRetries THEN "failed" ELSE "pending"
    BY <1>1, <2>1, <2>2, FailedFacts
  <2>5. Within(job, claims[id], timeouts[id])
    <3>1. /\ job.retries \in Nat /\ job.maxRetries \in Nat /\ q.index[id].retries \in Nat
          /\ claims[id] \in Nat /\ timeouts[id] \in Nat
      BY <1>1, <2>1, JobFacts, SetsAssumption
    <3>2. Allowed(job) = Allowed(q.index[id])
      BY <2>4 DEF Allowed
    <3>3. Within(q.index[id], claims[id], timeouts[id])
      BY <1>2, <2>1
    <3>4. Spent(q.index[id]) \in Nat /\ Spent(job) \in Nat /\ Allowed(job) \in Nat \ {0}
      BY <1>1, <2>1, <2>4, SpentFacts
    <3>5. claims[id] <= Spent(q.index[id]) + 1 + timeouts[id]
      BY <3>1, <3>3, <3>4 DEF Within
    <3>6. CASE job.retries >= job.maxRetries
      <4>1. job.status = "failed" /\ Spent(job) >= Spent(q.index[id])
        BY <2>4, <3>1, <3>2, <3>4, <3>6 DEF Spent
      <4> QED
        BY <3>1, <3>4, <3>5, <4>1 DEF Within
    <3>7. CASE ~(job.retries >= job.maxRetries)
      <4>1. Allowed(job) = job.maxRetries
        BY <3>1, <3>7 DEF Allowed
      <4>2. /\ job.status = "pending" /\ Spent(job) = job.retries
            /\ Spent(q.index[id]) = q.index[id].retries
        BY <2>4, <3>1, <3>2, <3>7, <4>1 DEF Spent
      <4> QED
        BY <2>4, <3>1, <3>5, <4>2 DEF Within
    <3> QED
      BY <3>6, <3>7
  <2>6. \A i \in DOMAIN r.index : i[1] <= lamport[here]
                                  /\ Within(r.index[i], claims[i], timeouts[i])
    BY <1>2, <2>1, <2>4, <2>5 DEF Puts
  <2> QED
    BY <1>2, <1>3, <2>1, <2>3, <2>6
<1>9. CASE Cleanup(here)
  <2>1. UNCHANGED <<lamport, msgs, claims>>
    BY <1>9 DEF Cleanup
  <2>2. CASE Dangling(q) = {}
    <3>1. PICK s : s = Requeued(q)
      OBVIOUS
    <3>2. PICK r : r = Evicted(s)
      OBVIOUS
    <3>3. PICK back : back = {id \in ID : id \in ToSet(q.processing) /\ Stuck(q.index[id])}
      OBVIOUS
    <3>4. /\ queue'[here] = r
          /\ timeouts' = [id \in ID |-> IF id \in back THEN timeouts[id] + 1 ELSE timeouts[id]]
      BY <1>1, <1>9, <2>2, <3>1, <3>2, <3>3 DEF Cleanup
    <3>5. /\ Sound(s, now) /\ DOMAIN s.index = DOMAIN q.index
          /\ \A id \in DOMAIN q.index :
               /\ s.index[id].retries = q.index[id].retries
               /\ s.index[id].maxRetries = q.index[id].maxRetries
               /\ IF id \in ToSet(q.processing) /\ Stuck(q.index[id])
                  THEN s.index[id].status = "pending"
                  ELSE s.index[id].status = q.index[id].status
      BY <1>1, <2>2, <3>1, RequeuedFacts
    <3>6. DOMAIN r.index \subseteq DOMAIN s.index /\ \A id \in DOMAIN r.index : r.index[id] = s.index[id]
      BY <3>2, <3>5, EvictedFacts
    <3>7. ASSUME NEW id \in DOMAIN q.index
          PROVE  Within(s.index[id], claims[id], timeouts'[id])
      <4>1. /\ Spent(s.index[id]) = Spent(q.index[id]) /\ Spent(q.index[id]) \in Nat
            /\ claims[id] \in Nat /\ timeouts[id] \in Nat /\ id \in ID
        BY <1>1, <3>5, SpentFacts, SameSpent
      <4>2. Within(q.index[id], claims[id], timeouts[id])
        BY <1>2
      <4>3. CASE id \in back
        <5>1. timeouts'[id] = timeouts[id] + 1 /\ s.index[id].status = "pending"
          BY <3>3, <3>4, <3>5, <4>1, <4>3
        <5> QED
          BY <4>1, <4>2, <5>1 DEF Within
      <4>4. CASE id \notin back
        <5>1. timeouts'[id] = timeouts[id] /\ s.index[id].status = q.index[id].status
          BY <3>3, <3>4, <3>5, <4>1, <4>4
        <5> QED
          BY <4>1, <4>2, <5>1 DEF Within
      <4> QED
        BY <4>3, <4>4
    <3>8. \A id \in DOMAIN r.index : id[1] <= lamport[here]
                                     /\ Within(r.index[id], claims[id], timeouts'[id])
      BY <1>2, <3>5, <3>6, <3>7
    <3> QED
      BY <1>2, <1>3, <2>1, <3>4, <3>8
  <2>3. CASE Dangling(q) # {}
    <3>1. queue'[here] = EmptyQueue
      BY <1>1, <1>9, <2>3 DEF Cleanup, Dies
    <3>2. DOMAIN EmptyQueue.index = {}
      BY DEF EmptyQueue
    <3> QED
      BY <1>2, <1>3, <2>1, <3>1, <3>2
  <2> QED
    BY <2>2, <2>3
<1>10. ASSUME NEW m \in Node, NEW n \in Node, Send(m, n) \/ Deliver(m, n)
       PROVE  FALSE
  BY <1>2, <1>10 DEF Send, Deliver
<1>11. ASSUME NEW n \in Node,
              \/ \E p \in Priorities, r \in Retries, d \in Deadlines, s \in Suffix :
                   Enqueue(n, p, r, d, s)
              \/ Claim(n)
              \/ \E id \in ID : MarkComplete(n, id) \/ MarkFailed(n, id)
              \/ Cleanup(n)
       PROVE  Attempts'
  <2>1. n = here
    OBVIOUS
  <2> QED
    BY <1>5, <1>6, <1>7, <1>8, <1>9, <1>11, <2>1
<1> QED
  BY <1>2, <1>4, <1>10, <1>11 DEF Next

(* On one node nobody is given a job more often than max_retries allows     *)
(* plus the times it was taken back.                                        *)
THEOREM AttemptsAreBounded ==
  ASSUME NEW here, Node = {here}
  PROVE  Spec => []AttemptsBounded
<1>1. Init => Attempts
  BY EmptyFacts DEF Init, Attempts, EmptyQueue
<1>2. IInv /\ Attempts /\ [Next]_vars => Attempts'
  <2>1. ASSUME IInv, Attempts, UNCHANGED vars
        PROVE  Attempts'
    BY <2>1 DEF Attempts, vars, history
  <2> QED
    BY <2>1, AttemptsStep
<1>3. ASSUME IInv, Attempts
      PROVE  AttemptsBounded
  <2>1. ASSUME NEW n \in Node, NEW id \in DOMAIN queue[n].index
        PROVE  claims[id] <= Allowed(queue[n].index[id]) + timeouts[id]
    <3>1. queue[n].index[id] \in Job /\ id \in ID
      BY <1>3 DEF IInv, Queues, Sound, QueueOK, IsQueue
    <3>2. claims[id] \in Nat /\ timeouts[id] \in Nat
      BY <1>3, <3>1 DEF IInv, Types
    <3>3. Within(queue[n].index[id], claims[id], timeouts[id])
      BY <1>3 DEF Attempts
    <3> QED
      BY <3>1, <3>2, <3>3, SpentFacts DEF Within
  <2> QED
    BY <2>1 DEF AttemptsBounded, Allowed
<1> QED
  BY <1>1, <1>2, <1>3, Invariance, PTL DEF Spec

=============================================================================
