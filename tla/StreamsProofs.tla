---------------------------- MODULE StreamsProofs ----------------------------
(***************************************************************************)
(* Proofs about replicated streams and their consumer groups, for any      *)
(* number of nodes, consumers, requests and entries, and any limits.       *)
(*                                                                         *)
(* First what the list operators return.  Filtering and sorting are        *)
(* defined by ranks, so both rest on RankFacts; MergedFacts says of a      *)
(* merge all that is used of it, that it keeps the newest entries.         *)
(*                                                                         *)
(* Then an inductive invariant: no entry is in a log twice, as its node    *)
(* has passed its stamp and number, so what XAdd adds is nothing that was  *)
(* given before (Stamps); a read in progress owes the consumer what it     *)
(* will return (Pended, InOrder).                                          *)
(***************************************************************************)
EXTENDS Streams, FiniteSetTheorems, TLAPS

(* In a finite set S with a strict total order, where below[x] are the     *)
(* elements before x, the number of those is a rank: it respects the order *)
(* and takes every value under the size of S once.                         *)
LEMMA RankFacts ==
  ASSUME NEW S, IsFiniteSet(S), NEW below \in [S -> SUBSET S],
         \A x \in S : x \notin below[x],
         \A x, y \in S : y \in below[x] => below[y] \subseteq below[x],
         \A x, y \in S : x # y => x \in below[y] \/ y \in below[x]
  PROVE  /\ Cardinality(S) \in Nat
         /\ \A x \in S : Cardinality(below[x]) \in 0 .. Cardinality(S) - 1
         /\ \A x, y \in S : x \in below[y] <=> Cardinality(below[x]) < Cardinality(below[y])
         /\ \A x, y \in S : Cardinality(below[x]) = Cardinality(below[y]) => x = y
         /\ \A k \in 0 .. Cardinality(S) - 1 : \E x \in S : Cardinality(below[x]) = k
<1> DEFINE rank == [x \in S |-> Cardinality(below[x])]
           Ranks == 0 .. Cardinality(S) - 1
<1>1. \A x \in S : IsFiniteSet(below[x]) /\ Cardinality(below[x]) \in Nat
  BY FS_Subset, FS_CardinalityType
<1>2. Cardinality(S) \in Nat
  BY FS_CardinalityType
<1>3. \A x \in S : rank[x] = Cardinality(below[x]) /\ rank[x] \in Nat
  BY <1>1
<1> HIDE DEF rank
<1>4. ASSUME NEW x \in S, NEW T, IsFiniteSet(T), below[x] \subseteq T, x \in T
      PROVE  rank[x] < Cardinality(T)
  <2>1. below[x] \in SUBSET T
    BY <1>4
  <2>2. Cardinality(below[x]) <= Cardinality(T)
    BY <1>4, <2>1, FS_Subset
  <2>3. Cardinality(below[x]) # Cardinality(T)
    BY <1>4, <2>1, FS_Subset
  <2>4. Cardinality(T) \in Nat
    BY <1>4, FS_CardinalityType
  <2> QED
    BY <1>3, <2>2, <2>3, <2>4
<1>5. \A x \in S : rank[x] < Cardinality(S)
  BY <1>4
<1>6. \A x, y \in S : x \in below[y] => rank[x] < rank[y]
  BY <1>1, <1>3, <1>4
<1>7. \A x, y \in S : x \in below[y] <=> rank[x] < rank[y]
  <2>1. SUFFICES ASSUME NEW x \in S, NEW y \in S, rank[x] < rank[y], x \notin below[y]
                 PROVE  FALSE
    BY <1>6
  <2>2. x # y
    BY <1>3, <2>1
  <2>3. rank[y] < rank[x]
    BY <1>6, <2>1, <2>2
  <2> QED
    BY <1>3, <2>1, <2>3
<1>8. \A x, y \in S : rank[x] = rank[y] => x = y
  <2>1. SUFFICES ASSUME NEW x \in S, NEW y \in S, rank[x] = rank[y], x # y
                 PROVE  FALSE
    OBVIOUS
  <2>2. rank[x] < rank[y] \/ rank[y] < rank[x]
    BY <1>6, <2>1
  <2> QED
    BY <1>3, <2>1, <2>2
<1>9. IsFiniteSet(Ranks) /\ Cardinality(Ranks) = Cardinality(S)
  <2>1. 0 \in Int /\ Cardinality(S) - 1 \in Int
    BY <1>2
  <2> QED
    BY <1>2, <2>1, FS_Interval
<1>10. rank \in [S -> Ranks]
  BY <1>2, <1>3, <1>5 DEF rank
<1>11. rank \in Injection(S, Ranks)
  BY <1>8, <1>10 DEF Injection, IsInjective
<1>12. rank \in Surjection(S, Ranks)
  BY <1>9, <1>11, FS_Injection
<1>13. \A k \in Ranks : \E x \in S : rank[x] = k
  BY <1>12 DEF Surjection
<1> QED
  BY <1>2, <1>3, <1>7, <1>8, <1>10, <1>13

(* What Picked returns: the elements at the positions, in their order.     *)
LEMMA PickedFacts ==
  ASSUME NEW X, NEW list \in Seq(X), NEW I \in SUBSET DOMAIN list
  PROVE  LET out == Picked(list, I)
         IN  /\ IsFiniteSet(I) /\ Cardinality(I) <= Len(list)
             /\ out \in Seq(X) /\ Len(out) = Cardinality(I)
             /\ ToSet(out) = {list[i] : i \in I}
             /\ \E at \in [1 .. Len(out) -> I] :
                  /\ \A k \in 1 .. Len(out) : out[k] = list[at[k]]
                  /\ \A k, l \in 1 .. Len(out) : k < l => at[k] < at[l]
                  /\ \A i \in I : \E k \in 1 .. Len(out) : at[k] = i
<1> DEFINE below == [x \in I |-> {j \in I : j < x}]
           c == Cardinality(I)
           at == [k \in 1 .. c |-> CHOOSE i \in I : Cardinality({j \in I : j < i}) = k - 1]
<1>1. DOMAIN list = 1 .. Len(list) /\ Len(list) \in Nat /\ I \subseteq Nat
  OBVIOUS
<1>2. IsFiniteSet(I) /\ c <= Len(list)
  <2>1. IsFiniteSet(1 .. Len(list)) /\ Cardinality(1 .. Len(list)) = Len(list)
    <3> DEFINE n == Len(list)
    <3>1. 1 \in Int /\ n \in Int /\ n \in Nat
      BY <1>1
    <3> HIDE DEF n
    <3>2. IsFiniteSet(1 .. n) /\ Cardinality(1 .. n) = IF 1 > n THEN 0 ELSE n - 1 + 1
      BY <3>1, FS_Interval
    <3> QED
      BY <3>1, <3>2 DEF n
  <2> QED
    BY <1>1, <2>1, FS_Subset
<1>3. below \in [I -> SUBSET I] /\ \A x, y \in I : x \in below[y] <=> x < y
  OBVIOUS
<1>4. \A x \in I : Cardinality(below[x]) = Cardinality({j \in I : j < x})
  OBVIOUS
<1> HIDE DEF below
<1>5. /\ c \in Nat
      /\ \A x \in I : Cardinality(below[x]) \in 0 .. c - 1
      /\ \A x, y \in I : x \in below[y] <=> Cardinality(below[x]) < Cardinality(below[y])
      /\ \A x, y \in I : Cardinality(below[x]) = Cardinality(below[y]) => x = y
      /\ \A k \in 0 .. c - 1 : \E x \in I : Cardinality(below[x]) = k
  <2>1. \A x \in I : x \notin below[x]
    BY <1>1, <1>3
  <2>2. \A x, y \in I : y \in below[x] => below[y] \subseteq below[x]
    BY <1>1, <1>3
  <2>3. \A x, y \in I : x # y => x \in below[y] \/ y \in below[x]
    BY <1>1, <1>3
  <2> QED
    BY <1>2, <1>3, <2>1, <2>2, <2>3, RankFacts
<1>6. \A k \in 1 .. c : at[k] \in I /\ Cardinality(below[at[k]]) = k - 1
  <2>1. TAKE k \in 1 .. c
  <2> k - 1 \in 0 .. c - 1
    BY <1>5
  <2>2. PICK x \in I : Cardinality(below[x]) = k - 1
    BY <1>5
  <2>3. \E i \in I : Cardinality({j \in I : j < i}) = k - 1
    BY <1>4, <2>2
  <2>4. at[k] \in I /\ Cardinality({j \in I : j < at[k]}) = k - 1
    BY <2>3
  <2> QED
    BY <1>4, <2>4
<1>7. at \in [1 .. c -> I]
  BY <1>6
<1>8. Picked(list, I) = [k \in 1 .. c |-> list[at[k]]]
  BY DEF Picked
<1> HIDE DEF at
<1>9. \A k, l \in 1 .. c : k < l => at[k] < at[l]
  BY <1>3, <1>5, <1>6
<1>10. \A i \in I : \E k \in 1 .. c : at[k] = i
  <2>1. TAKE i \in I
  <2>2. Cardinality(below[i]) \in 0 .. c - 1
    BY <1>5
  <2>3. Cardinality(below[i]) + 1 \in 1 .. c
    BY <1>5, <2>2
  <2>4. Cardinality(below[at[Cardinality(below[i]) + 1]]) = Cardinality(below[i])
    BY <1>6, <2>2, <2>3
  <2> QED
    BY <1>5, <1>6, <2>3, <2>4
<1> DEFINE out == Picked(list, I)
<1>11. out \in Seq(X) /\ Len(out) = c
  <2>1. \A k \in 1 .. c : list[at[k]] \in X
    BY <1>1, <1>7
  <2>2. c \in Nat /\ out = [k \in 1 .. c |-> list[at[k]]]
    BY <1>5, <1>8
  <2> HIDE DEF out, c
  <2> QED
    BY <2>1, <2>2
<1>12. ToSet(out) = {list[i] : i \in I}
  <2>1. DOMAIN out = 1 .. c /\ \A k \in 1 .. c : out[k] = list[at[k]]
    BY <1>8
  <2> HIDE DEF out
  <2>2. ToSet(out) = {out[k] : k \in 1 .. c}
    BY <2>1 DEF ToSet
  <2> QED
    BY <1>7, <1>10, <2>1, <2>2
<1>13. \A k \in 1 .. c : out[k] = list[at[k]]
  BY <1>8
<1> HIDE DEF out
<1>14. \E a \in [1 .. Len(out) -> I] :
         /\ \A k \in 1 .. Len(out) : out[k] = list[a[k]]
         /\ \A k, l \in 1 .. Len(out) : k < l => a[k] < a[l]
         /\ \A i \in I : \E k \in 1 .. Len(out) : a[k] = i
  <2> HIDE DEF c
  <2>1. Len(out) = c
    BY <1>11
  <2>2. at \in [1 .. Len(out) -> I]
    BY <1>7, <2>1
  <2>3. \A k \in 1 .. Len(out) : out[k] = list[at[k]]
    BY <1>13, <2>1
  <2>4. /\ \A k, l \in 1 .. Len(out) : k < l => at[k] < at[l]
        /\ \A i \in I : \E k \in 1 .. Len(out) : at[k] = i
    BY <1>9, <1>10, <2>1
  <2> QED
    BY <2>2, <2>3, <2>4
<1> QED
  BY <1>2, <1>11, <1>12, <1>14 DEF out

(* No element is in a list twice.                                          *)
Distinct(list) == \A i, j \in DOMAIN list : list[i] = list[j] => i = j

(* A list with no repetition is as long as its set of elements is large.   *)
LEMMA DistinctFacts ==
  ASSUME NEW X, NEW list \in Seq(X), Distinct(list)
  PROVE  IsFiniteSet(ToSet(list)) /\ Cardinality(ToSet(list)) = Len(list)
<1>1. Len(list) \in Nat /\ DOMAIN list = 1 .. Len(list)
  OBVIOUS
<1>2. ToSet(list) = {list[i] : i \in 1 .. Len(list)}
  BY <1>1 DEF ToSet
<1>3. list \in [1 .. Len(list) -> ToSet(list)]
  BY <1>1, <1>2
<1>4. list \in Surjection(1 .. Len(list), ToSet(list))
  BY <1>2, <1>3 DEF Surjection
<1>5. list \in Injection(1 .. Len(list), ToSet(list))
  BY <1>1, <1>3 DEF Distinct, Injection, IsInjective
<1>6. IsFiniteSet(1 .. Len(list)) /\ Cardinality(1 .. Len(list)) = Len(list)
  BY <1>1, FS_Interval
<1> QED
  BY <1>4, <1>5, <1>6, FS_Surjection

(* An ID names one entry.                                                  *)
LEMMA EntryFacts ==
  /\ \A e \in Entry : e.ts \in Nat /\ e.seq \in Nat \ {0} /\ e.node \in Node
  /\ \A e, f \in Entry : ID(e) = ID(f) => e = f
<1>1. \A e \in Entry : e = [ts |-> e.ts, seq |-> e.seq, node |-> e.node]
  BY DEF Entry
<1> QED
  BY <1>1 DEF Entry, ID

(* Precedes is a strict total order of entries, later stamps last.         *)
LEMMA PrecedesFacts ==
  /\ \A e \in Entry : ~Precedes(e, e)
  /\ \A e, f, g \in Entry : Precedes(e, f) /\ Precedes(f, g) => Precedes(e, g)
  /\ \A e, f \in Entry : e # f => Precedes(e, f) \/ Precedes(f, e)
  /\ \A e, f \in Entry : Precedes(e, f) => e.ts <= f.ts
<1>1. \A e \in Entry : e.ts \in Nat /\ e.seq \in Nat /\ e.node \in Nat
  BY EntryFacts, StreamsAssumption
<1>2. \A e, f \in Entry : e # f => e.ts # f.ts \/ e.seq # f.seq \/ e.node # f.node
  BY EntryFacts DEF ID
<1>3. \A e \in Entry : ~Precedes(e, e)
  BY <1>1 DEF Precedes
<1>4. \A e, f, g \in Entry : Precedes(e, f) /\ Precedes(f, g) => Precedes(e, g)
  BY <1>1 DEF Precedes
<1>5. \A e, f \in Entry : e # f => Precedes(e, f) \/ Precedes(f, e)
  BY <1>1, <1>2 DEF Precedes
<1>6. \A e, f \in Entry : Precedes(e, f) => e.ts <= f.ts
  BY <1>1 DEF Precedes
<1> QED
  BY <1>3, <1>4, <1>5, <1>6

(* What Sorted returns: the entries, each once, in order.                  *)
LEMMA SortedFacts ==
  ASSUME NEW S \in SUBSET Entry, IsFiniteSet(S)
  PROVE  LET out == Sorted(S)
         IN  /\ out \in Seq(Entry) /\ Distinct(out) /\ ToSet(out) = S
             /\ \A k, l \in DOMAIN out : k < l => Precedes(out[k], out[l])
<1> DEFINE below == [e \in S |-> {f \in S : Precedes(f, e)}]
           c == Cardinality(S)
           out == Sorted(S)
<1>1. below \in [S -> SUBSET S] /\ \A e, f \in S : f \in below[e] <=> Precedes(f, e)
  OBVIOUS
<1>2. \A e \in S : Cardinality(below[e]) = Cardinality({f \in S : Precedes(f, e)})
  OBVIOUS
<1> HIDE DEF below
<1>3. /\ c \in Nat
      /\ \A e \in S : Cardinality(below[e]) \in 0 .. c - 1
      /\ \A e, f \in S : e \in below[f] <=> Cardinality(below[e]) < Cardinality(below[f])
      /\ \A e, f \in S : Cardinality(below[e]) = Cardinality(below[f]) => e = f
      /\ \A k \in 0 .. c - 1 : \E e \in S : Cardinality(below[e]) = k
  <2>1. \A e \in S : e \notin below[e]
    BY <1>1, PrecedesFacts
  <2>2. \A e, f \in S : f \in below[e] => below[f] \subseteq below[e]
    <3>1. \A e, f, g \in S : Precedes(g, f) /\ Precedes(f, e) => Precedes(g, e)
      BY PrecedesFacts
    <3> QED
      BY <1>1, <3>1
  <2>3. \A e, f \in S : e # f => e \in below[f] \/ f \in below[e]
    BY <1>1, PrecedesFacts
  <2> QED
    BY <1>1, <2>1, <2>2, <2>3, RankFacts
<1>4. DOMAIN out = 1 .. c
  BY DEF Sorted
<1>5. \A k \in 1 .. c : out[k] \in S /\ Cardinality(below[out[k]]) = k - 1
  <2>1. TAKE k \in 1 .. c
  <2> k - 1 \in 0 .. c - 1
    BY <1>3
  <2>2. PICK x \in S : Cardinality(below[x]) = k - 1
    BY <1>3
  <2>3. \E e \in S : Cardinality({f \in S : Precedes(f, e)}) = k - 1
    BY <1>2, <2>2
  <2>4. out[k] = CHOOSE e \in S : Cardinality({f \in S : Precedes(f, e)}) = k - 1
    BY DEF Sorted
  <2>5. out[k] \in S /\ Cardinality({f \in S : Precedes(f, out[k])}) = k - 1
    BY <2>3, <2>4
  <2> QED
    BY <1>2, <2>5
<1>6. out \in Seq(Entry)
  <2> DEFINE pick(k) == CHOOSE e \in S : Cardinality({f \in S : Precedes(f, e)}) = k - 1
  <2>1. out = [k \in 1 .. c |-> pick(k)]
    BY DEF Sorted
  <2> HIDE DEF pick, out, c
  <2>2. \A k \in 1 .. c : pick(k) \in Entry
    BY <1>5, <2>1
  <2> QED
    BY <1>3, <2>1, <2>2
<1> HIDE DEF out
<1>7. Distinct(out)
  BY <1>3, <1>4, <1>5 DEF Distinct
<1>8. \A k, l \in 1 .. c : k < l => Precedes(out[k], out[l])
  BY <1>1, <1>3, <1>5
<1>9. ToSet(out) = S
  <2>1. ToSet(out) \subseteq S
    BY <1>4, <1>5 DEF ToSet
  <2>2. ASSUME NEW e \in S
        PROVE  e \in ToSet(out)
    <3>1. Cardinality(below[e]) + 1 \in 1 .. c
      BY <1>3
    <3>2. Cardinality(below[out[Cardinality(below[e]) + 1]]) = Cardinality(below[e])
      BY <1>3, <1>5, <3>1
    <3>3. out[Cardinality(below[e]) + 1] = e
      BY <1>3, <1>5, <3>1, <3>2
    <3> QED
      BY <1>4, <3>1, <3>3 DEF ToSet
  <2> QED
    BY <2>1, <2>2
<1> QED
  BY <1>4, <1>6, <1>7, <1>8, <1>9 DEF out

(* What Newest returns: the list without d elements at its front.          *)
LEMMA NewestFacts ==
  ASSUME NEW X, NEW list \in Seq(X)
  PROVE  LET out == Newest(list)
             d   == Len(list) - Len(out)
         IN  /\ out \in Seq(X) /\ Len(out) <= MaxEntries /\ d \in Nat
             /\ \A k \in 1 .. Len(out) : k + d \in 1 .. Len(list) /\ out[k] = list[k + d]
             /\ d # 0 => Len(out) = MaxEntries
<1>1. MaxEntries \in Nat \ {0}
  BY StreamsAssumption
<1>2. CASE Len(list) <= MaxEntries
  BY <1>1, <1>2 DEF Newest
<1>3. CASE ~(Len(list) <= MaxEntries)
  <2>1. Newest(list) = SubSeq(list, Len(list) - MaxEntries + 1, Len(list))
    BY <1>3 DEF Newest
  <2>2. Newest(list) \in Seq(X) /\ Len(Newest(list)) = MaxEntries
    BY <1>1, <1>3, <2>1
  <2>3. \A k \in 1 .. MaxEntries : Newest(list)[k] = list[k + (Len(list) - MaxEntries)]
    BY <1>1, <1>3, <2>1
  <2> QED
    BY <1>1, <1>3, <2>2, <2>3
<1> QED
  BY <1>2, <1>3

(* Whether out keeps entries of the list in their order, at the positions  *)
(* at, none too old; when one that is not too old is left out, MaxEntries  *)
(* are kept and all are after it.                                          *)
Retained(out, list, t) ==
  \E at \in [1 .. Len(out) -> DOMAIN list] :
    /\ \A k \in 1 .. Len(out) : out[k] = list[at[k]] /\ t <= list[at[k]].ts + MaxAge
    /\ \A k, l \in 1 .. Len(out) : k < l => at[k] < at[l]
    /\ \A i \in DOMAIN list :
         \/ t > list[i].ts + MaxAge
         \/ \E k \in 1 .. Len(out) : at[k] = i
         \/ Len(out) = MaxEntries /\ \A k \in 1 .. Len(out) : i < at[k]

(* What applyRetention returns.                                            *)
LEMMA RetentionFacts ==
  ASSUME NEW list \in Seq(Entry), Distinct(list), NEW t \in Nat
  PROVE  LET out == applyRetention(list, t)
         IN  /\ out \in Seq(Entry) /\ Distinct(out) /\ Len(out) <= MaxEntries
             /\ Retained(out, list, t)
<1> DEFINE I == {i \in DOMAIN list : t <= list[i].ts + MaxAge}
           young == Picked(list, I)
           out == Newest(young)
           d == Len(young) - Len(out)
<1>1. /\ young \in Seq(Entry)
      /\ \E at \in [1 .. Len(young) -> I] :
           /\ \A k \in 1 .. Len(young) : young[k] = list[at[k]]
           /\ \A k, l \in 1 .. Len(young) : k < l => at[k] < at[l]
           /\ \A i \in I : \E k \in 1 .. Len(young) : at[k] = i
  <2>1. I \in SUBSET DOMAIN list
    OBVIOUS
  <2> HIDE DEF I
  <2> QED
    BY <2>1, PickedFacts
<1>2. PICK at \in [1 .. Len(young) -> I] :
           /\ \A k \in 1 .. Len(young) : young[k] = list[at[k]]
           /\ \A k, l \in 1 .. Len(young) : k < l => at[k] < at[l]
           /\ \A i \in I : \E k \in 1 .. Len(young) : at[k] = i
  BY <1>1
<1>3. /\ out \in Seq(Entry) /\ Len(out) <= MaxEntries /\ d \in Nat
      /\ \A k \in 1 .. Len(out) : k + d \in 1 .. Len(young) /\ out[k] = young[k + d]
      /\ d # 0 => Len(out) = MaxEntries
  BY <1>1, NewestFacts
<1>4. applyRetention(list, t) = out
  BY DEF applyRetention, Young
<1>5. /\ DOMAIN list = 1 .. Len(list) /\ Len(list) \in Nat
      /\ DOMAIN out = 1 .. Len(out) /\ Len(out) \in Nat /\ Len(young) \in Nat
  BY <1>1, <1>3
<1>6. /\ I \subseteq DOMAIN list
      /\ \A i \in I : t <= list[i].ts + MaxAge
      /\ \A i \in DOMAIN list \ I : t > list[i].ts + MaxAge
  <2>1. \A i \in DOMAIN list : list[i].ts \in Nat
    BY EntryFacts
  <2> QED
    BY <2>1, StreamsAssumption
<1> HIDE DEF out, young, I, d
<1> DEFINE back == [k \in 1 .. Len(out) |-> at[k + d]]
<1>7. back \in [1 .. Len(out) -> DOMAIN list]
  BY <1>2, <1>3, <1>6
<1>8. \A k \in 1 .. Len(out) : out[k] = list[back[k]] /\ t <= list[back[k]].ts + MaxAge
  BY <1>2, <1>3, <1>6
<1>9. \A k, l \in 1 .. Len(out) : k < l => back[k] < back[l]
  <2>1. SUFFICES ASSUME NEW k \in 1 .. Len(out), NEW l \in 1 .. Len(out), k < l
                 PROVE  at[k + d] < at[l + d]
    OBVIOUS
  <2>2. k + d < l + d
    BY <1>3, <1>5, <2>1
  <2> QED
    BY <1>2, <1>3, <2>2
<1>10. ASSUME NEW i \in DOMAIN list
       PROVE  \/ t > list[i].ts + MaxAge
              \/ \E k \in 1 .. Len(out) : back[k] = i
              \/ Len(out) = MaxEntries /\ \A k \in 1 .. Len(out) : i < back[k]
  <2>1. CASE i \notin I
    BY <1>6, <2>1
  <2>2. CASE i \in I
    <3>1. PICK m \in 1 .. Len(young) : at[m] = i
      BY <1>2, <2>2
    <3>2. CASE m <= d
      <4>1. d # 0
        BY <1>3, <3>2
      <4>2. \A k \in 1 .. Len(out) : m < k + d
        BY <1>3, <1>5, <3>2
      <4>3. \A k \in 1 .. Len(out) : i < back[k]
        BY <1>2, <1>3, <3>1, <4>2
      <4> QED
        BY <1>3, <4>1, <4>3
    <3>3. CASE d < m
      <4>1. m - d \in 1 .. Len(out) /\ (m - d) + d = m
        BY <1>3, <1>5, <3>3 DEF d
      <4>2. back[m - d] = i
        BY <3>1, <4>1
      <4> QED
        BY <4>1, <4>2
    <3> QED
      BY <1>3, <3>2, <3>3
  <2> QED
    BY <2>1, <2>2
<1> HIDE DEF back
<1>11. Distinct(out)
  <2>1. SUFFICES ASSUME NEW k \in 1 .. Len(out), NEW l \in 1 .. Len(out), out[k] = out[l], k # l
                 PROVE  FALSE
    BY <1>5 DEF Distinct
  <2>2. back[k] = back[l]
    <3>1. back[k] \in DOMAIN list /\ back[l] \in DOMAIN list
      BY <1>7
    <3>2. list[back[k]] = list[back[l]]
      BY <1>8, <2>1
    <3> QED
      BY <3>1, <3>2 DEF Distinct
  <2>3. back[k] < back[l] \/ back[l] < back[k]
    BY <1>5, <1>9, <2>1
  <2> QED
    BY <1>5, <1>7, <2>2, <2>3
<1>12. Retained(out, list, t)
  BY <1>7, <1>8, <1>9, <1>10 DEF Retained
<1> QED
  BY <1>3, <1>4, <1>11, <1>12

(* Whether out has, in order, the newest entries of a set, none too old:   *)
(* when one that is not too old is left out, MaxEntries newer ones are in. *)
Chosen(out, S, t) ==
  /\ \A e \in ToSet(out) : t <= e.ts + MaxAge
  /\ \A k, l \in DOMAIN out : k < l => Precedes(out[k], out[l])
  /\ \A e \in S \ ToSet(out) :
       \/ t > e.ts + MaxAge
       \/ Len(out) = MaxEntries /\ \A f \in ToSet(out) : Precedes(e, f)

(* What a merge returns.  When the peer had something new: of all that is  *)
(* in either log and is not too old, the newest, in order.                 *)
LEMMA MergedFacts ==
  ASSUME NEW mine \in Seq(Entry), Distinct(mine), Len(mine) <= MaxEntries,
         NEW peer \in Seq(Entry), Distinct(peer), NEW t \in Nat
  PROVE  LET out == Merged(mine, peer, t)
             all == ToSet(mine) \cup ToSet(peer)
         IN  /\ out \in Seq(Entry) /\ Distinct(out) /\ Len(out) <= MaxEntries
             /\ ToSet(out) \subseteq all
             /\ ToSet(peer) \subseteq ToSet(mine) => out = mine
             /\ ~(ToSet(peer) \subseteq ToSet(mine)) => Chosen(out, all, t)
<1> DEFINE new == {e \in ToSet(peer) : \A f \in ToSet(mine) : ID(f) # ID(e)}
           all == ToSet(mine) \cup ToSet(peer)
           out == Merged(mine, peer, t)
<1>1. ToSet(mine) \subseteq Entry /\ ToSet(peer) \subseteq Entry
  BY DEF ToSet
<1>2. new = ToSet(peer) \ ToSet(mine)
  BY <1>1, EntryFacts
<1>3. ToSet(mine) \cup new = all
  BY <1>2
<1>4. out = IF new = {} THEN mine ELSE applyRetention(Sorted(ToSet(mine) \cup new), t)
  BY DEF Merged
<1>5. all \in SUBSET Entry /\ IsFiniteSet(all)
  <2>1. IsFiniteSet(ToSet(mine)) /\ IsFiniteSet(ToSet(peer))
    BY DistinctFacts
  <2> QED
    BY <1>1, <2>1, FS_Union
<1> HIDE DEF out, new
<1>6. CASE new = {}
  <2>1. out = mine /\ ToSet(peer) \subseteq ToSet(mine)
    BY <1>2, <1>4, <1>6
  <2> QED
    BY <2>1 DEF out
<1>7. CASE new # {}
  <2> DEFINE list == Sorted(all)
  <2>1. ~(ToSet(peer) \subseteq ToSet(mine)) /\ out = applyRetention(list, t)
    BY <1>2, <1>3, <1>4, <1>7
  <2>2. /\ list \in Seq(Entry) /\ Distinct(list) /\ ToSet(list) = all
        /\ \A k, l \in DOMAIN list : k < l => Precedes(list[k], list[l])
    BY <1>5, SortedFacts
  <2> HIDE DEF list, all
  <2>3. /\ out \in Seq(Entry) /\ Distinct(out) /\ Len(out) <= MaxEntries
        /\ Retained(out, list, t)
    BY <2>1, <2>2, RetentionFacts
  <2>4. PICK at \in [1 .. Len(out) -> DOMAIN list] :
             /\ \A k \in 1 .. Len(out) :
                  out[k] = list[at[k]] /\ t <= list[at[k]].ts + MaxAge
             /\ \A k, l \in 1 .. Len(out) : k < l => at[k] < at[l]
             /\ \A i \in DOMAIN list :
                  \/ t > list[i].ts + MaxAge
                  \/ \E k \in 1 .. Len(out) : at[k] = i
                  \/ Len(out) = MaxEntries /\ \A k \in 1 .. Len(out) : i < at[k]
    BY <2>3 DEF Retained
  <2>5. DOMAIN out = 1 .. Len(out)
    BY <2>3
  <2>6. ToSet(out) \subseteq all /\ \A e \in ToSet(out) : t <= e.ts + MaxAge
    BY <2>2, <2>4, <2>5 DEF ToSet
  <2>7. \A k, l \in DOMAIN out : k < l => Precedes(out[k], out[l])
    BY <2>2, <2>4, <2>5
  <2>8. ASSUME NEW e \in all \ ToSet(out)
        PROVE  \/ t > e.ts + MaxAge
               \/ Len(out) = MaxEntries /\ \A f \in ToSet(out) : Precedes(e, f)
    <3>1. PICK i \in DOMAIN list : list[i] = e
      BY <2>2, <2>8 DEF ToSet
    <3>2. ~\E k \in 1 .. Len(out) : at[k] = i
      BY <2>4, <2>5, <2>8, <3>1 DEF ToSet
    <3>3. CASE t > e.ts + MaxAge
      BY <3>3
    <3>4. CASE Len(out) = MaxEntries /\ \A k \in 1 .. Len(out) : i < at[k]
      <4>1. \A k \in 1 .. Len(out) : Precedes(e, out[k])
        BY <2>2, <2>4, <3>1, <3>4
      <4> QED
        BY <2>5, <3>4, <4>1 DEF ToSet
    <3> QED
      BY <2>4, <3>1, <3>2, <3>3, <3>4
  <2>9. Chosen(out, all, t)
    BY <2>6, <2>7, <2>8 DEF Chosen
  <2> QED
    BY <2>1, <2>3, <2>6, <2>9 DEF out, all
<1> QED
  BY <1>6, <1>7

----------------------------------------------------------------------------
IDs == Nat \X Nat \X Node

(* What an offset may be, and what a request may be doing.                 *)
Offset == {Beginning, NotMember} \cup IDs

Call ==
  {Idle}
    \cup [op : {"join", "offset"}, node : Node, consumer : Consumer, limit : Limit]
    \cup [op : {"range"}, node : Node, consumer : Consumer, limit : Limit, offset : Offset]
    \cup [op : {"pend"}, node : Node, consumer : Consumer, got : Seq(Entry), todo : Seq(Entry)]

Types ==
  /\ now \in 0 .. MaxTime /\ skew \in [Node -> Nat]
  /\ log \in [Node -> Seq(Entry)] /\ disk \in [Node -> Seq(Entry)]
  /\ sequence \in [Node -> Nat]
  /\ group \in [Node -> BOOLEAN]
  /\ offset \in [Node -> [Consumer -> Offset]]
  /\ pending \in [Node -> [Consumer -> Seq(IDs)]]
  /\ call \in [Request -> Call]
  /\ msgs \subseteq [to : Node, log : Seq(Entry)]
  /\ delivered \in [Node -> [Consumer -> SUBSET Entry]]
  /\ acked \in [Node -> [Consumer -> SUBSET Entry]]
  /\ moved \in [Node -> [Consumer -> SUBSET Entry]]

(* No entry is in a log twice, here, on disk or under way.                 *)
Lists ==
  /\ \A n \in Node : Distinct(log[n]) /\ Len(log[n]) <= MaxEntries /\ Distinct(disk[n])
  /\ \A m \in msgs : Distinct(m.log)

(* An entry that is out there, in a log or given to a consumer, has a      *)
(* stamp and a number its node has passed and will not give again.         *)
Passed(e) ==
  /\ e.ts <= Clock(e.node)
  /\ e.ts = Clock(e.node) => e.seq <= sequence[e.node]

Stamps ==
  /\ \A n \in Node : \A e \in ToSet(log[n]) \cup ToSet(disk[n]) : Passed(e)
  /\ \A m \in msgs : \A e \in ToSet(m.log) : Passed(e)
  /\ \A n \in Node, c \in Consumer : \A e \in delivered[n][c] : Passed(e)
  /\ \A r \in Request : call[r].op = "pend" => \A e \in ToSet(call[r].got) : Passed(e)

(* Only members of a group have offsets, entries pending and requests.     *)
Members ==
  /\ \A n \in Node, c \in Consumer :
       /\ pending[n][c] # <<>> => group[n] /\ offset[n][c] # NotMember
       /\ acked[n][c] \subseteq delivered[n][c]
  /\ \A r \in Request :
       /\ call[r] # Idle => group[call[r].node]
       /\ call[r].op \in {"offset", "range", "pend"} =>
            offset[call[r].node][call[r].consumer] # NotMember

(* An offset is that of an entry that was given; what is still to be made  *)
(* pending is part of what will be given.                                  *)
Reads ==
  /\ \A n \in Node, c \in Consumer :
       offset[n][c] \in {Beginning, NotMember} \cup {ID(e) : e \in delivered[n][c]}
  /\ \A r \in Request :
       LET n == call[r].node
           c == call[r].consumer
       IN  /\ call[r].op = "range" =>
                call[r].offset \in {Beginning, NotMember} \cup {ID(e) : e \in delivered[n][c]}
           /\ call[r].op = "pend" => ToSet(call[r].todo) \subseteq ToSet(call[r].got)

(* What a read is about to return is pending, or will be, or acknowledged. *)
Pended ==
  \A r \in Request :
    call[r].op = "pend" =>
      \A e \in ToSet(call[r].got) :
        \/ e \in acked[call[r].node][call[r].consumer]
        \/ ID(e) \in ToSet(pending[call[r].node][call[r].consumer])
        \/ e \in ToSet(call[r].todo)

(* What is ahead of an entry that was given was given too, or moved there; *)
(* what is ahead of one that is about to be, likewise or with it.          *)
InOrder ==
  /\ \A n \in Node, c \in Consumer :
       \A x \in delivered[n][c], e \in Entry :
         Ahead(log[n], e, x) => e \in delivered[n][c] \cup moved[n][c]
  /\ \A r \in Request :
       call[r].op = "pend" =>
         \A x \in ToSet(call[r].got), e \in Entry :
           Ahead(log[call[r].node], e, x) =>
             e \in delivered[call[r].node][call[r].consumer]
                     \cup moved[call[r].node][call[r].consumer] \cup ToSet(call[r].got)

(* The inductive invariant.                                                *)
IInv ==
  /\ Types /\ Lists /\ Stamps /\ Members /\ Reads
  /\ NothingForgotten /\ Pended /\ InOrder

----------------------------------------------------------------------------
LEMMA ConstantFacts ==
  /\ Node \subseteq Nat /\ Limit \subseteq Nat \ {0} /\ Skews \subseteq Nat
  /\ MaxEntries \in Nat \ {0} /\ MaxAge \in Nat /\ MaxTime \in Nat
  BY StreamsAssumption

(* The elements of a list that grows at its end or shrinks at its front.   *)
LEMMA ListFacts ==
  ASSUME NEW X, NEW list \in Seq(X)
  PROVE  /\ ToSet(list) \subseteq X
         /\ \A x \in X : Append(list, x) \in Seq(X) /\ ToSet(Append(list, x)) = ToSet(list) \cup {x}
         /\ list # <<>> => /\ Head(list) \in X /\ Tail(list) \in Seq(X)
                           /\ ToSet(list) = {Head(list)} \cup ToSet(Tail(list))
         /\ list = <<>> => ToSet(list) = {}
<1>1. ToSet(list) \subseteq X
  BY DEF ToSet
<1>2. ASSUME NEW x \in X
      PROVE  Append(list, x) \in Seq(X) /\ ToSet(Append(list, x)) = ToSet(list) \cup {x}
  <2>1. /\ DOMAIN Append(list, x) = 1 .. Len(list) + 1
        /\ Append(list, x)[Len(list) + 1] = x
        /\ \A k \in 1 .. Len(list) : Append(list, x)[k] = list[k]
    OBVIOUS
  <2>2. DOMAIN list = 1 .. Len(list) /\ Len(list) \in Nat
    OBVIOUS
  <2> QED
    BY <2>1, <2>2 DEF ToSet
<1>3. ASSUME list # <<>>
      PROVE  /\ Head(list) \in X /\ Tail(list) \in Seq(X)
             /\ ToSet(list) = {Head(list)} \cup ToSet(Tail(list))
  <2>1. /\ DOMAIN list = 1 .. Len(list) /\ Len(list) \in Nat \ {0} /\ Head(list) = list[1]
        /\ DOMAIN Tail(list) = 1 .. Len(list) - 1
        /\ \A k \in 1 .. Len(list) - 1 : Tail(list)[k] = list[k + 1]
    BY <1>3
  <2>2. \A k \in 2 .. Len(list) : k - 1 \in 1 .. Len(list) - 1 /\ list[k] = Tail(list)[k - 1]
    BY <2>1
  <2>3. \A k \in 1 .. Len(list) : k = 1 \/ k \in 2 .. Len(list)
    BY <2>1
  <2>4. ToSet(list) = {list[k] : k \in 1 .. Len(list)}
    BY <2>1 DEF ToSet
  <2>5. ToSet(Tail(list)) = {Tail(list)[k] : k \in 1 .. Len(list) - 1}
    BY <2>1 DEF ToSet
  <2>6. ToSet(list) \subseteq {Head(list)} \cup ToSet(Tail(list))
    BY <2>1, <2>2, <2>3, <2>4, <2>5
  <2>7. {Head(list)} \cup ToSet(Tail(list)) \subseteq ToSet(list)
    BY <2>1, <2>4, <2>5
  <2>8. Head(list) \in X /\ Tail(list) \in Seq(X)
    BY <1>3
  <2> QED
    BY <2>6, <2>7, <2>8
<1>4. list = <<>> => ToSet(list) = {}
  BY DEF ToSet
<1> QED
  BY <1>1, <1>2, <1>3, <1>4

(* Retention only takes entries out.                                       *)
LEMMA RetainedFacts ==
  ASSUME NEW list \in Seq(Entry), Distinct(list), NEW t \in Nat
  PROVE  /\ ToSet(applyRetention(list, t)) \subseteq ToSet(list)
         /\ \A e, f \in Entry : Ahead(applyRetention(list, t), e, f) => Ahead(list, e, f)
<1> DEFINE out == applyRetention(list, t)
<1>1. out \in Seq(Entry) /\ Retained(out, list, t)
  BY RetentionFacts
<1> HIDE DEF out
<1>2. PICK at \in [1 .. Len(out) -> DOMAIN list] :
        /\ \A k \in 1 .. Len(out) : out[k] = list[at[k]]
        /\ \A k, l \in 1 .. Len(out) : k < l => at[k] < at[l]
  BY <1>1 DEF Retained
<1>3. DOMAIN out = 1 .. Len(out)
  BY <1>1
<1> QED
  BY <1>2, <1>3 DEF ToSet, Ahead, out

LEMMA InitIInv == Init => IInv
<1> SUFFICES ASSUME Init
             PROVE  IInv
  OBVIOUS
<1>1. Types
  <2>1. <<>> \in Seq(Entry) /\ <<>> \in Seq(IDs)
    OBVIOUS
  <2>2. NoOffsets \in [Consumer -> Offset] /\ NoPending \in [Consumer -> Seq(IDs)]
    BY <2>1 DEF NoOffsets, NoPending, Offset
  <2>3. Idle \in Call
    BY DEF Call
  <2>4. skew \in [Node -> Nat]
    BY ConstantFacts, Zenon DEF Init
  <2>5. 0 \in 0 .. MaxTime
    BY ConstantFacts
  <2> QED
    BY <2>1, <2>2, <2>3, <2>4, <2>5 DEF Init, Types
<1>2. \A n \in Node : ToSet(log[n]) = {} /\ ToSet(disk[n]) = {} /\ log[n] = <<>> /\ disk[n] = <<>>
  BY DEF Init, ToSet
<1>3. Distinct(<<>>) /\ Len(<<>>) = 0 /\ \A e, f \in Entry : ~Ahead(<<>>, e, f)
  BY DEF Distinct, Ahead
<1>4. Lists /\ Stamps
  BY <1>2, <1>3, ConstantFacts DEF Init, Lists, Stamps, Idle
<1>5. Members /\ NothingForgotten /\ Pended /\ Reads
  BY <1>2 DEF Init, Members, NothingForgotten, Pended, Reads, Idle, NoPending, NoOffsets
<1>6. InOrder
  BY <1>2, <1>3 DEF Init, InOrder, Idle
<1> QED
  BY <1>1, <1>4, <1>5, <1>6 DEF IInv

(* What a request may be.                                                  *)
LEMMA CallFacts ==
  ASSUME IInv, NEW r \in Request
  PROVE  /\ Idle \in Call /\ Idle.op = "idle"
         /\ call[r] \in Call
         /\ call[r] # Idle => call[r].node \in Node /\ call[r].consumer \in Consumer
         /\ call[r].op \in {"join", "offset", "range", "pend"} => call[r] # Idle
         /\ call[r].op \in {"join", "offset", "range"} => call[r].limit \in Limit
         /\ call[r].op = "range" => call[r].offset \in Offset
         /\ call[r].op = "pend" => call[r].got \in Seq(Entry) /\ call[r].todo \in Seq(Entry)
<1>1. call[r] \in Call
  BY DEF IInv, Types
<1> QED
  BY <1>1 DEF Call, Idle

(* Entries that are out there only spread; X are those that come new.      *)
LEMMA StampsKept ==
  ASSUME IInv, \A e \in Entry : Passed(e) => Passed(e)',
         NEW X \in SUBSET Entry, \A e \in X : Passed(e)',
         \A n \in Node : /\ ToSet(log'[n]) \subseteq ToSet(log[n]) \cup ToSet(disk[n]) \cup X
                        /\ disk'[n] = disk[n],
         msgs' \subseteq msgs,
         \A n \in Node, c \in Consumer : delivered'[n][c] \subseteq delivered[n][c] \cup X,
         \A r \in Request : call'[r].op = "pend" =>
           \/ ToSet(call'[r].got) \subseteq X
           \/ call[r].op = "pend" /\ call'[r].got = call[r].got
  PROVE  Stamps'
<1>1. /\ \A n \in Node : ToSet(log[n]) \cup ToSet(disk[n]) \subseteq Entry
      /\ \A m \in msgs : ToSet(m.log) \subseteq Entry
  BY ListFacts DEF IInv, Types
<1>2. /\ \A n \in Node, c \in Consumer : delivered[n][c] \subseteq Entry
      /\ \A r \in Request : call[r].op = "pend" => ToSet(call[r].got) \subseteq Entry
  BY CallFacts, ListFacts DEF IInv, Types
<1>3. /\ \A n \in Node : \A e \in ToSet(log[n]) \cup ToSet(disk[n]) : Passed(e)'
      /\ \A m \in msgs : \A e \in ToSet(m.log) : Passed(e)'
  BY <1>1 DEF IInv, Stamps
<1>4. /\ \A n \in Node, c \in Consumer : \A e \in delivered[n][c] : Passed(e)'
      /\ \A r \in Request : call[r].op = "pend" => \A e \in ToSet(call[r].got) : Passed(e)'
  BY <1>2 DEF IInv, Stamps
<1>5. /\ \A n \in Node : \A e \in ToSet(log'[n]) \cup ToSet(disk'[n]) : Passed(e)'
      /\ \A m \in msgs' : \A e \in ToSet(m.log) : Passed(e)'
  BY <1>3
<1>6. /\ \A n \in Node, c \in Consumer : \A e \in delivered'[n][c] : Passed(e)'
      /\ \A r \in Request : call'[r].op = "pend" => \A e \in ToSet(call'[r].got) : Passed(e)'
  BY <1>4
<1> HIDE DEF Passed
<1> QED
  BY <1>5, <1>6 DEF Stamps

----------------------------------------------------------------------------
(* One lemma per action: it keeps the inductive invariant.                 *)
LEMMA StutterKeepsIInv ==
  ASSUME IInv, UNCHANGED vars
  PROVE  IInv'
<1>1. /\ UNCHANGED <<now, skew, log, sequence, disk, group, offset, pending, call, msgs>>
      /\ UNCHANGED <<delivered, acked, moved>>
  BY DEF vars, clocks, logs, groups, history
<1>2. Types' /\ Lists'
  BY <1>1 DEF IInv, Types, Lists
<1>3. Stamps'
  BY <1>1 DEF IInv, Stamps, Passed, Clock
<1>4. Members' /\ Reads' /\ NothingForgotten' /\ Pended' /\ InOrder'
  BY <1>1 DEF IInv, Members, Reads, NothingForgotten, Pended, InOrder
<1> QED
  BY <1>2, <1>3, <1>4 DEF IInv

LEMMA SendKeepsIInv ==
  ASSUME IInv, NEW n \in Node, NEW p \in Node, Send(n, p)
  PROVE  IInv'
<1>1. /\ UNCHANGED <<now, skew, log, sequence, disk, group, offset, pending, call>>
      /\ UNCHANGED <<delivered, acked, moved>>
      /\ msgs' = msgs \cup {[to |-> p, log |-> log[n]]}
  BY DEF Send, clocks, logs, groups, history
<1>2. log[n] \in Seq(Entry)
  BY DEF IInv, Types
<1>3. Types'
  BY <1>1, <1>2 DEF IInv, Types
<1>4. Lists'
  BY <1>1 DEF IInv, Lists
<1>5. Stamps'
  BY <1>1 DEF IInv, Stamps, Passed, Clock
<1>6. Members' /\ Reads' /\ NothingForgotten' /\ Pended' /\ InOrder'
  BY <1>1 DEF IInv, Members, Reads, NothingForgotten, Pended, InOrder
<1> QED
  BY <1>3, <1>4, <1>5, <1>6 DEF IInv

LEMMA TickKeepsIInv ==
  ASSUME IInv, Tick
  PROVE  IInv'
<1>1. /\ UNCHANGED <<skew, log, sequence, disk, group, offset, pending, call, msgs>>
      /\ UNCHANGED <<delivered, acked, moved>>
      /\ now < MaxTime /\ now' = now + 1
  BY DEF Tick, logs, groups, history
<1>2. Types' /\ Lists'
  BY <1>1, ConstantFacts DEF IInv, Types, Lists
<1>3. \A e \in Entry : Passed(e) => Passed(e)'
  BY <1>1, EntryFacts DEF Passed, Clock, IInv, Types
<1>4. Stamps'
  <2>1. /\ {} \in SUBSET Entry
        /\ \A n \in Node : ToSet(log'[n]) \subseteq ToSet(log[n]) \cup ToSet(disk[n]) \cup {}
        /\ \A n \in Node, c \in Consumer : delivered'[n][c] \subseteq delivered[n][c] \cup {}
    BY <1>1
  <2> HIDE DEF Passed
  <2> QED
    BY <1>1, <1>3, <2>1, StampsKept
<1>5. Members' /\ Reads' /\ NothingForgotten' /\ Pended' /\ InOrder'
  BY <1>1 DEF IInv, Members, Reads, NothingForgotten, Pended, InOrder
<1> QED
  BY <1>2, <1>4, <1>5 DEF IInv

LEMMA SaveSnapshotKeepsIInv ==
  ASSUME IInv, NEW n \in Node, SaveSnapshot(n)
  PROVE  IInv'
<1>1. /\ UNCHANGED <<now, skew, log, sequence, group, offset, pending, call, msgs>>
      /\ UNCHANGED <<delivered, acked, moved>>
      /\ disk' = [disk EXCEPT ![n] = log[n]]
  BY DEF SaveSnapshot, clocks, groups, history
<1>2. disk' \in [Node -> Seq(Entry)] /\ \A p \in Node : disk'[p] = IF p = n THEN log[n] ELSE disk[p]
  BY <1>1 DEF IInv, Types
<1>3. Types' /\ Lists'
  BY <1>1, <1>2 DEF IInv, Types, Lists
<1>4. Stamps'
  BY <1>1, <1>2 DEF IInv, Stamps, Passed, Clock
<1>5. Members' /\ Reads' /\ NothingForgotten' /\ Pended' /\ InOrder'
  BY <1>1 DEF IInv, Members, Reads, NothingForgotten, Pended, InOrder
<1> QED
  BY <1>3, <1>4, <1>5 DEF IInv

LEMMA XGroupCreateKeepsIInv ==
  ASSUME IInv, NEW n \in Node, XGroupCreate(n)
  PROVE  IInv'
<1>1. /\ UNCHANGED <<now, skew, log, sequence, disk, offset, pending, call, msgs>>
      /\ UNCHANGED <<delivered, acked, moved>>
      /\ group' = [group EXCEPT ![n] = TRUE]
  BY DEF XGroupCreate, clocks, logs, history
<1>2. group' \in [Node -> BOOLEAN] /\ \A p \in Node : group[p] => group'[p]
  BY <1>1 DEF IInv, Types
<1>3. Types' /\ Lists'
  BY <1>1, <1>2 DEF IInv, Types, Lists
<1>4. Stamps'
  BY <1>1 DEF IInv, Stamps, Passed, Clock
<1>5. Members'
  <2>1. \A r \in Request : call[r] # Idle => call[r].node \in Node
    BY DEF IInv, Types, Call
  <2> QED
    BY <1>1, <1>2, <2>1 DEF IInv, Members
<1>6. Reads' /\ NothingForgotten' /\ Pended' /\ InOrder'
  BY <1>1 DEF IInv, Reads, NothingForgotten, Pended, InOrder
<1> QED
  BY <1>3, <1>4, <1>5, <1>6 DEF IInv

(* A step that changes only the request r, and the members' offsets from   *)
(* none to the beginning.                                                  *)
LEMMA CallKeepsIInv ==
  ASSUME IInv, NEW r \in Request, NEW to \in Call,
         UNCHANGED <<now, skew, log, sequence, disk, group, pending, msgs>>,
         UNCHANGED <<delivered, acked, moved>>,
         call' = [call EXCEPT ![r] = to],
         offset' \in [Node -> [Consumer -> Offset]],
         \A n \in Node, c \in Consumer :
           \/ offset'[n][c] = offset[n][c]
           \/ offset[n][c] = NotMember /\ offset'[n][c] = Beginning,
         to # Idle => group[to.node],
         to.op \in {"offset", "range", "pend"} => offset'[to.node][to.consumer] # NotMember,
         to.op = "range" =>
           to.offset \in {Beginning, NotMember} \cup {ID(e) : e \in delivered[to.node][to.consumer]},
         to.op = "pend" =>
           /\ \A e \in ToSet(to.got) : Passed(e)
           /\ ToSet(to.todo) \subseteq ToSet(to.got)
           /\ \A e \in ToSet(to.got) :
                \/ e \in acked[to.node][to.consumer]
                \/ ID(e) \in ToSet(pending[to.node][to.consumer])
                \/ e \in ToSet(to.todo)
           /\ \A x \in ToSet(to.got), e \in Entry :
                Ahead(log[to.node], e, x) =>
                  e \in delivered[to.node][to.consumer] \cup moved[to.node][to.consumer]
                          \cup ToSet(to.got)
  PROVE  IInv'
<1>1. /\ call' \in [Request -> Call]
      /\ call'[r] = to /\ \A q \in Request \ {r} : call'[q] = call[q]
  BY DEF IInv, Types
<1>2. Types' /\ Lists'
  BY <1>1 DEF IInv, Types, Lists
<1>3. Stamps'
  <2>1. \A e : Passed(e)' <=> Passed(e)
    BY DEF Passed, Clock
  <2>2. \A q \in Request : call'[q].op = "pend" => \A e \in ToSet(call'[q].got) : Passed(e)
    BY <1>1 DEF IInv, Stamps
  <2> QED
    BY <2>1, <2>2 DEF IInv, Stamps
<1>4. Members'
  <2>1. \A n \in Node, c \in Consumer : offset[n][c] # NotMember => offset'[n][c] # NotMember
    BY DEF Beginning, NotMember
  <2>2. \A q \in Request : call[q] # Idle => call[q].node \in Node /\ call[q].consumer \in Consumer
    BY CallFacts
  <2>3. \A q \in Request : call[q].op \in {"offset", "range", "pend"} => call[q] # Idle
    BY CallFacts
  <2>4. \A n \in Node, c \in Consumer :
          /\ pending'[n][c] # <<>> => group'[n] /\ offset'[n][c] # NotMember
          /\ acked'[n][c] \subseteq delivered'[n][c]
    BY <2>1 DEF IInv, Members
  <2>5. \A q \in Request :
          /\ call'[q] # Idle => group'[call'[q].node]
          /\ call'[q].op \in {"offset", "range", "pend"} =>
               offset'[call'[q].node][call'[q].consumer] # NotMember
    BY <1>1, <2>1, <2>2, <2>3 DEF IInv, Members
  <2> QED
    BY <2>4, <2>5 DEF Members
<1>5. Reads'
  <2>1. \A n \in Node, c \in Consumer :
          offset'[n][c] \in {Beginning, NotMember} \cup {ID(e) : e \in delivered'[n][c]}
    BY DEF IInv, Reads
  <2>2. ASSUME NEW q \in Request
        PROVE  /\ call'[q].op = "range" =>
                    call'[q].offset \in {Beginning, NotMember}
                      \cup {ID(e) : e \in delivered'[call'[q].node][call'[q].consumer]}
               /\ call'[q].op = "pend" => ToSet(call'[q].todo) \subseteq ToSet(call'[q].got)
    <3>1. CASE q = r
      BY <1>1, <3>1
    <3>2. CASE q # r
      BY <1>1, <3>2 DEF IInv, Reads
    <3> QED
      BY <3>1, <3>2
  <2> QED
    BY <2>1, <2>2 DEF Reads
<1>6. NothingForgotten'
  BY DEF IInv, NothingForgotten
<1>7. Pended'
  BY <1>1 DEF IInv, Pended
<1>8. InOrder'
  <2>1. \A n \in Node, c \in Consumer :
          \A x \in delivered'[n][c], e \in Entry :
            Ahead(log'[n], e, x) => e \in delivered'[n][c] \cup moved'[n][c]
    BY DEF IInv, InOrder
  <2>2. ASSUME NEW q \in Request, call'[q].op = "pend"
        PROVE  \A x \in ToSet(call'[q].got), e \in Entry :
                 Ahead(log'[call'[q].node], e, x) =>
                   e \in delivered'[call'[q].node][call'[q].consumer]
                           \cup moved'[call'[q].node][call'[q].consumer] \cup ToSet(call'[q].got)
    <3>1. CASE q = r
      BY <1>1, <2>2, <3>1
    <3>2. CASE q # r
      BY <1>1, <2>2, <3>2 DEF IInv, InOrder
    <3> QED
      BY <3>1, <3>2
  <2> QED
    BY <2>1, <2>2 DEF InOrder
<1> QED
  BY <1>2, <1>3, <1>4, <1>5, <1>6, <1>7, <1>8 DEF IInv

LEMMA XReadGroupKeepsIInv ==
  ASSUME IInv, NEW r \in Request, NEW n \in Node, NEW c \in Consumer, NEW limit \in Limit,
         XReadGroup(r, n, c, limit)
  PROVE  IInv'
<1> DEFINE to == [op |-> IF offset[n][c] = NotMember THEN "join" ELSE "offset",
                  node |-> n, consumer |-> c, limit |-> limit]
<1>1. /\ UNCHANGED <<now, skew, log, sequence, disk, group, pending, msgs, offset>>
      /\ UNCHANGED <<delivered, acked, moved>>
      /\ call' = [call EXCEPT ![r] = to] /\ group[n]
  BY DEF XReadGroup, clocks, logs, groups, history
<1>2. to \in Call /\ to.node = n /\ to.consumer = c
  BY DEF Call
<1>3. to.op \notin {"range", "pend"} /\ (to.op = "offset" => offset[n][c] # NotMember)
  OBVIOUS
<1>4. offset \in [Node -> [Consumer -> Offset]]
  BY DEF IInv, Types
<1> HIDE DEF to
<1> QED
  BY <1>1, <1>2, <1>3, <1>4, CallKeepsIInv

LEMMA AddConsumerKeepsIInv ==
  ASSUME IInv, NEW r \in Request, AddConsumer(r)
  PROVE  IInv'
<1> DEFINE n == call[r].node
           c == call[r].consumer
           to == [call[r] EXCEPT !.op = "offset"]
<1>1. /\ UNCHANGED <<now, skew, log, sequence, disk, group, pending, msgs>>
      /\ UNCHANGED <<delivered, acked, moved>>
      /\ call[r].op = "join" /\ offset[n][c] = NotMember
      /\ offset' = [offset EXCEPT ![n][c] = Beginning]
      /\ call' = [call EXCEPT ![r].op = "offset"]
  BY DEF AddConsumer, Join, clocks, logs, history
<1>2. n \in Node /\ c \in Consumer /\ group[n]
  BY <1>1, CallFacts DEF IInv, Members
<1>3. to \in Call /\ to.op = "offset" /\ to.node = n /\ to.consumer = c
  BY <1>1, CallFacts DEF Call, Idle
<1>4. call' = [call EXCEPT ![r] = to]
  BY <1>1
<1>5. offset \in [Node -> [Consumer -> Offset]] /\ Beginning \in Offset
  BY DEF IInv, Types, Offset
<1> HIDE DEF n, c, to
<1>6. /\ offset' \in [Node -> [Consumer -> Offset]]
      /\ offset'[n][c] = Beginning
      /\ \A m \in Node, b \in Consumer : offset'[m][b] = IF m = n /\ b = c THEN Beginning ELSE offset[m][b]
  BY <1>1, <1>2, <1>5
<1>7. Beginning # NotMember
  BY DEF Beginning, NotMember
<1>8. \A m \in Node, b \in Consumer :
        \/ offset'[m][b] = offset[m][b]
        \/ offset[m][b] = NotMember /\ offset'[m][b] = Beginning
  BY <1>1, <1>6
<1>9. to.op \notin {"range", "pend"} /\ group[to.node] /\ offset'[to.node][to.consumer] # NotMember
  BY <1>2, <1>3, <1>6, <1>7
<1>10. /\ UNCHANGED <<now, skew, log, sequence, disk, group, pending, msgs>>
       /\ UNCHANGED <<delivered, acked, moved>>
       /\ to \in Call /\ call' = [call EXCEPT ![r] = to]
       /\ offset' \in [Node -> [Consumer -> Offset]]
  BY <1>1, <1>3, <1>4, <1>6
<1>11. to.op # "range" /\ to.op # "pend"
  BY <1>3
<1> HIDE DEF Beginning, NotMember
<1> QED
  BY <1>8, <1>9, <1>10, <1>11, CallKeepsIInv

LEMMA AddConsumerExistsKeepsIInv ==
  ASSUME IInv, NEW r \in Request, AddConsumerExists(r)
  PROVE  IInv'
<1>1. /\ UNCHANGED <<now, skew, log, sequence, disk, group, pending, msgs, offset>>
      /\ UNCHANGED <<delivered, acked, moved>>
      /\ call' = [call EXCEPT ![r] = Idle]
  BY DEF AddConsumerExists, clocks, logs, groups, history
<1>2. Idle \in Call /\ Idle.op \notin {"offset", "range", "pend"}
  BY CallFacts
<1>3. offset \in [Node -> [Consumer -> Offset]]
  BY DEF IInv, Types
<1> QED
  BY <1>1, <1>2, <1>3, CallKeepsIInv

LEMMA GetOffsetKeepsIInv ==
  ASSUME IInv, NEW r \in Request, GetOffset(r)
  PROVE  IInv'
<1> DEFINE n == call[r].node
           c == call[r].consumer
           to == [op |-> "range", node |-> n, consumer |-> c,
                  limit |-> call[r].limit, offset |-> offset[n][c]]
<1>1. /\ UNCHANGED <<now, skew, log, sequence, disk, group, pending, msgs, offset>>
      /\ UNCHANGED <<delivered, acked, moved>>
      /\ call[r].op = "offset" /\ call' = [call EXCEPT ![r] = to]
  BY DEF GetOffset, clocks, logs, groups, history
<1>2. /\ n \in Node /\ c \in Consumer /\ call[r].limit \in Limit
      /\ group[n] /\ offset[n][c] # NotMember
  BY <1>1, CallFacts DEF IInv, Members
<1>3. offset \in [Node -> [Consumer -> Offset]]
  BY DEF IInv, Types
<1>4. to \in Call
  BY <1>2, <1>3 DEF Call
<1>5. /\ to.op = "range" /\ to.node = n /\ to.consumer = c
      /\ to.offset \in {Beginning, NotMember} \cup {ID(e) : e \in delivered[n][c]}
  BY <1>2 DEF IInv, Reads
<1> HIDE DEF n, c, to
<1> QED
  BY <1>1, <1>2, <1>3, <1>4, <1>5, CallKeepsIInv

(* What Range returns after the entry an offset names: of a log, entries   *)
(* ahead of which there are only more of them, that entry, and what is     *)
(* ahead of it.                                                            *)
LEMMA RangeFacts ==
  ASSUME NEW list \in Seq(Entry), Distinct(list), NEW D \in SUBSET Entry,
         NEW start \in {Beginning, NotMember} \cup {ID(e) : e \in D}, NEW limit \in Nat \ {0}
  PROVE  LET got == RangeFrom(list, start, limit)
         IN  /\ got \in Seq(Entry) /\ ToSet(got) \subseteq ToSet(list)
             /\ \A x \in ToSet(got), e \in Entry :
                  Ahead(list, e, x) =>
                    e \in ToSet(got) \/ e \in D \/ \E y \in D : Ahead(list, e, y)
<1> DEFINE at == {i \in DOMAIN list : ID(list[i]) = start}
           from == IF at = {} THEN 1 ELSE (CHOOSE i \in at : TRUE) + 1
           to == IF from + limit - 1 < Len(list) THEN from + limit - 1 ELSE Len(list)
           got == RangeFrom(list, start, limit)
<1>1. DOMAIN list = 1 .. Len(list) /\ Len(list) \in Nat /\ \A i \in DOMAIN list : list[i] \in Entry
  OBVIOUS
<1>2. got = SubSeq(list, from, to)
  BY DEF RangeFrom
<1>3. from = 1 \/ \E i \in at : from = i + 1
  OBVIOUS
<1>4. ASSUME NEW i \in at
      PROVE  i \in DOMAIN list /\ list[i] \in D
  <2>1. i \in DOMAIN list /\ ID(list[i]) = start
    OBVIOUS
  <2>2. start \in {ID(e) : e \in D}
    BY <1>1, <2>1 DEF ID, Beginning, NotMember
  <2> QED
    BY <1>1, <2>1, <2>2, EntryFacts
<1> HIDE DEF at, from
<1>5. from \in 1 .. Len(list) + 1
  BY <1>1, <1>3, <1>4
<1>6. to \in Nat /\ to <= Len(list)
  BY <1>1, <1>5
<1> HIDE DEF to, got
<1>7. /\ got \in Seq(Entry) /\ DOMAIN got = 1 .. Len(got)
      /\ Len(got) = IF from <= to THEN to - from + 1 ELSE 0
      /\ \A k \in 1 .. Len(got) : got[k] = list[from + k - 1]
  BY <1>1, <1>2, <1>5, <1>6
<1>8. \A k \in 1 .. Len(got) : from + k - 1 \in from .. to /\ from + k - 1 \in DOMAIN list
  BY <1>1, <1>5, <1>6, <1>7
<1>9. \A i \in from .. to : i - from + 1 \in 1 .. Len(got) /\ got[i - from + 1] = list[i]
  BY <1>5, <1>6, <1>7
<1>10. ToSet(got) \subseteq ToSet(list)
  BY <1>7, <1>8 DEF ToSet
<1>11. ASSUME NEW x \in ToSet(got), NEW e \in Entry, Ahead(list, e, x)
       PROVE  e \in ToSet(got) \/ e \in D \/ \E y \in D : Ahead(list, e, y)
  <2>1. PICK k \in 1 .. Len(got) : x = list[from + k - 1]
    BY <1>7 DEF ToSet
  <2>2. PICK i \in DOMAIN list, j \in DOMAIN list : i < j /\ list[i] = e /\ list[j] = x
    BY <1>11 DEF Ahead
  <2>3. j = from + k - 1 /\ j \in from .. to
    BY <1>8, <2>1, <2>2 DEF Distinct
  <2>4. CASE from <= i
    <3>1. i \in from .. to
      BY <1>1, <1>5, <1>6, <2>2, <2>3, <2>4
    <3> QED
      BY <1>7, <1>9, <2>2, <3>1 DEF ToSet
  <2>5. CASE i < from
    <3>1. PICK h \in at : from = h + 1
      BY <1>1, <1>3, <2>5
    <3>2. h \in DOMAIN list /\ list[h] \in D /\ i <= h
      BY <1>1, <1>4, <2>5, <3>1
    <3>3. CASE i = h
      BY <2>2, <3>2, <3>3
    <3>4. CASE i < h
      BY <2>2, <3>2, <3>4 DEF Ahead
    <3> QED
      BY <1>1, <3>2, <3>3, <3>4
  <2> QED
    BY <1>1, <1>5, <2>4, <2>5
<1> QED
  BY <1>7, <1>10, <1>11 DEF got

LEMMA ReadRangeKeepsIInv ==
  ASSUME IInv, NEW r \in Request, ReadRange(r)
  PROVE  IInv'
<1> DEFINE n == call[r].node
           c == call[r].consumer
           got == RangeFrom(log[n], call[r].offset, call[r].limit)
           to == [op |-> "pend", node |-> n, consumer |-> c, got |-> got, todo |-> got]
<1>1. /\ UNCHANGED <<now, skew, log, sequence, disk, group, pending, msgs, offset>>
      /\ UNCHANGED <<delivered, acked, moved>>
      /\ call[r].op = "range" /\ call' = [call EXCEPT ![r] = to]
  BY DEF ReadRange, clocks, logs, groups, history
<1>2. /\ n \in Node /\ c \in Consumer /\ call[r].limit \in Nat \ {0}
      /\ group[n] /\ offset[n][c] # NotMember
  BY <1>1, CallFacts, ConstantFacts DEF IInv, Members
<1>3. /\ offset \in [Node -> [Consumer -> Offset]]
      /\ log[n] \in Seq(Entry) /\ delivered[n][c] \in SUBSET Entry /\ Distinct(log[n])
  BY <1>2 DEF IInv, Types, Lists
<1>4. call[r].offset \in {Beginning, NotMember} \cup {ID(e) : e \in delivered[n][c]}
  BY <1>1 DEF IInv, Reads
<1>5. /\ got \in Seq(Entry) /\ ToSet(got) \subseteq ToSet(log[n])
      /\ \A x \in ToSet(got), e \in Entry :
           Ahead(log[n], e, x) =>
             e \in ToSet(got) \/ e \in delivered[n][c] \/ \E y \in delivered[n][c] : Ahead(log[n], e, y)
  BY <1>2, <1>3, <1>4, RangeFacts
<1> HIDE DEF got
<1>6. to \in Call
  BY <1>2, <1>5 DEF Call
<1>7. /\ to # Idle /\ to.op = "pend" /\ to.node = n /\ to.consumer = c /\ to.got = got /\ to.todo = got
  BY DEF Idle
<1> HIDE DEF to, n, c
<1>8. \A e \in ToSet(got) : Passed(e)
  BY <1>2, <1>5 DEF IInv, Stamps
<1>9. \A x \in ToSet(got), e \in Entry :
        Ahead(log[n], e, x) => e \in delivered[n][c] \cup moved[n][c] \cup ToSet(got)
  BY <1>2, <1>5 DEF IInv, InOrder
<1>10. to.op # "range"
  BY <1>7
<1> QED
  BY <1>1, <1>2, <1>3, <1>6, <1>7, <1>8, <1>9, <1>10, CallKeepsIInv

LEMMA AddPendingKeepsIInv ==
  ASSUME IInv, NEW r \in Request, AddPending(r)
  PROVE  IInv'
<1> DEFINE n == call[r].node
           c == call[r].consumer
           head == Head(call[r].todo)
           to == [call[r] EXCEPT !.todo = Tail(@)]
<1>1. /\ UNCHANGED <<now, skew, log, sequence, disk, group, msgs, offset>>
      /\ UNCHANGED <<delivered, acked, moved>>
      /\ call[r].op = "pend" /\ call[r].todo # <<>>
      /\ call' = [call EXCEPT ![r].todo = Tail(@)]
      /\ pending' = [pending EXCEPT ![n][c] = Append(@, ID(head))]
  BY DEF AddPending, clocks, logs, history
<1>2. /\ n \in Node /\ c \in Consumer /\ group[n] /\ offset[n][c] # NotMember
      /\ call[r] \in Call /\ call[r].got \in Seq(Entry) /\ call[r].todo \in Seq(Entry)
  BY <1>1, CallFacts DEF IInv, Members
<1>3. /\ head \in Entry /\ Tail(call[r].todo) \in Seq(Entry)
      /\ ToSet(call[r].todo) = {head} \cup ToSet(Tail(call[r].todo))
  BY <1>1, <1>2, ListFacts
<1>4. /\ to \in Call /\ to.op = "pend" /\ to.node = n /\ to.consumer = c
      /\ to.got = call[r].got /\ to.todo = Tail(call[r].todo)
  <2>1. call[r] \in [op : {"pend"}, node : Node, consumer : Consumer,
                     got : Seq(Entry), todo : Seq(Entry)]
    BY <1>1, <1>2 DEF Call, Idle
  <2>2. to \in [op : {"pend"}, node : Node, consumer : Consumer,
                got : Seq(Entry), todo : Seq(Entry)]
    BY <1>3, <2>1
  <2> QED
    BY <2>1, <2>2 DEF Call
<1>5. /\ call' \in [Request -> Call]
      /\ call'[r] = to /\ \A q \in Request \ {r} : call'[q] = call[q]
  BY <1>1, <1>4 DEF IInv, Types
<1> HIDE DEF to
<1>6. pending \in [Node -> [Consumer -> Seq(IDs)]] /\ ID(head) \in IDs
  BY <1>3, EntryFacts DEF ID, IDs, IInv, Types
<1> HIDE DEF head, n, c
<1>7. /\ Append(pending[n][c], ID(head)) \in Seq(IDs)
      /\ ToSet(Append(pending[n][c], ID(head))) = ToSet(pending[n][c]) \cup {ID(head)}
  <2>1. pending[n][c] \in Seq(IDs)
    BY <1>2, <1>6
  <2> QED
    BY <1>6, <2>1, ListFacts
<1>8. /\ pending' \in [Node -> [Consumer -> Seq(IDs)]]
      /\ ToSet(pending'[n][c]) = ToSet(pending[n][c]) \cup {ID(head)}
      /\ \A m \in Node, b \in Consumer : m # n \/ b # c => pending'[m][b] = pending[m][b]
  BY <1>1, <1>2, <1>6, <1>7
<1>9. Types' /\ Lists'
  BY <1>1, <1>5, <1>8 DEF IInv, Types, Lists
<1>11. /\ call[r].node = n /\ call[r].consumer = c
       /\ \A q \in Request : /\ call'[q].op = call[q].op /\ call'[q].node = call[q].node
                             /\ call'[q].consumer = call[q].consumer
                             /\ call'[q].got = call[q].got /\ call'[q].offset = call[q].offset
                             /\ (call'[q] # Idle => call[q] # Idle)
  <2>1. call'[r].op = call[r].op /\ call'[r].got = call[r].got /\ call'[r].node = call[r].node
    BY <1>1, <1>4, <1>5 DEF n
  <2>2. call'[r].consumer = call[r].consumer /\ call[r] # Idle
    BY <1>1, <1>4, <1>5, CallFacts DEF c
  <2>3. call'[r].offset = call[r].offset
    BY <1>5 DEF to
  <2> QED
    BY <1>5, <2>1, <2>2, <2>3 DEF n, c
<1>10. Stamps'
  BY <1>1, <1>11 DEF IInv, Stamps, Passed, Clock
<1>12. Members'
  <2>1. \A m \in Node, b \in Consumer :
          /\ pending'[m][b] # <<>> => group'[m] /\ offset'[m][b] # NotMember
          /\ acked'[m][b] \subseteq delivered'[m][b]
    BY <1>1, <1>2, <1>8 DEF IInv, Members
  <2>2. \A q \in Request :
          /\ call'[q] # Idle => group'[call'[q].node]
          /\ call'[q].op \in {"offset", "range", "pend"} =>
               offset'[call'[q].node][call'[q].consumer] # NotMember
    BY <1>1, <1>11 DEF IInv, Members
  <2> QED
    BY <2>1, <2>2 DEF Members
<1>13. Reads'
  <2>1. \A q \in Request :
          call'[q].op = "pend" => ToSet(call'[q].todo) \subseteq ToSet(call'[q].got)
    <3>1. ToSet(call'[r].todo) \subseteq ToSet(call'[r].got)
      BY <1>1, <1>3, <1>4, <1>5, <1>11 DEF IInv, Reads
    <3> QED
      BY <1>5, <1>11, <3>1 DEF IInv, Reads
  <2>2. Reads /\ UNCHANGED <<delivered, offset>>
    BY <1>1 DEF IInv
  <2>3. \A q \in Request :
          call'[q].op = "range" =>
            call'[q].offset \in {Beginning, NotMember} \cup
              {ID(e) : e \in delivered'[call'[q].node][call'[q].consumer]}
    BY <1>11, <2>2 DEF Reads
  <2>4. \A m \in Node, b \in Consumer :
          offset'[m][b] \in {Beginning, NotMember} \cup {ID(e) : e \in delivered'[m][b]}
    BY <2>2 DEF Reads
  <2> QED
    BY <2>1, <2>3, <2>4 DEF Reads
<1>14. NothingForgotten'
  BY <1>1, <1>8 DEF IInv, NothingForgotten
<1>15. Pended'
  <2>1. SUFFICES ASSUME NEW q \in Request, call'[q].op = "pend", NEW e \in ToSet(call'[q].got)
                 PROVE  \/ e \in acked'[call'[q].node][call'[q].consumer]
                        \/ ID(e) \in ToSet(pending'[call'[q].node][call'[q].consumer])
                        \/ e \in ToSet(call'[q].todo)
    BY DEF Pended
  <2>2. \/ e \in acked[call[q].node][call[q].consumer]
        \/ ID(e) \in ToSet(pending[call[q].node][call[q].consumer])
        \/ e \in ToSet(call[q].todo)
    BY <1>11, <2>1 DEF IInv, Pended
  <2>3. call[q].node \in Node /\ call[q].consumer \in Consumer
    BY <1>11, <2>1, CallFacts
  <2>4. ToSet(pending[call[q].node][call[q].consumer]) \subseteq ToSet(pending'[call[q].node][call[q].consumer])
    BY <1>8, <2>3
  <2>5. CASE q # r
    BY <1>1, <1>5, <1>11, <2>2, <2>4, <2>5
  <2>6. CASE q = r
    <3>1. ID(head) \in ToSet(pending'[call[q].node][call[q].consumer])
      BY <1>8, <1>11, <2>6
    <3>2. ToSet(call[q].todo) = {head} \cup ToSet(call'[q].todo)
      BY <1>3, <1>4, <1>5, <2>6
    <3> QED
      BY <1>1, <1>11, <2>2, <2>4, <3>1, <3>2
  <2> QED
    BY <2>5, <2>6
<1>16. InOrder'
  BY <1>1, <1>11 DEF IInv, InOrder
<1> QED
  BY <1>9, <1>10, <1>12, <1>13, <1>14, <1>15, <1>16 DEF IInv

LEMMA ReturnedKeepsIInv ==
  ASSUME IInv, NEW r \in Request, Returned(r)
  PROVE  IInv'
<1> DEFINE n == call[r].node
           c == call[r].consumer
           got == ToSet(call[r].got)
<1>1. /\ UNCHANGED <<now, skew, log, sequence, disk, group, pending, msgs, offset>>
      /\ UNCHANGED <<acked, moved>>
      /\ call[r].op = "pend" /\ call[r].todo = <<>>
      /\ call' = [call EXCEPT ![r] = Idle]
      /\ delivered' = [delivered EXCEPT ![n][c] = @ \cup got]
  BY DEF Returned, clocks, logs, groups
<1>2. /\ n \in Node /\ c \in Consumer /\ got \subseteq Entry /\ ToSet(call[r].todo) = {}
  BY <1>1, CallFacts, ListFacts
<1>3. /\ call' \in [Request -> Call]
      /\ call'[r] = Idle /\ \A q \in Request \ {r} : call'[q] = call[q]
  BY <1>1, CallFacts DEF IInv, Types
<1>4. \A e \in got : Passed(e)
  BY <1>1 DEF IInv, Stamps
<1>5. \A e \in got : e \in acked[n][c] \/ ID(e) \in ToSet(pending[n][c])
  BY <1>1, <1>2 DEF IInv, Pended
<1>6. \A x \in got, e \in Entry :
        Ahead(log[n], e, x) => e \in delivered[n][c] \cup moved[n][c] \cup got
  BY <1>1 DEF IInv, InOrder
<1>7. delivered \in [Node -> [Consumer -> SUBSET Entry]]
  BY DEF IInv, Types
<1> HIDE DEF n, c, got
<1>8. /\ delivered' \in [Node -> [Consumer -> SUBSET Entry]]
      /\ delivered'[n][c] = delivered[n][c] \cup got
      /\ \A m \in Node, b \in Consumer :
           /\ delivered[m][b] \subseteq delivered'[m][b]
           /\ m # n \/ b # c => delivered'[m][b] = delivered[m][b]
  BY <1>1, <1>2, <1>7
<1>9. Types' /\ Lists'
  BY <1>1, <1>3, <1>8 DEF IInv, Types, Lists
<1>11. Idle.op = "idle" /\ \A q \in Request : call'[q] # Idle => q # r /\ call'[q] = call[q]
  BY <1>3, CallFacts
<1>12. \A q \in Request : call'[q].op \in {"offset", "range", "pend"} =>
         /\ q # r /\ call'[q] = call[q]
         /\ call[q].node \in Node /\ call[q].consumer \in Consumer
  BY <1>11, CallFacts
<1>10. Stamps'
  <2>1. \A e : Passed(e)' <=> Passed(e)
    BY <1>1 DEF Passed, Clock
  <2>2. \A m \in Node, b \in Consumer : delivered'[m][b] \subseteq delivered[m][b] \cup got
    BY <1>8
  <2>3. \A q \in Request : call'[q].op = "pend" => call'[q] = call[q]
    BY <1>12
  <2> QED
    BY <1>1, <1>2, <1>4, <2>1, <2>2, <2>3, StampsKept
<1>13. Members'
  <2>1. \A m \in Node, b \in Consumer :
          /\ pending'[m][b] # <<>> => group'[m] /\ offset'[m][b] # NotMember
          /\ acked'[m][b] \subseteq delivered'[m][b]
    BY <1>1, <1>8 DEF IInv, Members
  <2> QED
    BY <1>1, <1>11, <1>12, <2>1 DEF IInv, Members
<1>14. Reads'
  <2>1. \A m \in Node, b \in Consumer :
          offset'[m][b] \in {Beginning, NotMember} \cup {ID(e) : e \in delivered'[m][b]}
    BY <1>1, <1>8 DEF IInv, Reads
  <2>2. ASSUME NEW q \in Request, call'[q].op = "range"
        PROVE  call'[q].offset \in {Beginning, NotMember}
                 \cup {ID(e) : e \in delivered'[call'[q].node][call'[q].consumer]}
    <3>1. /\ call'[q] = call[q] /\ call[q].node \in Node /\ call[q].consumer \in Consumer
          /\ call[q].op = "range"
      BY <1>12, <2>2
    <3>2. call[q].offset \in {Beginning, NotMember}
            \cup {ID(e) : e \in delivered[call[q].node][call[q].consumer]}
      BY <3>1 DEF IInv, Reads
    <3> QED
      BY <1>8, <3>1, <3>2
  <2>3. \A q \in Request :
          call'[q].op = "pend" => ToSet(call'[q].todo) \subseteq ToSet(call'[q].got)
    BY <1>1, <1>12 DEF IInv, Reads
  <2> QED
    BY <2>1, <2>2, <2>3 DEF Reads
<1>15. NothingForgotten'
  BY <1>1, <1>5, <1>8 DEF IInv, NothingForgotten
<1>16. Pended'
  BY <1>1, <1>12 DEF IInv, Pended
<1>17. InOrder'
  <2>1. \A m \in Node, b \in Consumer :
          \A x \in delivered'[m][b], e \in Entry :
            Ahead(log'[m], e, x) => e \in delivered'[m][b] \cup moved'[m][b]
    BY <1>1, <1>6, <1>8 DEF IInv, InOrder
  <2>2. ASSUME NEW q \in Request, call'[q].op = "pend"
        PROVE  \A x \in ToSet(call'[q].got), e \in Entry :
                 Ahead(log'[call'[q].node], e, x) =>
                   e \in delivered'[call'[q].node][call'[q].consumer]
                           \cup moved'[call'[q].node][call'[q].consumer] \cup ToSet(call'[q].got)
    <3>1. /\ call'[q] = call[q] /\ call[q].node \in Node /\ call[q].consumer \in Consumer
          /\ call[q].op = "pend"
      BY <1>12, <2>2
    <3>2. delivered[call[q].node][call[q].consumer] \subseteq delivered'[call[q].node][call[q].consumer]
      BY <1>8, <3>1
    <3> QED
      BY <1>1, <3>1, <3>2 DEF IInv, InOrder
  <2> QED
    BY <2>1, <2>2 DEF InOrder
<1> QED
  BY <1>9, <1>10, <1>13, <1>14, <1>15, <1>16, <1>17 DEF IInv

LEMMA XAckKeepsIInv ==
  ASSUME IInv, NEW n \in Node, NEW c \in Consumer, NEW e \in delivered[n][c], XAck(n, c, e)
  PROVE  IInv'
<1> DEFINE I == {i \in DOMAIN pending[n][c] : pending[n][c][i] # ID(e)}
           left == Picked(pending[n][c], I)
<1>1. /\ UNCHANGED <<now, skew, log, sequence, disk, group, call, msgs>>
      /\ UNCHANGED <<delivered, moved>>
      /\ group[n] /\ offset[n][c] # NotMember
      /\ offset' = [offset EXCEPT ![n][c] = ID(e)]
      /\ pending' = [pending EXCEPT ![n][c] = left]
      /\ acked' = [acked EXCEPT ![n][c] = @ \cup {e}]
  BY DEF XAck, Acknowledge, clocks, logs
<1>2. /\ pending \in [Node -> [Consumer -> Seq(IDs)]]
      /\ offset \in [Node -> [Consumer -> Offset]]
      /\ acked \in [Node -> [Consumer -> SUBSET Entry]]
      /\ delivered \in [Node -> [Consumer -> SUBSET Entry]]
  BY DEF IInv, Types
<1>3. e \in Entry /\ ID(e) \in Offset /\ ID(e) # NotMember
  <2>1. e \in Entry
    BY <1>2
  <2> QED
    BY <2>1, EntryFacts DEF ID, IDs, Offset, NotMember
<1>4. /\ left \in Seq(IDs)
      /\ ToSet(left) = {pending[n][c][i] : i \in I}
  <2>1. pending[n][c] \in Seq(IDs) /\ I \in SUBSET DOMAIN pending[n][c]
    BY <1>2
  <2> HIDE DEF I
  <2> QED
    BY <2>1, PickedFacts
<1>5. ToSet(left) = ToSet(pending[n][c]) \ {ID(e)}
  BY <1>4 DEF ToSet
<1> HIDE DEF left
<1>6. /\ pending' \in [Node -> [Consumer -> Seq(IDs)]]
      /\ ToSet(pending'[n][c]) = ToSet(pending[n][c]) \ {ID(e)}
      /\ \A m \in Node, b \in Consumer : m # n \/ b # c => pending'[m][b] = pending[m][b]
  BY <1>1, <1>2, <1>4, <1>5
<1>7. /\ offset' \in [Node -> [Consumer -> Offset]]
      /\ offset'[n][c] = ID(e)
      /\ \A m \in Node, b \in Consumer : m # n \/ b # c => offset'[m][b] = offset[m][b]
  BY <1>1, <1>2, <1>3
<1>8. /\ acked' \in [Node -> [Consumer -> SUBSET Entry]]
      /\ acked'[n][c] = acked[n][c] \cup {e}
      /\ \A m \in Node, b \in Consumer : m # n \/ b # c => acked'[m][b] = acked[m][b]
  BY <1>1, <1>2, <1>3
<1>9. Types' /\ Lists'
  BY <1>1, <1>6, <1>7, <1>8 DEF IInv, Types, Lists
<1>10. Stamps'
  BY <1>1 DEF IInv, Stamps, Passed, Clock
<1>11. Members'
  <2>1. \A m \in Node, b \in Consumer :
          /\ pending'[m][b] # <<>> => group'[m] /\ offset'[m][b] # NotMember
          /\ acked'[m][b] \subseteq delivered'[m][b]
    BY <1>1, <1>3, <1>6, <1>7, <1>8 DEF IInv, Members
  <2>2. \A q \in Request :
          /\ call'[q] # Idle => group'[call'[q].node]
          /\ call'[q].op \in {"offset", "range", "pend"} =>
               offset'[call'[q].node][call'[q].consumer] # NotMember
    BY <1>1, <1>3, <1>7, CallFacts DEF IInv, Members
  <2> QED
    BY <2>1, <2>2 DEF Members
<1>12. Reads'
  <2>1. \A m \in Node, b \in Consumer :
          offset'[m][b] \in {Beginning, NotMember} \cup {ID(f) : f \in delivered'[m][b]}
    BY <1>1, <1>7 DEF IInv, Reads
  <2> QED
    BY <1>1, <2>1 DEF IInv, Reads
<1>13. NothingForgotten'
  <2>1. SUFFICES ASSUME NEW m \in Node, NEW b \in Consumer, NEW f \in delivered[m][b] \ acked'[m][b]
                 PROVE  ID(f) \in ToSet(pending'[m][b])
    BY <1>1 DEF NothingForgotten
  <2>2. f \in Entry /\ f \notin acked[m][b] /\ (m = n /\ b = c => f # e)
    BY <1>2, <1>8, <2>1
  <2>3. ID(f) \in ToSet(pending[m][b])
    BY <2>1, <2>2 DEF IInv, NothingForgotten
  <2>4. m = n /\ b = c => ID(f) # ID(e)
    BY <1>3, <2>2, EntryFacts
  <2> QED
    BY <1>6, <2>3, <2>4
<1>14. Pended'
  <2>1. SUFFICES ASSUME NEW q \in Request, call[q].op = "pend", NEW f \in ToSet(call[q].got)
                 PROVE  \/ f \in acked'[call[q].node][call[q].consumer]
                        \/ ID(f) \in ToSet(pending'[call[q].node][call[q].consumer])
                        \/ f \in ToSet(call[q].todo)
    BY <1>1 DEF Pended
  <2>2. \/ f \in acked[call[q].node][call[q].consumer]
        \/ ID(f) \in ToSet(pending[call[q].node][call[q].consumer])
        \/ f \in ToSet(call[q].todo)
    BY <2>1 DEF IInv, Pended
  <2>3. call[q].node \in Node /\ call[q].consumer \in Consumer /\ f \in Entry
    BY <2>1, CallFacts, ListFacts
  <2>4. f # e => ID(f) # ID(e)
    BY <1>3, <2>3, EntryFacts
  <2> QED
    BY <1>6, <1>8, <2>2, <2>3, <2>4
<1>15. InOrder'
  BY <1>1 DEF IInv, InOrder
<1> QED
  BY <1>9, <1>10, <1>11, <1>12, <1>13, <1>14, <1>15 DEF IInv

(* A new element goes behind all others.                                   *)
LEMMA AppendFacts ==
  ASSUME NEW X, NEW list \in Seq(X), Distinct(list), NEW x \in X \ ToSet(list)
  PROVE  /\ Distinct(Append(list, x))
         /\ \A e, f \in X : Ahead(Append(list, x), e, f) => f = x \/ Ahead(list, e, f)
<1>1. /\ DOMAIN list = 1 .. Len(list) /\ Len(list) \in Nat
      /\ DOMAIN Append(list, x) = 1 .. Len(list) + 1
      /\ Append(list, x)[Len(list) + 1] = x
      /\ \A k \in 1 .. Len(list) : Append(list, x)[k] = list[k]
  OBVIOUS
<1>2. \A k \in 1 .. Len(list) : list[k] # x
  BY <1>1 DEF ToSet
<1>3. \A k \in 1 .. Len(list) + 1 : k \in 1 .. Len(list) \/ k = Len(list) + 1
  BY <1>1
<1>4. Distinct(Append(list, x))
  BY <1>1, <1>2, <1>3 DEF Distinct
<1>5. ASSUME NEW e \in X, NEW f \in X, Ahead(Append(list, x), e, f), f # x
      PROVE  Ahead(list, e, f)
  <2>1. PICK i \in 1 .. Len(list) + 1, j \in 1 .. Len(list) + 1 :
          i < j /\ Append(list, x)[i] = e /\ Append(list, x)[j] = f
    BY <1>1, <1>5 DEF Ahead
  <2>2. i \in 1 .. Len(list) /\ j \in 1 .. Len(list)
    BY <1>1, <1>3, <1>5, <2>1
  <2> QED
    BY <1>1, <2>1, <2>2 DEF Ahead
<1> QED
  BY <1>4, <1>5

LEMMA XAddKeepsIInv ==
  ASSUME IInv, NEW n \in Node, XAdd(n)
  PROVE  IInv'
<1>2. /\ log \in [Node -> Seq(Entry)] /\ Distinct(log[n])
      /\ sequence \in [Node -> Nat]
  BY DEF IInv, Types, Lists
<1>3. Clock(n) \in Nat
  BY DEF IInv, Types, Clock
<1>4. PICK entry \in Entry : entry = [ts |-> Clock(n), seq |-> sequence[n] + 1, node |-> n]
  <2>1. sequence[n] + 1 \in Nat \ {0}
    BY <1>2
  <2>2. [ts |-> Clock(n), seq |-> sequence[n] + 1, node |-> n] \in Entry
    BY <1>3, <2>1 DEF Entry
  <2> QED
    BY <2>2
<1> DEFINE longer == Append(log[n], entry)
           after == applyRetention(longer, Clock(n))
<1>1. /\ UNCHANGED <<now, skew, disk, group, offset, pending, call, msgs>>
      /\ UNCHANGED <<delivered, acked, moved>>
      /\ sequence' = [sequence EXCEPT ![n] = @ + 1]
      /\ log' = [log EXCEPT ![n] = after]
  BY <1>4 DEF XAdd, clocks, groups, history
<1>5. ~Passed(entry)
  BY <1>2, <1>4 DEF Passed
<1>6. /\ longer \in Seq(Entry) /\ ToSet(longer) = ToSet(log[n]) \cup {entry}
      /\ Distinct(longer)
      /\ \A e, f \in Entry : Ahead(longer, e, f) => f = entry \/ Ahead(log[n], e, f)
  <2>1. log[n] \in Seq(Entry) /\ entry \in Entry \ ToSet(log[n])
    BY <1>2, <1>5 DEF IInv, Stamps
  <2> QED
    BY <1>2, <2>1, ListFacts, AppendFacts
<1> HIDE DEF longer
<1>7. /\ after \in Seq(Entry) /\ Distinct(after) /\ Len(after) <= MaxEntries
      /\ ToSet(after) \subseteq ToSet(longer)
      /\ \A e, f \in Entry : Ahead(after, e, f) => Ahead(longer, e, f)
  BY <1>3, <1>6, RetentionFacts, RetainedFacts
<1> HIDE DEF after
<1>8. /\ log' \in [Node -> Seq(Entry)] /\ log'[n] = after
      /\ \A m \in Node \ {n} : log'[m] = log[m]
  BY <1>1, <1>2, <1>7
<1>10. /\ sequence' \in [Node -> Nat] /\ sequence'[n] = sequence[n] + 1
       /\ \A m \in Node \ {n} : sequence'[m] = sequence[m]
  BY <1>1, <1>2
<1>11. Types'
  BY <1>1, <1>8, <1>10 DEF IInv, Types
<1>12. Lists'
  BY <1>1, <1>7, <1>8 DEF IInv, Lists
<1>13. \A e \in Entry : Passed(e) => Passed(e)'
  <2>1. \A e \in Entry : e.node \in Node /\ e.seq \in Nat
    BY EntryFacts
  <2>2. \A m \in Node : sequence[m] \in Nat /\ sequence'[m] \in Nat /\ sequence[m] <= sequence'[m]
    <3>1. TAKE m \in Node
    <3>2. CASE m = n
      BY <1>2, <1>10, <3>2
    <3>3. CASE m # n
      BY <1>2, <1>10, <3>3
    <3> QED
      BY <3>2, <3>3
  <2>3. \A m \in Node : Clock(m)' = Clock(m)
    BY <1>1 DEF Clock
  <2> QED
    BY <2>1, <2>2, <2>3 DEF Passed
<1>14. Passed(entry)'
  BY <1>1, <1>3, <1>4, <1>10 DEF Passed, Clock
<1>15. Stamps'
  <2>1. \A m \in Node : ToSet(log'[m]) \subseteq ToSet(log[m]) \cup {entry}
    BY <1>6, <1>7, <1>8
  <2>2. {entry} \in SUBSET Entry
    OBVIOUS
  <2> QED
    BY <1>1, <1>13, <1>14, <2>1, <2>2, StampsKept
<1>16. Members' /\ NothingForgotten' /\ Pended'
  BY <1>1 DEF IInv, Members, NothingForgotten, Pended
<1>17. Reads'
  BY <1>1 DEF IInv, Reads
<1>18. InOrder'
  <2>1. ASSUME NEW m \in Node, NEW x \in Entry, Passed(x), NEW e \in Entry, Ahead(log'[m], e, x)
        PROVE  Ahead(log[m], e, x)
    <3>1. x # entry
      BY <1>5, <2>1
    <3>2. CASE m = n
      BY <1>6, <1>7, <1>8, <2>1, <3>1, <3>2
    <3>3. CASE m # n
      BY <1>8, <2>1, <3>3
    <3> QED
      BY <3>2, <3>3
  <2>2. \A m \in Node, b \in Consumer :
          \A x \in delivered[m][b], e \in Entry :
            Ahead(log'[m], e, x) => e \in delivered[m][b] \cup moved[m][b]
    BY <2>1 DEF IInv, Types, Stamps, InOrder
  <2>3. ASSUME NEW q \in Request, call[q].op = "pend"
        PROVE  \A x \in ToSet(call[q].got), e \in Entry :
                 Ahead(log'[call[q].node], e, x) =>
                   e \in delivered[call[q].node][call[q].consumer]
                           \cup moved[call[q].node][call[q].consumer] \cup ToSet(call[q].got)
    <3>1. call[q].node \in Node /\ ToSet(call[q].got) \subseteq Entry
      BY <2>3, CallFacts, ListFacts
    <3>2. \A x \in ToSet(call[q].got) : Passed(x)
      BY <2>3 DEF IInv, Stamps
    <3> QED
      BY <2>1, <2>3, <3>1, <3>2 DEF IInv, InOrder
  <2> QED
    BY <1>1, <2>2, <2>3 DEF InOrder
<1> QED
  BY <1>11, <1>12, <1>15, <1>16, <1>17, <1>18 DEF IInv

LEMMA DeliverKeepsIInv ==
  ASSUME IInv, NEW msg \in msgs, Deliver(msg)
  PROVE  IInv'
<1> DEFINE n == msg.to
           after == Merged(log[n], msg.log, Clock(n))
           put == [c \in Consumer |-> Moved(log[n], after, Given(n, c))]
<1>1. /\ UNCHANGED <<now, skew, sequence, disk, group, offset, pending, call>>
      /\ UNCHANGED <<delivered, acked>>
      /\ msgs' = msgs \ {msg}
      /\ log' = [log EXCEPT ![n] = after]
      /\ moved' = [moved EXCEPT ![n] = [c \in Consumer |-> @[c] \cup put[c]]]
  BY DEF Deliver, clocks, groups
<1>2. /\ log \in [Node -> Seq(Entry)] /\ moved \in [Node -> [Consumer -> SUBSET Entry]]
      /\ n \in Node /\ msg.log \in Seq(Entry)
      /\ \A m \in Node : Distinct(log[m]) /\ Len(log[m]) <= MaxEntries
      /\ Distinct(msg.log)
  BY DEF IInv, Types, Lists
<1>3. Clock(n) \in Nat
  BY <1>2 DEF IInv, Types, Clock
<1>4. /\ after \in Seq(Entry) /\ Distinct(after) /\ Len(after) <= MaxEntries
      /\ ToSet(after) \subseteq ToSet(log[n]) \cup ToSet(msg.log)
      /\ ToSet(after) \subseteq Entry
  <2>1. log[n] \in Seq(Entry)
    BY <1>2
  <2>2. /\ after \in Seq(Entry) /\ Distinct(after) /\ Len(after) <= MaxEntries
        /\ ToSet(after) \subseteq ToSet(log[n]) \cup ToSet(msg.log)
    BY <1>2, <1>3, <2>1, MergedFacts
  <2> HIDE DEF after
  <2> QED
    BY <2>2, ListFacts
<1>5. \A c \in Consumer : put[c] \subseteq Entry
  BY <1>4 DEF Moved
<1>6. \A c \in Consumer : \A x \in Given(n, c), e \in Entry :
        Ahead(after, e, x) => e \in put[c] \/ Ahead(log[n], e, x)
  <2>1. \A x, e \in Entry : Ahead(after, e, x) => e \in ToSet(after)
    BY DEF Ahead, ToSet
  <2>2. \A c \in Consumer : Given(n, c) \subseteq Entry
    BY <1>2, CallFacts, ListFacts DEF Given, IInv, Types
  <2> QED
    BY <2>1, <2>2 DEF Moved
<1> HIDE DEF n, after, put
<1>7. /\ log' \in [Node -> Seq(Entry)] /\ log'[n] = after
      /\ \A m \in Node \ {n} : log'[m] = log[m]
  BY <1>1, <1>2, <1>4
<1>8. /\ moved' \in [Node -> [Consumer -> SUBSET Entry]]
      /\ \A c \in Consumer : moved'[n][c] = moved[n][c] \cup put[c]
      /\ \A m \in Node \ {n} : moved'[m] = moved[m]
  BY <1>1, <1>2, <1>5
<1>10. Types'
  BY <1>1, <1>7, <1>8 DEF IInv, Types
<1>11. Lists'
  BY <1>1, <1>4, <1>7 DEF IInv, Lists
<1>12. Stamps'
  <2>1. \A e : Passed(e)' <=> Passed(e)
    BY <1>1 DEF Passed, Clock
  <2>2. \A e \in ToSet(after) : Passed(e)
    BY <1>2, <1>4 DEF IInv, Stamps
  <2>3. \A m \in Node : ToSet(log'[m]) \subseteq ToSet(log[m]) \cup ToSet(after)
    BY <1>7
  <2>4. ToSet(after) \in SUBSET Entry
    BY <1>4
  <2> QED
    BY <1>1, <2>1, <2>2, <2>3, <2>4, StampsKept
<1>13. Members' /\ NothingForgotten' /\ Pended'
  BY <1>1 DEF IInv, Members, NothingForgotten, Pended
<1>14. Reads'
  BY <1>1 DEF IInv, Reads
<1>15. InOrder'
  <2>1. ASSUME NEW m \in Node, NEW b \in Consumer, NEW x \in Given(m, b), NEW e \in Entry,
               Ahead(log'[m], e, x)
        PROVE  Ahead(log[m], e, x) \/ e \in moved'[m][b]
    <3>1. CASE m = n
      BY <1>6, <1>7, <1>8, <2>1, <3>1
    <3>2. CASE m # n
      BY <1>7, <2>1, <3>2
    <3> QED
      BY <3>1, <3>2
  <2>2. \A m \in Node, b \in Consumer : moved[m][b] \subseteq moved'[m][b]
    BY <1>8
  <2>3. ASSUME NEW m \in Node, NEW b \in Consumer, NEW x \in delivered[m][b], NEW e \in Entry,
               Ahead(log'[m], e, x)
        PROVE  e \in delivered[m][b] \cup moved'[m][b]
    <3>1. x \in Given(m, b)
      BY DEF Given
    <3>2. Ahead(log[m], e, x) => e \in delivered[m][b] \cup moved[m][b]
      BY DEF IInv, InOrder
    <3> QED
      BY <2>1, <2>2, <2>3, <3>1, <3>2
  <2>4. ASSUME NEW q \in Request, call[q].op = "pend"
        PROVE  \A x \in ToSet(call[q].got), e \in Entry :
                 Ahead(log'[call[q].node], e, x) =>
                   e \in delivered[call[q].node][call[q].consumer]
                           \cup moved'[call[q].node][call[q].consumer] \cup ToSet(call[q].got)
    <3>1. call[q].node \in Node /\ call[q].consumer \in Consumer
      BY <2>4, CallFacts
    <3>2. ToSet(call[q].got) \subseteq Given(call[q].node, call[q].consumer)
      BY <2>4 DEF Given
    <3>3. \A x \in ToSet(call[q].got), e \in Entry :
            Ahead(log[call[q].node], e, x) =>
              e \in delivered[call[q].node][call[q].consumer]
                      \cup moved[call[q].node][call[q].consumer] \cup ToSet(call[q].got)
      BY <2>4 DEF IInv, InOrder
    <3> QED
      BY <2>1, <2>2, <3>1, <3>2, <3>3
  <2> QED
    BY <1>1, <2>3, <2>4 DEF InOrder
<1> QED
  BY <1>10, <1>11, <1>12, <1>13, <1>14, <1>15 DEF IInv

LEMMA RestartKeepsIInv ==
  ASSUME IInv, NEW n \in Node, Restart(n)
  PROVE  IInv'
<1>1. /\ UNCHANGED <<skew, disk, msgs>>
      /\ now < MaxTime /\ now' = now + 1
      /\ log' = [log EXCEPT ![n] = Merged(<<>>, disk[n], now' + skew[n])]
      /\ sequence' = [sequence EXCEPT ![n] = 0]
      /\ group' = [group EXCEPT ![n] = FALSE]
      /\ offset' = [offset EXCEPT ![n] = NoOffsets]
      /\ pending' = [pending EXCEPT ![n] = NoPending]
      /\ call' = [r \in Request |-> IF call[r] # Idle /\ call[r].node = n THEN Idle ELSE call[r]]
      /\ delivered' = [delivered EXCEPT ![n] = [c \in Consumer |-> {}]]
      /\ acked' = [acked EXCEPT ![n] = [c \in Consumer |-> {}]]
      /\ moved' = [moved EXCEPT ![n] = [c \in Consumer |-> {}]]
  BY DEF Restart
<1>2. /\ now \in 0 .. MaxTime /\ now \in Nat /\ skew \in [Node -> Nat]
      /\ log \in [Node -> Seq(Entry)] /\ disk \in [Node -> Seq(Entry)]
      /\ sequence \in [Node -> Nat] /\ group \in [Node -> BOOLEAN]
      /\ offset \in [Node -> [Consumer -> Offset]]
      /\ pending \in [Node -> [Consumer -> Seq(IDs)]]
      /\ delivered \in [Node -> [Consumer -> SUBSET Entry]]
      /\ acked \in [Node -> [Consumer -> SUBSET Entry]]
      /\ moved \in [Node -> [Consumer -> SUBSET Entry]]
  BY DEF IInv, Types
<1>3. PICK after \in Seq(Entry) : after = Merged(<<>>, disk[n], now' + skew[n])
      /\ Distinct(after) /\ Len(after) <= MaxEntries /\ ToSet(after) \subseteq ToSet(disk[n])
  <2>1. <<>> \in Seq(Entry) /\ Distinct(<<>>) /\ Len(<<>>) = 0 /\ ToSet(<<>>) = {}
    BY DEF Distinct, ToSet
  <2>2. disk[n] \in Seq(Entry) /\ Distinct(disk[n])
    BY <1>2 DEF IInv, Lists
  <2>3. now' + skew[n] \in Nat
    BY <1>1, <1>2
  <2>4. Len(<<>>) <= MaxEntries
    BY <2>1, ConstantFacts
  <2>5. /\ Merged(<<>>, disk[n], now' + skew[n]) \in Seq(Entry)
        /\ Distinct(Merged(<<>>, disk[n], now' + skew[n]))
        /\ Len(Merged(<<>>, disk[n], now' + skew[n])) <= MaxEntries
        /\ ToSet(Merged(<<>>, disk[n], now' + skew[n])) \subseteq ToSet(<<>>) \cup ToSet(disk[n])
    BY <2>1, <2>2, <2>3, <2>4, MergedFacts
  <2> QED
    BY <2>1, <2>5
<1>4. /\ log' \in [Node -> Seq(Entry)] /\ log'[n] = after
      /\ \A m \in Node \ {n} : log'[m] = log[m]
  BY <1>1, <1>2, <1>3
<1>6. /\ moved' \in [Node -> [Consumer -> SUBSET Entry]] /\ \A m \in Node \ {n} : moved'[m] = moved[m]
      /\ sequence' \in [Node -> Nat] /\ \A m \in Node \ {n} : sequence'[m] = sequence[m]
      /\ group' \in [Node -> BOOLEAN] /\ \A m \in Node \ {n} : group'[m] = group[m]
      /\ now' \in 0 .. MaxTime
  BY <1>1, <1>2, ConstantFacts
<1>7. /\ offset' \in [Node -> [Consumer -> Offset]] /\ offset'[n] = NoOffsets
      /\ \A m \in Node \ {n} : offset'[m] = offset[m]
  BY <1>1, <1>2 DEF NoOffsets, Offset
<1>8. /\ pending' \in [Node -> [Consumer -> Seq(IDs)]] /\ pending'[n] = NoPending
      /\ \A m \in Node \ {n} : pending'[m] = pending[m]
  <2>1. NoPending \in [Consumer -> Seq(IDs)]
    BY DEF NoPending
  <2> QED
    BY <1>1, <1>2, <2>1
<1>9. /\ delivered' \in [Node -> [Consumer -> SUBSET Entry]]
      /\ acked' \in [Node -> [Consumer -> SUBSET Entry]]
      /\ \A c \in Consumer : delivered'[n][c] = {} /\ acked'[n][c] = {}
      /\ \A m \in Node \ {n} : delivered'[m] = delivered[m] /\ acked'[m] = acked[m]
  BY <1>1, <1>2
<1>10. call' \in [Request -> Call]
  BY <1>1, CallFacts
<1>11. ASSUME NEW r \in Request, call'[r] # Idle
       PROVE  call'[r] = call[r] /\ call[r] # Idle /\ call[r].node \in Node \ {n}
              /\ call[r].consumer \in Consumer
  <2>1. call'[r] = IF call[r] # Idle /\ call[r].node = n THEN Idle ELSE call[r]
    BY <1>1
  <2>2. call'[r] = call[r] /\ call[r] # Idle /\ call[r].node # n
    BY <1>11, <2>1
  <2> QED
    BY <2>2, CallFacts
<1>12. ASSUME NEW r \in Request, call'[r].op \in {"offset", "range", "pend"}
       PROVE  call'[r] = call[r] /\ call[r].node \in Node \ {n} /\ call[r].consumer \in Consumer
  <2>1. call'[r] # Idle
    BY <1>12 DEF Idle
  <2> QED
    BY <1>11, <2>1
<1>13. Types'
  BY <1>1, <1>4, <1>6, <1>7, <1>8, <1>9, <1>10 DEF IInv, Types
<1>14. Lists'
  BY <1>1, <1>3, <1>4 DEF IInv, Lists
<1>15. Stamps'
  <2>1. \A e \in Entry : Passed(e) => Passed(e)'
    <3>1. SUFFICES ASSUME NEW e \in Entry, Passed(e)
                   PROVE  Passed(e)'
      OBVIOUS
    <3> DEFINE m == e.node
    <3>3. m \in Node /\ e.ts \in Nat
      BY EntryFacts
    <3>4. skew[m] \in Nat /\ now \in Nat
      BY <1>2, <3>3
    <3>2. Clock(m) \in Nat /\ Clock(m)' = Clock(m) + 1
      <4>1. now' = now + 1 /\ skew' = skew
        BY <1>1
      <4>2. Clock(m)' = (now + 1) + skew[m]
        BY <4>1 DEF Clock
      <4> QED
        BY <3>4, <4>2 DEF Clock
    <3> QED
      BY <3>1, <3>2, <3>3 DEF Passed
  <2>2. \A m \in Node : ToSet(log'[m]) \subseteq ToSet(log[m]) \cup ToSet(disk[m]) \cup {}
    BY <1>3, <1>4
  <2>3. /\ {} \in SUBSET Entry
        /\ \A m \in Node, c \in Consumer : delivered'[m][c] \subseteq delivered[m][c] \cup {}
    BY <1>9
  <2>4. \A r \in Request : call'[r].op = "pend" => call'[r] = call[r]
    BY <1>12
  <2> QED
    BY <1>1, <2>1, <2>2, <2>3, <2>4, StampsKept
<1>16. Members'
  <2>1. \A m \in Node, b \in Consumer :
          /\ pending'[m][b] # <<>> => group'[m] /\ offset'[m][b] # NotMember
          /\ acked'[m][b] \subseteq delivered'[m][b]
    <3>1. \A b \in Consumer : pending'[n][b] = <<>>
      BY <1>8 DEF NoPending
    <3>2. TAKE m \in Node, b \in Consumer
    <3>3. CASE m = n
      BY <1>9, <3>1, <3>3
    <3>4. CASE m # n
      <4>1. /\ pending'[m] = pending[m] /\ group'[m] = group[m] /\ offset'[m] = offset[m]
            /\ delivered'[m] = delivered[m] /\ acked'[m] = acked[m]
        BY <1>6, <1>7, <1>8, <1>9, <3>4
      <4> QED
        BY <4>1 DEF IInv, Members
    <3> QED
      BY <3>3, <3>4
  <2>2. \A r \in Request :
          /\ call'[r] # Idle => group'[call'[r].node]
          /\ call'[r].op \in {"offset", "range", "pend"} =>
               offset'[call'[r].node][call'[r].consumer] # NotMember
    BY <1>6, <1>7, <1>11, <1>12 DEF IInv, Members
  <2> QED
    BY <2>1, <2>2 DEF Members
<1>17. Reads'
  <2>1. ASSUME NEW m \in Node, NEW b \in Consumer
        PROVE  offset'[m][b] \in {Beginning, NotMember} \cup {ID(e) : e \in delivered'[m][b]}
    <3>1. CASE m = n
      BY <1>7, <3>1 DEF NoOffsets
    <3>2. CASE m # n
      BY <1>7, <1>9, <3>2 DEF IInv, Reads
    <3> QED
      BY <3>1, <3>2
  <2>2. ASSUME NEW r \in Request, call'[r].op \in {"offset", "range", "pend"}
        PROVE  /\ call'[r].op = "range" =>
                    call'[r].offset \in {Beginning, NotMember}
                      \cup {ID(e) : e \in delivered'[call'[r].node][call'[r].consumer]}
               /\ call'[r].op = "pend" => ToSet(call'[r].todo) \subseteq ToSet(call'[r].got)
    <3>1. /\ call'[r] = call[r] /\ call[r].node \in Node \ {n} /\ call[r].consumer \in Consumer
      BY <1>12, <2>2
    <3>2. delivered'[call[r].node] = delivered[call[r].node]
      BY <1>9, <3>1
    <3> QED
      BY <3>1, <3>2 DEF IInv, Reads
  <2> QED
    BY <2>1, <2>2 DEF Reads
<1>18. NothingForgotten'
  BY <1>8, <1>9 DEF IInv, NothingForgotten
<1>19. Pended'
  <2>1. SUFFICES ASSUME NEW r \in Request, call'[r].op = "pend", NEW e \in ToSet(call'[r].got)
                 PROVE  \/ e \in acked'[call'[r].node][call'[r].consumer]
                        \/ ID(e) \in ToSet(pending'[call'[r].node][call'[r].consumer])
                        \/ e \in ToSet(call'[r].todo)
    BY DEF Pended
  <2>2. /\ call'[r] = call[r] /\ call[r].op = "pend" /\ e \in ToSet(call[r].got)
        /\ call[r].node \in Node \ {n} /\ call[r].consumer \in Consumer
    BY <1>12, <2>1
  <2>3. \/ e \in acked[call[r].node][call[r].consumer]
        \/ ID(e) \in ToSet(pending[call[r].node][call[r].consumer])
        \/ e \in ToSet(call[r].todo)
    BY <2>2 DEF IInv, Pended
  <2> QED
    BY <1>8, <1>9, <2>2, <2>3
<1>20. InOrder'
  <2>1. \A m \in Node, b \in Consumer :
          \A x \in delivered'[m][b], e \in Entry :
            Ahead(log'[m], e, x) => e \in delivered'[m][b] \cup moved'[m][b]
    <3>1. TAKE m \in Node, b \in Consumer
    <3>2. CASE m = n
      BY <1>9, <3>2
    <3>3. CASE m # n
      <4>1. log'[m] = log[m] /\ moved'[m] = moved[m] /\ delivered'[m] = delivered[m]
        BY <1>4, <1>6, <1>9, <3>3
      <4> QED
        BY <4>1 DEF IInv, InOrder
    <3> QED
      BY <3>2, <3>3
  <2>2. ASSUME NEW r \in Request, call'[r].op = "pend"
        PROVE  \A x \in ToSet(call'[r].got), e \in Entry :
                 Ahead(log'[call'[r].node], e, x) =>
                   e \in delivered'[call'[r].node][call'[r].consumer]
                           \cup moved'[call'[r].node][call'[r].consumer] \cup ToSet(call'[r].got)
    <3>1. /\ call'[r] = call[r] /\ call[r].op = "pend"
          /\ call[r].node \in Node \ {n} /\ call[r].consumer \in Consumer
      BY <1>12, <2>2
    <3>2. \A x \in ToSet(call[r].got), e \in Entry :
            Ahead(log[call[r].node], e, x) =>
              e \in delivered[call[r].node][call[r].consumer]
                      \cup moved[call[r].node][call[r].consumer] \cup ToSet(call[r].got)
      BY <3>1 DEF IInv, InOrder
    <3>3. /\ log'[call[r].node] = log[call[r].node]
          /\ moved'[call[r].node] = moved[call[r].node]
          /\ delivered'[call[r].node] = delivered[call[r].node]
      BY <1>4, <1>6, <1>9, <3>1
    <3> QED
      BY <3>1, <3>2, <3>3
  <2> QED
    BY <2>1, <2>2 DEF InOrder
<1> QED
  BY <1>13, <1>14, <1>15, <1>16, <1>17, <1>18, <1>19, <1>20 DEF IInv

(* Every step keeps it.                                                    *)
LEMMA NextKeepsIInv ==
  ASSUME IInv, [Next]_vars
  PROVE  IInv'
<1>1. CASE UNCHANGED vars
  BY <1>1, StutterKeepsIInv
<1>2. ASSUME NEW n \in Node, XAdd(n)
      PROVE  IInv'
  BY <1>2, XAddKeepsIInv
<1>3. ASSUME NEW n \in Node, NEW p \in Node, Send(n, p)
      PROVE  IInv'
  BY <1>3, SendKeepsIInv
<1>4. ASSUME NEW n \in Node, SaveSnapshot(n)
      PROVE  IInv'
  BY <1>4, SaveSnapshotKeepsIInv
<1>5. ASSUME NEW n \in Node, Restart(n)
      PROVE  IInv'
  BY <1>5, RestartKeepsIInv
<1>6. ASSUME NEW n \in Node, XGroupCreate(n)
      PROVE  IInv'
  BY <1>6, XGroupCreateKeepsIInv
<1>7. ASSUME NEW n \in Node, NEW c \in Consumer, NEW r \in Request, NEW limit \in Limit,
             XReadGroup(r, n, c, limit)
      PROVE  IInv'
  BY <1>7, XReadGroupKeepsIInv
<1>8. ASSUME NEW n \in Node, NEW c \in Consumer, NEW e \in delivered[n][c], XAck(n, c, e)
      PROVE  IInv'
  BY <1>8, XAckKeepsIInv
<1>9. ASSUME NEW r \in Request,
             \/ AddConsumer(r) \/ AddConsumerExists(r) \/ GetOffset(r)
             \/ ReadRange(r) \/ AddPending(r) \/ Returned(r)
      PROVE  IInv'
  BY <1>9, AddConsumerKeepsIInv, AddConsumerExistsKeepsIInv, GetOffsetKeepsIInv,
     ReadRangeKeepsIInv, AddPendingKeepsIInv, ReturnedKeepsIInv
<1>10. ASSUME NEW msg \in msgs, Deliver(msg)
       PROVE  IInv'
  BY <1>10, DeliverKeepsIInv
<1>11. CASE Tick
  BY <1>11, TickKeepsIInv
<1> QED
  BY <1>1, <1>2, <1>3, <1>4, <1>5, <1>6, <1>7, <1>8, <1>9, <1>10, <1>11 DEF Next

(* The inductive invariant holds in every state.                           *)
THEOREM Invariance == Spec => []IInv
<1>1. Init => IInv
  BY InitIInv
<1>2. IInv /\ [Next]_vars => IInv'
  BY NextKeepsIInv
<1> QED
  BY <1>1, <1>2, PTL DEF Spec

----------------------------------------------------------------------------
(* Every variable has values of its type, and no entry is in a log twice.  *)
(* (entry.go, consumer_group.go)                                           *)
THEOREM TypeCorrect == Spec => []TypeOK
<1>1. ASSUME IInv
      PROVE  TypeOK
  <2>1. now \in 0 .. MaxTime
    BY <1>1 DEF IInv, Types
  <2>2. ASSUME NEW n \in Node
        PROVE  /\ log[n] \in Seq(Entry) /\ Len(log[n]) <= MaxEntries
               /\ Cardinality(ToSet(log[n])) = Len(log[n])
    <3>1. log[n] \in Seq(Entry) /\ Distinct(log[n]) /\ Len(log[n]) <= MaxEntries
      BY <1>1 DEF IInv, Types, Lists
    <3> QED
      BY <3>1, DistinctFacts
  <2>3. ASSUME NEW n \in Node
        PROVE  /\ sequence[n] \in Nat
               /\ \A c \in Consumer : offset[n][c] \in {Beginning, NotMember} \cup (Nat \X Nat \X Node)
    BY <1>1 DEF IInv, Types, Offset, IDs
  <2>4. /\ \A n \in Node, c \in Consumer :
             /\ pending[n][c] # <<>> => group[n] /\ offset[n][c] # NotMember
             /\ acked[n][c] \subseteq delivered[n][c]
        /\ \A r \in Request : call[r] # Idle => group[call[r].node]
    BY <1>1 DEF IInv, Members
  <2> QED
    BY <2>1, <2>2, <2>3, <2>4 DEF TypeOK
<1> QED
  BY <1>1, Invariance, PTL

(* What a consumer was given and never acknowledged is pending for it,     *)
(* whatever other requests of it acknowledge in the middle of its reads.   *)
(* (XReadGroup, UpdateOffset)                                              *)
THEOREM GivenIsRemembered == Spec => []NothingForgotten
<1>1. IInv => NothingForgotten
  BY DEF IInv
<1> QED
  BY <1>1, Invariance, PTL

(* A consumer was given all that its offset is past, entries that came by  *)
(* gossip included, but for those a merge put before one that it had been  *)
(* given.  (XReadGroup, Range, MergeSnapshot)                              *)
THEOREM GivenInOrder == Spec => []NothingSkipped
<1>1. ASSUME IInv
      PROVE  NothingSkipped
  <2>1. SUFFICES ASSUME NEW n \in Node, NEW c \in Consumer,
                        NEW i \in DOMAIN log[n], NEW j \in DOMAIN log[n],
                        i <= j, offset[n][c] = ID(log[n][j])
                 PROVE  log[n][i] \in delivered[n][c] \cup moved[n][c]
    BY DEF NothingSkipped
  <2>2. log[n] \in Seq(Entry) /\ delivered[n][c] \subseteq Entry
    BY <1>1 DEF IInv, Types
  <2>3. log[n][i] \in Entry /\ log[n][j] \in Entry /\ i \in Nat /\ j \in Nat
    BY <2>2
  <2>4. offset[n][c] \in {ID(e) : e \in delivered[n][c]}
    <3>1. offset[n][c] \in {Beginning, NotMember} \cup {ID(e) : e \in delivered[n][c]}
      BY <1>1 DEF IInv, Reads
    <3>2. offset[n][c] # Beginning /\ offset[n][c] # NotMember
      BY <2>1 DEF ID, Beginning, NotMember
    <3> QED
      BY <3>1, <3>2
  <2>5. log[n][j] \in delivered[n][c]
    BY <2>1, <2>2, <2>3, <2>4, EntryFacts
  <2>6. CASE i = j
    BY <2>5, <2>6
  <2>7. CASE i < j
    <3>1. Ahead(log[n], log[n][i], log[n][j])
      BY <2>7 DEF Ahead
    <3> QED
      BY <1>1, <2>3, <2>5, <3>1 DEF IInv, InOrder
  <2> QED
    BY <2>1, <2>3, <2>6, <2>7
<1> QED
  BY <1>1, Invariance, PTL

(* The logs two nodes get when one merges the other's, and the other what  *)
(* comes of that, hold the same fresh entries.                             *)
LEMMA MergesAgree ==
  ASSUME NEW a \in Seq(Entry), Distinct(a), Len(a) <= MaxEntries,
         NEW b \in Seq(Entry), Distinct(b), Len(b) <= MaxEntries,
         NEW t \in Nat, NEW u \in Nat, NEW e \in Entry,
         t <= e.ts + MaxAge, u <= e.ts + MaxAge
  PROVE  e \in ToSet(Merged(a, b, t)) <=> e \in ToSet(Merged(b, Merged(a, b, t), u))
<1> DEFINE one == Merged(a, b, t)
           other == Merged(b, one, u)
           A == ToSet(a)
           B == ToSet(b)
           S == ToSet(one)
           T == ToSet(other)
           Old(f, at) == at > f.ts + MaxAge
<1> SUFFICES e \in S <=> e \in T
  OBVIOUS
<1>1. /\ one \in Seq(Entry) /\ Distinct(one) /\ Len(one) <= MaxEntries
      /\ S \subseteq A \cup B
      /\ B \subseteq A => one = a
      /\ ~(B \subseteq A) =>
           \A f \in (A \cup B) \ S :
             Old(f, t) \/ (Len(one) = MaxEntries /\ \A g \in S : Precedes(f, g))
  <2>1. /\ one \in Seq(Entry) /\ Distinct(one) /\ Len(one) <= MaxEntries
        /\ S \subseteq A \cup B
        /\ B \subseteq A => one = a
        /\ ~(B \subseteq A) => Chosen(one, A \cup B, t)
    BY MergedFacts
  <2> HIDE DEF one
  <2> QED
    BY <2>1 DEF Chosen
<1> HIDE DEF one
<1>2. /\ other \in Seq(Entry) /\ Distinct(other) /\ Len(other) <= MaxEntries
      /\ T \subseteq B \cup S
      /\ S \subseteq B => other = b
      /\ ~(S \subseteq B) =>
           \A f \in (B \cup S) \ T :
             Old(f, u) \/ (Len(other) = MaxEntries /\ \A g \in T : Precedes(f, g))
  <2>1. /\ other \in Seq(Entry) /\ Distinct(other) /\ Len(other) <= MaxEntries
        /\ T \subseteq B \cup S
        /\ S \subseteq B => other = b
        /\ ~(S \subseteq B) => Chosen(other, B \cup S, u)
    BY <1>1, MergedFacts
  <2> HIDE DEF other
  <2> QED
    BY <2>1 DEF Chosen
<1> HIDE DEF other
<1>3. /\ A \subseteq Entry /\ B \subseteq Entry /\ S \subseteq Entry /\ T \subseteq Entry
      /\ IsFiniteSet(A) /\ IsFiniteSet(B) /\ IsFiniteSet(S) /\ IsFiniteSet(T)
      /\ Cardinality(A) = Len(a) /\ Cardinality(B) = Len(b)
      /\ Cardinality(S) = Len(one) /\ Cardinality(T) = Len(other)
  BY <1>1, <1>2, ListFacts, DistinctFacts
<1>4. MaxEntries \in Nat /\ MaxAge \in Nat /\ e.ts \in Nat
  BY ConstantFacts, EntryFacts
<1> HIDE DEF A, B, S, T
<1>5. ~Old(e, t) /\ ~Old(e, u)
  BY <1>4
<1>6. ASSUME NEW K \in SUBSET Entry, IsFiniteSet(K), Cardinality(K) = MaxEntries,
             NEW L \in SUBSET Entry, IsFiniteSet(L), Cardinality(L) <= MaxEntries,
             K \subseteq L, e \in L
      PROVE  e \in K
  (* No room for another beside MaxEntries.                                *)
  <2>1. Cardinality(L) \in Nat /\ Cardinality(K) <= Cardinality(L)
    BY <1>6, FS_CardinalityType, FS_Subset
  <2>2. Cardinality(K) = Cardinality(L)
    BY <1>4, <1>6, <2>1
  <2> QED
    BY <1>6, <2>2, FS_Subset
<1>7. CASE B \subseteq A
  <2>1. one = a /\ S = A
    BY <1>1, <1>7 DEF S, A
  <2>2. CASE S \subseteq B
    <3>1. T = B
      BY <1>2, <2>2 DEF T, B
    <3>2. S = B
      BY <1>7, <2>1, <2>2
    <3> QED
      BY <3>1, <3>2
  <2>3. CASE ~(S \subseteq B)
    (* Nothing was dropped that is not too old: all of a has room.         *)
    <3>1. e \in T => e \in S
      BY <1>2, <1>7, <2>1
    <3>2. ASSUME e \in S, e \notin T
          PROVE  FALSE
      <4>1. Len(other) = MaxEntries /\ \A g \in T : Precedes(e, g)
        BY <1>2, <1>5, <2>3, <3>2
      <4>2. T \subseteq A /\ Cardinality(A) <= MaxEntries
        BY <1>2, <1>3, <1>7, <2>1
      <4> QED
        BY <1>3, <1>6, <2>1, <3>2, <4>1, <4>2
    <3> QED
      BY <3>1, <3>2
  <2> QED
    BY <2>2, <2>3
<1>8. CASE ~(B \subseteq A)
  <2>1. \A f \in (A \cup B) \ S :
          Old(f, t) \/ (Len(one) = MaxEntries /\ \A g \in S : Precedes(f, g))
    BY <1>1, <1>8
  <2>2. CASE S \subseteq B
    <3>1. T = B
      BY <1>2, <2>2 DEF T, B
    <3>2. ASSUME e \in B, e \notin S
          PROVE  FALSE
      <4>1. Len(one) = MaxEntries
        BY <1>5, <2>1, <3>2
      <4> QED
        BY <1>3, <1>6, <2>2, <3>2, <4>1
    <3> QED
      BY <2>2, <3>1, <3>2
  <2>3. CASE ~(S \subseteq B)
    <3>1. \A f \in (B \cup S) \ T :
            Old(f, u) \/ (Len(other) = MaxEntries /\ \A g \in T : Precedes(f, g))
      BY <1>2, <2>3
    <3>2. \A f \in Entry : Precedes(e, f) => ~Old(f, t) /\ ~Old(f, u)
      <4>1. \A f \in Entry : f.ts \in Nat /\ (Precedes(e, f) => e.ts <= f.ts)
        BY PrecedesFacts, EntryFacts
      <4> QED
        BY <1>4, <4>1
    <3>3. ASSUME e \in S, e \notin T
          PROVE  FALSE
      (* The MaxEntries that drove it out of other would have driven it    *)
      (* out of one.                                                       *)
      <4>1. Len(other) = MaxEntries /\ \A g \in T : Precedes(e, g)
        BY <1>5, <3>1, <3>3
      <4>2. T \subseteq S
        <5>1. SUFFICES ASSUME NEW g \in T, g \notin S
                       PROVE  FALSE
          OBVIOUS
        <5>2. g \in A \cup B /\ g \in Entry /\ Precedes(e, g) /\ ~Old(g, t)
          BY <1>1, <1>2, <1>3, <3>2, <4>1, <5>1
        <5>3. Precedes(g, e)
          BY <2>1, <3>3, <5>1, <5>2
        <5> QED
          BY <5>2, <5>3, PrecedesFacts
      <4> QED
        BY <1>1, <1>3, <1>6, <3>3, <4>1, <4>2
    <3>4. ASSUME e \in T, e \notin S
          PROVE  FALSE
      <4>1. e \in A \cup B
        BY <1>1, <1>2, <3>4
      <4>2. Len(one) = MaxEntries /\ \A g \in S : Precedes(e, g)
        BY <1>5, <2>1, <3>4, <4>1
      <4>3. S \subseteq T
        <5>1. SUFFICES ASSUME NEW g \in S, g \notin T
                       PROVE  FALSE
          OBVIOUS
        <5>2. g \in Entry /\ Precedes(e, g) /\ ~Old(g, u)
          BY <1>3, <3>2, <4>2, <5>1
        <5>3. Precedes(g, e)
          BY <3>1, <3>4, <5>1, <5>2
        <5> QED
          BY <5>2, <5>3, PrecedesFacts
      <4> QED
        BY <1>2, <1>3, <1>6, <3>4, <4>2, <4>3
    <3> QED
      BY <3>3, <3>4
  <2> QED
    BY <2>2, <2>3
<1> QED
  BY <1>7, <1>8 DEF S, T, one, other

(* A merge keeps a fresh entry just when fewer than MaxEntries of all that *)
(* both logs hold are newer.                                               *)
LEMMA MergeKeepsNewest ==
  ASSUME NEW a \in Seq(Entry), Distinct(a), Len(a) <= MaxEntries,
         NEW b \in Seq(Entry), Distinct(b), Len(b) <= MaxEntries,
         NEW t \in Nat, NEW e \in Entry, t <= e.ts + MaxAge
  PROVE  LET all == ToSet(a) \cup ToSet(b)
         IN  e \in ToSet(Merged(a, b, t)) <=>
               e \in all /\ Cardinality({f \in all : Precedes(e, f)}) < MaxEntries
<1> DEFINE one == Merged(a, b, t)
           A == ToSet(a)
           B == ToSet(b)
           S == ToSet(one)
           after == {f \in A \cup B : Precedes(e, f)}
           Old(f) == t > f.ts + MaxAge
<1> SUFFICES e \in S <=> e \in A \cup B /\ Cardinality(after) < MaxEntries
  OBVIOUS
<1>1. /\ one \in Seq(Entry) /\ Distinct(one) /\ Len(one) <= MaxEntries
      /\ S \subseteq A \cup B
      /\ B \subseteq A => one = a
      /\ ~(B \subseteq A) =>
           \A f \in (A \cup B) \ S :
             Old(f) \/ (Len(one) = MaxEntries /\ \A g \in S : Precedes(f, g))
  <2>1. /\ one \in Seq(Entry) /\ Distinct(one) /\ Len(one) <= MaxEntries
        /\ S \subseteq A \cup B
        /\ B \subseteq A => one = a
        /\ ~(B \subseteq A) => Chosen(one, A \cup B, t)
    BY MergedFacts
  <2> HIDE DEF one
  <2> QED
    BY <2>1 DEF Chosen
<1> HIDE DEF one
<1>2. /\ A \subseteq Entry /\ B \subseteq Entry /\ S \subseteq Entry
      /\ IsFiniteSet(A) /\ IsFiniteSet(B) /\ IsFiniteSet(S)
      /\ Cardinality(A) = Len(a) /\ Cardinality(S) = Len(one)
  BY <1>1, ListFacts, DistinctFacts
<1>3. MaxEntries \in Nat /\ ~Old(e)
  BY ConstantFacts, EntryFacts
<1>4. B \subseteq A => S = A
  BY <1>1 DEF S, A
<1> HIDE DEF A, B, S
<1>5. IsFiniteSet(A \cup B)
  BY <1>2, FS_Union
<1>6. IsFiniteSet(after) /\ Cardinality(after) \in Nat /\ e \notin after
  <2>1. after \in SUBSET (A \cup B)
    OBVIOUS
  <2>2. e \notin after
    BY <1>2, PrecedesFacts
  <2> QED
    BY <1>5, <2>1, <2>2, FS_Subset, FS_CardinalityType
<1>7. ASSUME NEW f \in after
      PROVE  f \in Entry /\ ~Old(f)
  <2>1. f \in Entry /\ Precedes(e, f)
    BY <1>2
  <2>2. e.ts <= f.ts /\ e.ts \in Nat /\ f.ts \in Nat
    BY <2>1, PrecedesFacts, EntryFacts
  <2> QED
    BY <2>1, <2>2, ConstantFacts
<1>8. ASSUME e \in S
      PROVE  Cardinality(after) < MaxEntries
  (* All that is newer was kept beside it.                                 *)
  <2>1. after \subseteq S
    <3>1. CASE B \subseteq A
      BY <1>4, <3>1
    <3>2. CASE ~(B \subseteq A)
      <4>1. SUFFICES ASSUME NEW f \in after, f \notin S
                     PROVE  FALSE
        OBVIOUS
      <4>2. Precedes(f, e) /\ Precedes(e, f) /\ f \in Entry
        BY <1>1, <1>7, <1>8, <3>2, <4>1
      <4> QED
        BY <4>2, PrecedesFacts
    <3> QED
      BY <3>1, <3>2
  <2>2. after \in SUBSET S /\ after # S
    BY <1>6, <1>8, <2>1
  <2>3. Cardinality(after) < Cardinality(S)
    <3>1. Cardinality(after) <= Cardinality(S) /\ Cardinality(after) # Cardinality(S)
      BY <1>2, <2>2, FS_Subset
    <3> QED
      BY <1>2, <1>6, <3>1, FS_CardinalityType
  <2> QED
    BY <1>1, <1>2, <1>3, <1>6, <2>3, FS_CardinalityType
<1>9. ASSUME e \in A \cup B, e \notin S
      PROVE  ~(Cardinality(after) < MaxEntries)
  (* MaxEntries of those that are newer were kept instead.                 *)
  <2>1. ~(B \subseteq A)
    BY <1>4, <1>9
  <2>2. Len(one) = MaxEntries /\ \A g \in S : Precedes(e, g)
    BY <1>1, <1>3, <1>9, <2>1
  <2>3. S \in SUBSET after
    BY <1>1, <2>2
  <2>4. Cardinality(S) <= Cardinality(after)
    BY <1>6, <2>3, FS_Subset
  <2> QED
    BY <1>2, <1>3, <1>6, <2>2, <2>4
<1> QED
  BY <1>1, <1>8, <1>9

(* Two nodes that have each other's log have the same entries, of those    *)
(* neither finds too old: the newest of all that either had, as many as a  *)
(* log may keep.  (MergeSnapshot, applyRetention)                          *)
THEOREM MergedLogsAgree == Spec => []LogsAgree
<1>1. ASSUME IInv
      PROVE  LogsAgree
  <2> SUFFICES ASSUME NEW n \in Node, NEW p \in Node
               PROVE  LET one   == Merged(log[n], log[p], Clock(n))
                          other == Merged(log[p], one, Clock(p))
                          all   == ToSet(log[n]) \cup ToSet(log[p])
                          Fresh(e) == \A q \in {n, p} : Clock(q) <= e.ts + MaxAge
                          newest == {e \in all : Fresh(e) /\
                                       Cardinality({f \in all : Precedes(e, f)}) < MaxEntries}
                      IN  /\ {e \in ToSet(one) : Fresh(e)} = newest
                          /\ {e \in ToSet(other) : Fresh(e)} = newest
    BY DEF LogsAgree
  <2> DEFINE one == Merged(log[n], log[p], Clock(n))
             other == Merged(log[p], one, Clock(p))
             all == ToSet(log[n]) \cup ToSet(log[p])
             Fresh(e) == \A q \in {n, p} : Clock(q) <= e.ts + MaxAge
             Newer(e) == {f \in all : Precedes(e, f)}
  <2>1. /\ log[n] \in Seq(Entry) /\ Distinct(log[n]) /\ Len(log[n]) <= MaxEntries
        /\ log[p] \in Seq(Entry) /\ Distinct(log[p]) /\ Len(log[p]) <= MaxEntries
        /\ Clock(n) \in Nat /\ Clock(p) \in Nat
    BY <1>1 DEF IInv, Types, Lists, Clock
  <2>2. one \in Seq(Entry) /\ Distinct(one) /\ ToSet(one) \subseteq all /\ all \subseteq Entry
    <3>1. one \in Seq(Entry) /\ Distinct(one) /\ ToSet(one) \subseteq all
      BY <2>1, MergedFacts
    <3>2. all \subseteq Entry
      BY <2>1, ListFacts
    <3> QED
      BY <3>1, <3>2
  <2>3. ToSet(other) \subseteq all
    <3> HIDE DEF one
    <3>1. ToSet(other) \subseteq ToSet(log[p]) \cup ToSet(one)
      BY <2>1, <2>2, MergedFacts
    <3> HIDE DEF other
    <3> QED
      BY <2>2, <3>1
  <2>4. \A e \in Entry : Fresh(e) => (e \in ToSet(one) <=> e \in ToSet(other))
    BY <2>1, MergesAgree
  <2>5. ASSUME NEW e \in Entry, Fresh(e)
        PROVE  e \in ToSet(one) <=> e \in all /\ Cardinality(Newer(e)) < MaxEntries
    <3>1. Clock(n) <= e.ts + MaxAge
      BY <2>5
    <3> QED
      BY <2>1, <3>1, MergeKeepsNewest
  <2> HIDE DEF one, other, all, Fresh, Newer
  <2>6. /\ {e \in ToSet(one) : Fresh(e)} = {e \in all : Fresh(e) /\ Cardinality(Newer(e)) < MaxEntries}
        /\ {e \in ToSet(other) : Fresh(e)} = {e \in all : Fresh(e) /\ Cardinality(Newer(e)) < MaxEntries}
    BY <2>2, <2>3, <2>4, <2>5
  <2> QED
    BY <2>6 DEF one, other, all, Fresh, Newer
<1> QED
  BY <1>1, Invariance, PTL
=============================================================================
