--------------------------- MODULE SortedSetProofs ---------------------------
(***************************************************************************)
(* Proofs about a replicated sorted set, for any number of nodes, members, *)
(* scores and levels.                                                      *)
(*                                                                         *)
(* First the skip list alone: on every level a chain of the nodes that     *)
(* tall, and every span the distance between two positions.  Insert and    *)
(* Delete keep it so, and the queries read windows of the keys in order.   *)
(*                                                                         *)
(* Then the records.  A step is either a write or a choice among records   *)
(* that are out there already (Selects): gossip, a snapshot, a restore and *)
(* a restart make no records.  So stamps that are unique stay unique, and  *)
(* a record nothing wins over stays so.                                    *)
(*                                                                         *)
(* Last the lists as the records change: each is a skip list of the live   *)
(* members, so its answers are those of the member map.                    *)
(***************************************************************************)
EXTENDS SortedSet, FiniteSetTheorems, SequenceTheorems, WellFoundedInduction, TLAPS

(* What less compares, and what a list holds.                              *)
IsPair(x) == x = <<x[1], x[2]>> /\ x[1] \in Nat /\ x[2] \in Nat

IsKey(x) == IsPair(x) /\ x[1] > 0 /\ x[2] > 0

LEMMA OrderFacts ==
  /\ \A x : IsPair(x) => ~less(x, x)
  /\ \A x, y, z : IsPair(x) /\ IsPair(y) /\ IsPair(z) /\ less(x, y) /\ less(y, z) => less(x, z)
  /\ \A x, y : IsPair(x) /\ IsPair(y) => x = y \/ less(x, y) \/ less(y, x)
  /\ \A x : IsKey(x) => IsPair(x) /\ less(Header, x) /\ x # Header
  /\ IsPair(Header)
<1>1. \A x : IsPair(x) => ~less(x, x)
  BY DEF IsPair, less
<1>2. ASSUME NEW x, NEW y, NEW z, IsPair(x), IsPair(y), IsPair(z), less(x, y), less(y, z)
      PROVE  less(x, z)
  BY <1>2 DEF IsPair, less
<1>3. ASSUME NEW x, NEW y, IsPair(x), IsPair(y)
      PROVE  x = y \/ less(x, y) \/ less(y, x)
  <2>1. CASE x[1] = y[1] /\ x[2] = y[2]
    BY <1>3, <2>1 DEF IsPair
  <2>2. CASE x[1] # y[1] \/ x[2] # y[2]
    BY <1>3, <2>2 DEF IsPair, less
  <2> QED
    BY <2>1, <2>2
<1>4. ASSUME NEW x, IsKey(x)
      PROVE  IsPair(x) /\ less(Header, x) /\ x # Header
  BY <1>4 DEF IsKey, IsPair, less, Header
<1>5. IsPair(Header)
  BY DEF IsPair, Header
<1> QED
  BY <1>1, <1>2, <1>3, <1>4, <1>5

(* A key is no pointer to nothing.                                         *)
LEMMA NilFacts ==
  ASSUME NEW x, IsPair(x)
  PROVE  x # Nil
BY DEF IsPair, Nil

(* A nonempty set of numbers has a least one.                              *)
LEMMA Least ==
  ASSUME NEW T \in SUBSET Nat, T # {}
  PROVE  \E x \in T : \A y \in T : x <= y
<1> DEFINE R == OpToRel(<, Nat)
<1>1. IsWellFoundedOn(R, Nat)
  BY NatLessThanWellFounded
<1>2. R = {ss \in Nat \X Nat : ss[1] < ss[2]}
  BY DEF OpToRel
<1> HIDE DEF R
<1>3. PICK x \in T : \A y \in T : <<y, x>> \notin R
  BY <1>1, WFMin
<1>4. ASSUME NEW y \in T
      PROVE  x <= y
  <2>1. <<y, x>> \in Nat \X Nat /\ <<y, x>>[1] = y /\ <<y, x>>[2] = x
    OBVIOUS
  <2>2. ~(y < x)
    BY <1>2, <1>3, <2>1
  <2> QED
    BY <2>2
<1> QED
  BY <1>4

----------------------------------------------------------------------------
(* A set of keys, and the position of a key in it.                         *)
IsKeys(N) == IsFiniteSet(N) /\ \A x \in N : IsKey(x)

UpTo(N, x) == {y \in N : y = x \/ less(y, x)}

Pos(N, x) == Cardinality(UpTo(N, x))

LEMMA PosFacts ==
  ASSUME NEW N, IsKeys(N)
  PROVE  /\ Cardinality(N) \in Nat
         /\ \A x : Pos(N, x) \in Nat /\ Pos(N, x) <= Cardinality(N)
         /\ \A x, y : IsPair(x) /\ y \in N /\ less(x, y) => Pos(N, x) < Pos(N, y)
         /\ \A x \in N : Pos(N, x) > 0
         /\ Pos(N, Header) = 0
         /\ \A x : (\A y \in N : y = x \/ less(y, x)) => Pos(N, x) = Cardinality(N)
<1>1. IsFiniteSet(N) /\ \A x \in N : IsKey(x)
  BY DEF IsKeys
<1>2. \A x : UpTo(N, x) \in SUBSET N
  BY DEF UpTo
<1>3. \A x : IsFiniteSet(UpTo(N, x))
  BY <1>1, <1>2, FS_Subset
<1>4. Cardinality(N) \in Nat
  BY <1>1, FS_CardinalityType
<1>5. \A x : Pos(N, x) \in Nat /\ Pos(N, x) <= Cardinality(N)
  BY <1>1, <1>2, <1>3, FS_CardinalityType, FS_Subset DEF Pos
<1>6. ASSUME NEW x, NEW y, IsPair(x), y \in N, less(x, y)
      PROVE  Pos(N, x) < Pos(N, y)
  <2>1. UpTo(N, x) \in SUBSET UpTo(N, y)
    BY <1>1, <1>6, OrderFacts DEF UpTo
  <2>2. y \in UpTo(N, y) /\ y \notin UpTo(N, x)
    BY <1>1, <1>6, OrderFacts DEF UpTo
  <2>3. Pos(N, x) <= Pos(N, y) /\ Pos(N, x) # Pos(N, y)
    BY <1>3, <2>1, <2>2, FS_Subset DEF Pos
  <2> QED
    BY <1>5, <2>3
<1>7. Pos(N, Header) = 0
  <2>1. UpTo(N, Header) = {}
    BY <1>1, OrderFacts DEF UpTo
  <2> QED
    BY <2>1, FS_EmptySet DEF Pos
<1>8. \A x \in N : Pos(N, x) > 0
  BY <1>1, <1>5, <1>6, <1>7, OrderFacts
<1>9. ASSUME NEW x, \A y \in N : y = x \/ less(y, x)
      PROVE  Pos(N, x) = Cardinality(N)
  <2>1. UpTo(N, x) = N
    BY <1>9 DEF UpTo
  <2> QED
    BY <2>1 DEF Pos
<1> QED
  BY <1>4, <1>5, <1>6, <1>7, <1>8, <1>9

(* Of some of the keys, or the header, one is the greatest.                *)
LEMMA Greatest ==
  ASSUME NEW N, IsKeys(N), NEW S \in SUBSET (N \cup {Header}), S # {}
  PROVE  \E x \in S : \A y \in S : y = x \/ less(y, x)
<1> DEFINE T == {k \in Nat : \E x \in S : k = Cardinality(N) - Pos(N, x)}
<1>1. \A x : Pos(N, x) \in Nat /\ Cardinality(N) \in Nat /\ Pos(N, x) <= Cardinality(N)
  BY PosFacts
<1>2. \A x \in S : Cardinality(N) - Pos(N, x) \in T
  BY <1>1
<1>3. PICK k \in T : \A l \in T : k <= l
  BY <1>2, Least
<1>4. PICK x \in S : k = Cardinality(N) - Pos(N, x)
  BY <1>3
<1>5. ASSUME NEW y \in S
      PROVE  y = x \/ less(y, x)
  <2>1. IsPair(x) /\ IsPair(y)
    BY OrderFacts DEF IsKeys
  <2>2. ~(Pos(N, x) < Pos(N, y))
    BY <1>1, <1>2, <1>3, <1>4
  <2>3. ~less(x, y)
    <3>1. CASE y \in N
      BY <2>1, <2>2, <3>1, PosFacts
    <3>2. CASE y = Header
      <4>1. x = Header \/ less(Header, x)
        BY OrderFacts DEF IsKeys
      <4> QED
        BY <2>1, <3>2, <4>1, OrderFacts
    <3> QED
      BY <3>1, <3>2
  <2> QED
    BY <2>1, <2>3, OrderFacts
<1> QED
  BY <1>5

(* A key more moves those behind it up by one.                             *)
LEMMA PosOfMore ==
  ASSUME NEW N, IsKeys(N), NEW key, IsKey(key), key \notin N
  PROVE  /\ IsKeys(N \cup {key}) /\ Cardinality(N \cup {key}) = Cardinality(N) + 1
         /\ \A x \in N \cup {Header} :
              /\ less(key, x) => Pos(N \cup {key}, x) = Pos(N, x) + 1
              /\ ~less(key, x) => Pos(N \cup {key}, x) = Pos(N, x)
         /\ \A u \in N \cup {Header} :
              less(u, key) /\ (\A z \in N : less(z, key) => z = u \/ less(z, u)) =>
                Pos(N \cup {key}, key) = Pos(N, u) + 1
<1> DEFINE M == N \cup {key}
<1>1. IsFiniteSet(N) /\ \A x \in M \cup {Header} : IsPair(x)
  BY OrderFacts DEF IsKeys
<1>2. IsKeys(M) /\ Cardinality(M) = Cardinality(N) + 1
  BY <1>1, FS_AddElement DEF IsKeys
<1>3. \A x : IsFiniteSet(UpTo(N, x))
  BY <1>1, FS_Subset DEF UpTo
<1>4. ASSUME NEW x \in N \cup {Header}, less(key, x)
      PROVE  Pos(M, x) = Pos(N, x) + 1
  <2>1. UpTo(M, x) = UpTo(N, x) \cup {key} /\ key \notin UpTo(N, x)
    BY <1>4 DEF UpTo
  <2> QED
    BY <1>3, <2>1, FS_AddElement DEF Pos
<1>5. ASSUME NEW x \in N \cup {Header}, ~less(key, x)
      PROVE  Pos(M, x) = Pos(N, x)
  <2>1. key # x
    BY OrderFacts
  <2>2. UpTo(M, x) = UpTo(N, x)
    BY <1>5, <2>1 DEF UpTo
  <2> QED
    BY <2>2 DEF Pos
<1>6. ASSUME NEW u \in N \cup {Header}, less(u, key), \A z \in N : less(z, key) => z = u \/ less(z, u)
      PROVE  Pos(M, key) = Pos(N, u) + 1
  <2>1. \A z \in N : z = u \/ less(z, u) => less(z, key)
    BY <1>1, <1>6, OrderFacts
  <2>2. UpTo(M, key) = UpTo(N, u) \cup {key} /\ key \notin UpTo(N, u)
    BY <1>6, <2>1 DEF UpTo
  <2> QED
    BY <1>3, <2>2, FS_AddElement DEF Pos
<1> QED
  BY <1>2, <1>4, <1>5, <1>6

----------------------------------------------------------------------------
(* What every list is: a chain on each level, with the distances.          *)
All(sl) == DOMAIN sl.forward

Level(sl, x) == DOMAIN sl.forward[x]

Shaped(sl) ==
  /\ IsKeys(Nodes(sl))
  /\ Header \in All(sl) /\ Level(sl, Header) = 1 .. MAX_LEVEL
  /\ DOMAIN sl.span = All(sl)
  /\ \A x \in All(sl) : DOMAIN sl.span[x] = Level(sl, x)
  /\ sl.level \in 1 .. MAX_LEVEL
  /\ \A x \in Nodes(sl) : \E h \in 1 .. sl.level : Level(sl, x) = 1 .. h
  /\ sl.length = Cardinality(Nodes(sl))

(* y is what follows x on level i.                                         *)
Follows(sl, x, i, y) ==
  /\ y # Nil => y \in Nodes(sl) /\ i \in Level(sl, y) /\ less(x, y)
  /\ \A z \in Nodes(sl) : i \in Level(sl, z) /\ less(x, z) =>
       y # Nil /\ (z = y \/ less(y, z))

Linked(sl) == \A x \in All(sl) : \A i \in Level(sl, x) : Follows(sl, x, i, sl.forward[x][i])

GoesTo(sl, y) == IF y = Nil THEN sl.length ELSE Pos(Nodes(sl), y)

Measured(sl) ==
  \A x \in All(sl) : \A i \in Level(sl, x) :
    i <= sl.level => sl.span[x][i] = GoesTo(sl, sl.forward[x][i]) - Pos(Nodes(sl), x)

(* x comes last of the keys in S.                                          *)
Ends(S, x) == \A z \in S : z = x \/ less(z, x)

Backwards(sl) ==
  \A x \in Nodes(sl) :
    /\ sl.backward[x] \in All(sl) /\ less(sl.backward[x], x)
    /\ Ends({z \in Nodes(sl) : less(z, x)}, sl.backward[x])

Ended(sl) ==
  IF Nodes(sl) = {} THEN sl.tail \in {Nil, Header}
  ELSE sl.tail \in Nodes(sl) /\ Ends(Nodes(sl), sl.tail)

IsSkipList(sl) == Shaped(sl) /\ Linked(sl) /\ Measured(sl) /\ Backwards(sl) /\ Ended(sl)

LEMMA ShapeFacts ==
  ASSUME NEW sl, Shaped(sl)
  PROVE  /\ All(sl) = Nodes(sl) \cup {Header} /\ Header \notin Nodes(sl)
         /\ \A x \in All(sl) : IsPair(x) /\ x # Nil
         /\ \A x \in All(sl) : Level(sl, x) \subseteq 1 .. MAX_LEVEL /\ 1 \in Level(sl, x)
         /\ \A x \in All(sl) : \A i \in Level(sl, x) : \A j \in 1 .. i : j \in Level(sl, x)
         /\ \A x \in Nodes(sl) : Level(sl, x) \subseteq 1 .. sl.level
         /\ sl.level \in Nat /\ sl.level > 0 /\ sl.level <= MAX_LEVEL /\ MAX_LEVEL \in Nat
<1>1. MAX_LEVEL \in Nat /\ MAX_LEVEL > 0
  BY LevelAssumption
<1>2. sl.level \in Nat /\ sl.level > 0 /\ sl.level <= MAX_LEVEL
  BY <1>1 DEF Shaped
<1>3. All(sl) = Nodes(sl) \cup {Header} /\ Header \notin Nodes(sl)
  BY DEF Shaped, All, Nodes
<1>4. \A x \in All(sl) : IsPair(x) /\ x # Nil
  BY <1>3, OrderFacts, NilFacts DEF Shaped, IsKeys
<1>5. \A x \in All(sl) : \E h \in 1 .. MAX_LEVEL : Level(sl, x) = 1 .. h
  BY <1>1, <1>2, <1>3 DEF Shaped
<1>6. \A x \in Nodes(sl) : \E h \in 1 .. sl.level : Level(sl, x) = 1 .. h
  BY DEF Shaped
<1>7. \A x \in Nodes(sl) : Level(sl, x) \subseteq 1 .. sl.level
  BY <1>2, <1>6
<1>8. \A x \in All(sl) : Level(sl, x) \subseteq 1 .. MAX_LEVEL /\ 1 \in Level(sl, x)
  BY <1>1, <1>5
<1>9. \A x \in All(sl) : \A i \in Level(sl, x) : \A j \in 1 .. i : j \in Level(sl, x)
  BY <1>1, <1>5
<1> QED
  BY <1>1, <1>2, <1>3, <1>4, <1>7, <1>8, <1>9

----------------------------------------------------------------------------
(* The descent.  before is a first part of the nodes; on level i, the walk *)
(* ends at the last of them.                                               *)
IsFirstPart(sl, before) ==
  before \subseteq Nodes(sl) /\ \A x \in before, y \in Nodes(sl) : less(y, x) => y \in before

OnLevel(sl, S, i) == {x \in S : i \in Level(sl, x)}

LastOf(sl, before, i) ==
  CHOOSE x \in OnLevel(sl, before \cup {Header}, i) : Ends(OnLevel(sl, before \cup {Header}, i), x)

LEMMA LastFacts ==
  ASSUME NEW sl, Shaped(sl), NEW before, IsFirstPart(sl, before), NEW i \in 1 .. MAX_LEVEL
  PROVE  /\ LastOf(sl, before, i) \in OnLevel(sl, before \cup {Header}, i)
         /\ Ends(OnLevel(sl, before \cup {Header}, i), LastOf(sl, before, i))
<1> DEFINE S == OnLevel(sl, before \cup {Header}, i)
<1>1. S \in SUBSET (Nodes(sl) \cup {Header}) /\ IsKeys(Nodes(sl))
  BY DEF OnLevel, IsFirstPart, Shaped
<1>2. Header \in S
  BY DEF OnLevel, Shaped
<1>3. \E x \in S : \A y \in S : y = x \/ less(y, x)
  BY <1>1, <1>2, Greatest
<1> QED
  BY <1>3 DEF LastOf, Ends

Walks(sl, before, i, w) ==
  w = [x \in {y \in DOMAIN sl.forward : i \in DOMAIN sl.forward[y]} |->
         LET next == sl.forward[x][i]
         IN  IF next # Nil /\ next \in before
             THEN [node |-> w[next].node, rank |-> w[next].rank + sl.span[x][i]]
             ELSE [node |-> x, rank |-> 0]]

(* Where the walk on level i ends, from a node that is in the first part.  *)
Way(sl, before, i, x) ==
  [node |-> LastOf(sl, before, i),
   rank |-> Pos(Nodes(sl), LastOf(sl, before, i)) - Pos(Nodes(sl), x)]

(* What a step of the walk knows.                                          *)
LEMMA WalkStep ==
  ASSUME NEW sl, Shaped(sl), Linked(sl), Measured(sl),
         NEW before, IsFirstPart(sl, before), NEW i \in 1 .. sl.level,
         NEW x \in OnLevel(sl, All(sl), i)
  PROVE  LET next == sl.forward[x][i]
         IN  /\ next # Nil /\ next \in before => 
                  /\ next \in OnLevel(sl, before, i) /\ x \in before \cup {Header} /\ less(x, next)
                  /\ Pos(Nodes(sl), next) \in Nat /\ Pos(Nodes(sl), x) \in Nat
                  /\ Pos(Nodes(sl), x) < Pos(Nodes(sl), next)
                  /\ sl.span[x][i] = Pos(Nodes(sl), next) - Pos(Nodes(sl), x)
             /\ ~(next # Nil /\ next \in before) /\ x \in before \cup {Header} =>
                  x = LastOf(sl, before, i)
<1> DEFINE next == sl.forward[x][i]
           last == LastOf(sl, before, i)
<1>1. x \in All(sl) /\ i \in Level(sl, x) /\ i \in 1 .. MAX_LEVEL /\ IsPair(x) /\ before \subseteq Nodes(sl)
  BY ShapeFacts DEF OnLevel, IsFirstPart
<1>2. Follows(sl, x, i, next)
  BY <1>1 DEF Linked
<1>3. All(sl) = Nodes(sl) \cup {Header} /\ \A y \in All(sl) : IsPair(y)
  BY ShapeFacts
<1> HIDE DEF next
<1>4. ASSUME next # Nil, next \in before
      PROVE  /\ next \in OnLevel(sl, before, i) /\ x \in before \cup {Header} /\ less(x, next)
             /\ Pos(Nodes(sl), next) \in Nat /\ Pos(Nodes(sl), x) \in Nat
             /\ Pos(Nodes(sl), x) < Pos(Nodes(sl), next)
             /\ sl.span[x][i] = Pos(Nodes(sl), next) - Pos(Nodes(sl), x)
  <2>1. next \in Nodes(sl) /\ i \in Level(sl, next) /\ less(x, next)
    BY <1>2, <1>4 DEF Follows
  <2>2. x \in before \cup {Header}
    BY <1>1, <1>3, <1>4, <2>1 DEF IsFirstPart
  <2>3. /\ Pos(Nodes(sl), next) \in Nat /\ Pos(Nodes(sl), x) \in Nat
        /\ Pos(Nodes(sl), x) < Pos(Nodes(sl), next)
    BY <1>1, <2>1, PosFacts DEF Shaped
  <2>4. sl.span[x][i] = GoesTo(sl, next) - Pos(Nodes(sl), x)
    BY <1>1, ShapeFacts DEF Measured, next
  <2> QED
    BY <1>4, <2>1, <2>2, <2>3, <2>4 DEF OnLevel, GoesTo
<1>5. ASSUME ~(next # Nil /\ next \in before), x \in before \cup {Header}
      PROVE  x = last
  <2>1. /\ last \in before \cup {Header} /\ i \in Level(sl, last)
        /\ Ends(OnLevel(sl, before \cup {Header}, i), last)
    BY <1>1, LastFacts DEF OnLevel
  <2>2. x = last \/ less(x, last)
    BY <1>1, <1>5, <2>1 DEF Ends, OnLevel
  <2> HIDE DEF last
  <2>3. ASSUME less(x, last) PROVE FALSE
    <3>1. IsPair(last) /\ (x = Header \/ less(Header, x))
      BY <1>1, <1>3, <2>1, OrderFacts DEF Shaped, IsKeys
    <3>2. last # Header
      BY <1>1, <2>3, <3>1, OrderFacts
    <3>3. last \in before /\ last \in Nodes(sl)
      BY <1>1, <2>1, <3>2
    <3>4. next # Nil /\ (last = next \/ less(next, last))
      BY <1>2, <2>1, <2>3, <3>3 DEF Follows
    <3>5. next \in Nodes(sl)
      BY <1>2, <3>4 DEF Follows
    <3> QED
      BY <1>5, <3>3, <3>4, <3>5 DEF IsFirstPart
  <2> QED
    BY <2>2, <2>3
<1> QED
  BY <1>4, <1>5 DEF next

LEMMA AlongFacts ==
  ASSUME NEW sl, Shaped(sl), Linked(sl), Measured(sl),
         NEW before, IsFirstPart(sl, before), NEW i \in 1 .. sl.level,
         NEW x \in OnLevel(sl, before \cup {Header}, i)
  PROVE  Along(sl, before, i)[x] = Way(sl, before, i, x)
<1> DEFINE D == {y \in DOMAIN sl.forward : i \in DOMAIN sl.forward[y]}
           next(y) == sl.forward[y][i]
           goes(y) == next(y) # Nil /\ next(y) \in before
           last == LastOf(sl, before, i)
           pos(y) == Pos(Nodes(sl), y)
<1>1. D = OnLevel(sl, All(sl), i)
  BY DEF OnLevel, All, Level
<1>2. ASSUME NEW y \in D
      PROVE  /\ goes(y) => /\ next(y) \in D /\ next(y) \in before \cup {Header}
                           /\ y \in before \cup {Header}
                           /\ pos(next(y)) \in Nat /\ pos(y) \in Nat /\ pos(y) < pos(next(y))
                           /\ sl.span[y][i] = pos(next(y)) - pos(y)
             /\ ~goes(y) /\ y \in before \cup {Header} => y = last
  <2>1. before \subseteq All(sl)
    BY ShapeFacts DEF IsFirstPart
  <2>2. OnLevel(sl, before, i) \subseteq D /\ OnLevel(sl, before, i) \subseteq before
    BY <1>1, <2>1 DEF OnLevel
  <2> QED
    BY <1>1, <2>2, WalkStep
<1>3. x \in D /\ x \in before \cup {Header}
  BY <1>1, ShapeFacts DEF OnLevel, IsFirstPart
<1>4. pos(last) \in Nat /\ \A y : pos(y) \in Nat /\ pos(y) <= Cardinality(Nodes(sl))
  BY PosFacts DEF Shaped
<1>5. Cardinality(Nodes(sl)) \in Nat
  BY PosFacts DEF Shaped
<1> HIDE DEF D, next, last, pos
<1> DEFINE way(y) == [node |-> last, rank |-> pos(last) - pos(y)]
           W == [y \in D |-> IF y \in before \cup {Header} THEN way(y) ELSE [node |-> y, rank |-> 0]]
<1>6. ASSUME NEW y \in D
      PROVE  W[y] = IF goes(y) THEN [node |-> W[next(y)].node, rank |-> W[next(y)].rank + sl.span[y][i]]
                    ELSE [node |-> y, rank |-> 0]
  <2>1. CASE goes(y)
    <3>1. W[y] = way(y) /\ W[next(y)] = way(next(y))
      BY <1>2, <2>1
    <3>2. pos(last) - pos(next(y)) + sl.span[y][i] = pos(last) - pos(y)
      BY <1>2, <1>4, <2>1
    <3> QED
      BY <2>1, <3>1, <3>2
  <2>2. CASE ~goes(y)
    <3>1. CASE y \in before \cup {Header}
      <4>1. y = last /\ pos(last) - pos(y) = 0
        BY <1>2, <1>4, <2>2, <3>1
      <4>2. W[y] = way(y)
        BY <3>1
      <4> QED
        BY <2>2, <4>1, <4>2
    <3>2. CASE y \notin before \cup {Header}
      BY <2>2, <3>2
    <3> QED
      BY <3>1, <3>2
  <2> QED
    BY <2>1, <2>2
<1>7. W = [y \in D |-> W[y]]
  OBVIOUS
<1> HIDE DEF W
<1>8. W = [y \in D |-> IF goes(y) THEN [node |-> W[next(y)].node, rank |-> W[next(y)].rank + sl.span[y][i]]
                       ELSE [node |-> y, rank |-> 0]]
  BY <1>6, <1>7
<1>9. \E w : Walks(sl, before, i, w)
  <2>1. Walks(sl, before, i, W)
    BY <1>8 DEF Walks, D, next
  <2> QED
    BY <2>1
<1> DEFINE A == Along(sl, before, i)
<1>10. Walks(sl, before, i, A)
  <2>1. A = CHOOSE w : Walks(sl, before, i, w)
    BY DEF Along, Walks
  <2> HIDE DEF A
  <2> QED
    BY <1>9, <2>1
<1> HIDE DEF A
<1>11. \A y \in D : A[y] = IF goes(y) THEN [node |-> A[next(y)].node, rank |-> A[next(y)].rank + sl.span[y][i]]
                           ELSE [node |-> y, rank |-> 0]
  BY <1>10 DEF Walks, D, next
<1> DEFINE T == {k \in Nat : \E y \in D : /\ y \in before \cup {Header} /\ A[y] # way(y)
                                          /\ k = Cardinality(Nodes(sl)) - pos(y)}
<1>12. T = {}
  <2> SUFFICES ASSUME T # {} PROVE FALSE
    OBVIOUS
  <2>1. PICK k \in T : \A l \in T : k <= l
    BY Least
  <2>2. PICK y \in D : /\ y \in before \cup {Header} /\ A[y] # way(y)
                       /\ k = Cardinality(Nodes(sl)) - pos(y)
    BY <2>1
  <2>3. CASE goes(y)
    <3>1. next(y) \in D /\ next(y) \in before \cup {Header}
      BY <1>2, <2>3
    <3>2. A[next(y)] = way(next(y))
      <4> SUFFICES ASSUME A[next(y)] # way(next(y)) PROVE FALSE
        OBVIOUS
      <4>1. Cardinality(Nodes(sl)) - pos(next(y)) \in Nat
        BY <1>4, <1>5
      <4>2. Cardinality(Nodes(sl)) - pos(next(y)) \in T
        BY <3>1, <4>1
      <4> QED
        BY <1>2, <1>4, <1>5, <2>1, <2>2, <2>3, <4>2
    <3>3. A[y] = [node |-> A[next(y)].node, rank |-> A[next(y)].rank + sl.span[y][i]]
      BY <1>11, <2>3
    <3>4. pos(last) - pos(next(y)) + sl.span[y][i] = pos(last) - pos(y)
      BY <1>2, <1>4, <2>3
    <3> QED
      BY <2>2, <3>2, <3>3, <3>4
  <2>4. CASE ~goes(y)
    <3>1. y = last /\ pos(last) - pos(y) = 0
      BY <1>2, <1>4, <2>2, <2>4
    <3>2. A[y] = [node |-> y, rank |-> 0]
      BY <1>11, <2>4
    <3> QED
      BY <2>2, <3>1, <3>2
  <2> QED
    BY <2>3, <2>4
<1>13. A[x] = way(x)
  <2>1. Cardinality(Nodes(sl)) - pos(x) \in Nat
    BY <1>4, <1>5
  <2> QED
    BY <1>3, <1>12, <2>1
<1> QED
  BY <1>13 DEF A, Way, last, pos

Paths(sl, before, f) ==
  f = [i \in 1 .. sl.level + 1 |->
         IF i > sl.level THEN [j \in 1 .. MAX_LEVEL + 1 |-> Start]
         ELSE LET above == f[i + 1]
                  from  == above[i + 1]
                  end   == Along(sl, before, i)[from.node]
              IN  [above EXCEPT ![i] = [node |-> end.node, rank |-> from.rank + end.rank]]]

(* Where the descent is on a level.                                        *)
Spot(sl, before, i) ==
  IF i > sl.level THEN Start
  ELSE [node |-> LastOf(sl, before, i), rank |-> Pos(Nodes(sl), LastOf(sl, before, i))]

(* A level's walk starts where the one above ended.                        *)
LEMMA SpotStep ==
  ASSUME NEW sl, Shaped(sl), Linked(sl), Measured(sl),
         NEW before, IsFirstPart(sl, before), NEW i \in 1 .. sl.level
  PROVE  LET from == Spot(sl, before, i + 1)
             end  == Along(sl, before, i)[from.node]
         IN  Spot(sl, before, i) = [node |-> end.node, rank |-> from.rank + end.rank]
<1> DEFINE from == Spot(sl, before, i + 1)
           end  == Along(sl, before, i)[from.node]
           last == LastOf(sl, before, i)
<1>1. sl.level \in Nat /\ sl.level <= MAX_LEVEL /\ MAX_LEVEL \in Nat
      /\ i + 1 \in Nat /\ i \in 1 .. MAX_LEVEL
  BY ShapeFacts
<1>2. from.node \in OnLevel(sl, before \cup {Header}, i) /\ from.rank = Pos(Nodes(sl), from.node)
  <2>1. CASE i + 1 > sl.level
    <3>1. from.node = Header /\ from.rank = 0
      BY <1>1, <2>1 DEF Spot, Start
    <3>2. Header \in OnLevel(sl, before \cup {Header}, i)
      BY <1>1 DEF OnLevel, Shaped
    <3>3. Pos(Nodes(sl), Header) = 0
      BY PosFacts DEF Shaped
    <3> QED
      BY <3>1, <3>2, <3>3
  <2>2. CASE i + 1 <= sl.level
    <3>1. from.node = LastOf(sl, before, i + 1) /\ from.rank = Pos(Nodes(sl), from.node)
      BY <1>1, <2>2 DEF Spot
    <3>2. i + 1 \in 1 .. MAX_LEVEL
      BY <1>1, <2>2
    <3>3. from.node \in OnLevel(sl, before \cup {Header}, i + 1)
      BY <3>1, <3>2, LastFacts
    <3>4. from.node \in All(sl)
      BY <3>3, ShapeFacts DEF OnLevel, IsFirstPart
    <3>5. i \in 1 .. (i + 1) /\ i + 1 \in Level(sl, from.node)
      BY <1>1, <3>3 DEF OnLevel
    <3>6. i \in Level(sl, from.node)
      BY <3>4, <3>5, ShapeFacts
    <3> QED
      BY <3>1, <3>3, <3>6 DEF OnLevel
  <2> QED
    BY <1>1, <2>1, <2>2
<1>3. end = [node |-> last, rank |-> Pos(Nodes(sl), last) - Pos(Nodes(sl), from.node)]
  BY <1>2, AlongFacts DEF Way
<1>4. Pos(Nodes(sl), last) \in Nat /\ Pos(Nodes(sl), from.node) \in Nat
  BY PosFacts DEF Shaped
<1>5. Spot(sl, before, i) = [node |-> last, rank |-> Pos(Nodes(sl), last)]
  BY <1>1 DEF Spot
<1> HIDE DEF from, end, last
<1>6. end.node = last /\ from.rank + end.rank = Pos(Nodes(sl), last)
  BY <1>2, <1>3, <1>4
<1> QED
  BY <1>5, <1>6 DEF from, end

LEMMA DescentSpots ==
  ASSUME NEW sl, Shaped(sl), Linked(sl), Measured(sl),
         NEW before, IsFirstPart(sl, before), NEW i \in 1 .. MAX_LEVEL
  PROVE  Descent(sl, before)[i] = Spot(sl, before, i)
<1>1. sl.level \in Nat /\ sl.level > 0 /\ sl.level <= MAX_LEVEL /\ MAX_LEVEL \in Nat
  BY ShapeFacts
<1> DEFINE J == 1 .. MAX_LEVEL + 1
           none == [j \in J |-> Start]
           entry(above, k) ==
             LET from  == above[k + 1]
                 end   == Along(sl, before, k)[from.node]
             IN  [node |-> end.node, rank |-> from.rank + end.rank]
           spots(k) == [j \in J |-> IF j < k THEN Start ELSE Spot(sl, before, j)]
           F == [k \in 1 .. sl.level + 1 |-> spots(k)]
<1>2. \A k \in 1 .. sl.level : \A above : above[k + 1] = Spot(sl, before, k + 1) =>
        entry(above, k) = Spot(sl, before, k)
  BY SpotStep
<1> HIDE DEF entry
<1>3. spots(sl.level + 1) = none
  BY <1>1 DEF Spot
<1>4. ASSUME NEW k \in 1 .. sl.level
      PROVE  spots(k) = [spots(k + 1) EXCEPT ![k] = entry(spots(k + 1), k)]
  <2>1. k \in J /\ k + 1 \in J /\ k \in Nat
    BY <1>1
  <2>2. spots(k + 1)[k + 1] = Spot(sl, before, k + 1)
    BY <2>1
  <2>3. entry(spots(k + 1), k) = Spot(sl, before, k)
    BY <1>2, <2>2
  <2>4. spots(k)[k] = Spot(sl, before, k)
    BY <2>1
  <2>5. \A j \in J : j # k => spots(k)[j] = spots(k + 1)[j]
    BY <1>1, <2>1
  <2> QED
    BY <2>1, <2>3, <2>4, <2>5
<1>5. ASSUME NEW k \in 1 .. sl.level + 1
      PROVE  F[k] = IF k > sl.level THEN none ELSE [F[k + 1] EXCEPT ![k] = entry(F[k + 1], k)]
  <2>0. k > sl.level \/ k <= sl.level
    BY <1>1
  <2>1. CASE k > sl.level
    <3>1. k = sl.level + 1
      BY <1>1, <2>1
    <3>2. F[k] = spots(k)
      OBVIOUS
    <3> HIDE DEF spots, F, none
    <3>3. F[k] = none
      BY <1>3, <3>1, <3>2
    <3> QED
      BY <2>1, <3>3
  <2>2. CASE k <= sl.level
    <3>1. k \in 1 .. sl.level /\ k + 1 \in 1 .. sl.level + 1 /\ ~(k > sl.level)
      BY <1>1, <2>2
    <3>2. F[k] = spots(k) /\ F[k + 1] = spots(k + 1)
      BY <3>1
    <3>3. spots(k) = [spots(k + 1) EXCEPT ![k] = entry(spots(k + 1), k)]
      BY <1>4, <3>1
    <3> HIDE DEF spots, F
    <3> QED
      BY <3>1, <3>2, <3>3
  <2> HIDE DEF spots, F, none
  <2> QED
    BY <2>0, <2>1, <2>2
<1>6. F = [k \in 1 .. sl.level + 1 |-> F[k]] /\ \A k \in 1 .. sl.level + 1 : F[k] = spots(k)
  OBVIOUS
<1> HIDE DEF F, spots, none
<1>7. Paths(sl, before, F)
  <2>1. F = [k \in 1 .. sl.level + 1 |->
               IF k > sl.level THEN none ELSE [F[k + 1] EXCEPT ![k] = entry(F[k + 1], k)]]
    BY <1>5, <1>6
  <2> QED
    BY <2>1 DEF Paths, none, entry
<1> DEFINE P == CHOOSE f : Paths(sl, before, f)
<1>8. Paths(sl, before, P)
  BY <1>7
<1>9. Descent(sl, before) = P[1]
  BY DEF Descent, Paths
<1> HIDE DEF P
<1>10. \A k \in 1 .. sl.level + 1 :
         P[k] = IF k > sl.level THEN none ELSE [P[k + 1] EXCEPT ![k] = entry(P[k + 1], k)]
  BY <1>8 DEF Paths, none, entry
<1> DEFINE T == {k \in Nat : \E l \in 1 .. sl.level + 1 : P[l] # F[l] /\ k = sl.level + 1 - l}
<1>11. T = {}
  <2> SUFFICES ASSUME T # {} PROVE FALSE
    OBVIOUS
  <2>1. PICK k \in T : \A m \in T : k <= m
    BY Least
  <2>2. PICK l \in 1 .. sl.level + 1 : P[l] # F[l] /\ k = sl.level + 1 - l
    BY <2>1
  <2>3. l <= sl.level
    <3>1. CASE l > sl.level
      <4>1. P[l] = none /\ F[l] = none
        BY <1>5, <1>10, <2>2, <3>1
      <4> QED
        BY <2>2, <4>1
    <3> QED
      BY <1>1, <2>2, <3>1
  <2>4. l + 1 \in 1 .. sl.level + 1 /\ sl.level + 1 - (l + 1) \in Nat
    BY <1>1, <2>3
  <2>5. sl.level + 1 - (l + 1) \notin T
    BY <1>1, <2>1, <2>2, <2>4
  <2>6. P[l + 1] = F[l + 1]
    BY <2>4, <2>5
  <2>7. P[l] = F[l]
    BY <1>5, <1>10, <2>3, <2>6
  <2> QED
    BY <2>2, <2>7
<1>12. P[1] = F[1]
  <2>1. 1 \in 1 .. sl.level + 1 /\ sl.level + 1 - 1 \in Nat
    BY <1>1
  <2> QED
    BY <1>11, <2>1
<1>13. F[1] = spots(1) /\ spots(1)[i] = Spot(sl, before, i)
  <2>1. 1 \in 1 .. sl.level + 1 /\ i \in J /\ ~(i < 1)
    BY <1>1
  <2> QED
    BY <1>6, <2>1 DEF spots
<1> QED
  BY <1>9, <1>12, <1>13

(* On every level, the descent ends at the last node of the first part     *)
(* that is on it, and knows its position.                                  *)
LEMMA DescentFacts ==
  ASSUME NEW sl, Shaped(sl), Linked(sl), Measured(sl),
         NEW before, IsFirstPart(sl, before), NEW i \in 1 .. MAX_LEVEL
  PROVE  LET at == Descent(sl, before)[i]
         IN  /\ at.node \in before \cup {Header} /\ i \in Level(sl, at.node)
             /\ \A z \in before : i \in Level(sl, z) => z = at.node \/ less(z, at.node)
             /\ at.rank = Pos(Nodes(sl), at.node)
<1>1. Descent(sl, before)[i] = Spot(sl, before, i)
  BY DescentSpots
<1> DEFINE at == Spot(sl, before, i)
<1>2. CASE i > sl.level
  <2>1. at.node = Header /\ at.rank = 0
    BY <1>2 DEF Spot, Start
  <2>2. Pos(Nodes(sl), Header) = 0
    BY PosFacts DEF Shaped
  <2>3. i \in Level(sl, Header)
    BY DEF Shaped
  <2>4. \A z \in before : i \notin Level(sl, z)
    <3>1. ASSUME NEW z \in before, i \in Level(sl, z) PROVE FALSE
      <4>1. i \in 1 .. sl.level
        BY <3>1, ShapeFacts DEF IsFirstPart
      <4>2. sl.level \in Nat
        BY ShapeFacts
      <4> QED
        BY <1>2, <4>1, <4>2
    <3> QED
      BY <3>1
  <2> HIDE DEF at
  <2> QED
    BY <1>1, <2>1, <2>2, <2>3, <2>4 DEF at
<1>3. CASE ~(i > sl.level)
  <2>1. at.node = LastOf(sl, before, i) /\ at.rank = Pos(Nodes(sl), at.node)
    BY <1>3 DEF Spot
  <2>2. at.node \in OnLevel(sl, before \cup {Header}, i) /\ Ends(OnLevel(sl, before \cup {Header}, i), at.node)
    BY <2>1, LastFacts
  <2> HIDE DEF at
  <2>3. /\ at.node \in before \cup {Header} /\ i \in Level(sl, at.node)
        /\ \A z \in before : i \in Level(sl, z) => z = at.node \/ less(z, at.node)
    BY <2>2 DEF OnLevel, Ends
  <2> QED
    BY <1>1, <2>1, <2>3 DEF at
<1> QED
  BY <1>2, <1>3

----------------------------------------------------------------------------
(* Where a key belongs: on every level, the node it comes after.           *)
Before(sl, key) == {x \in Nodes(sl) : less(x, key)}

At(sl, key) == [i \in 1 .. MAX_LEVEL |-> Descent(sl, Before(sl, key))[i].node]

LEMMA AtFacts ==
  ASSUME NEW sl, IsSkipList(sl), NEW key, IsPair(key), less(Header, key), NEW i \in 1 .. MAX_LEVEL
  PROVE  LET u == At(sl, key)[i]
             y == sl.forward[u][i]
         IN  /\ u \in All(sl) /\ i \in Level(sl, u) /\ less(u, key)
             /\ \A z \in All(sl) : i \in Level(sl, z) /\ less(z, key) => z = u \/ less(z, u)
             /\ Descent(sl, Before(sl, key))[i].node = u
             /\ Descent(sl, Before(sl, key))[i].rank = Pos(Nodes(sl), u)
             /\ y # Nil => y \in Nodes(sl) /\ i \in Level(sl, y) /\ ~less(y, key) /\ less(u, y)
             /\ \A z \in Nodes(sl) : i \in Level(sl, z) /\ ~less(z, key) =>
                  y # Nil /\ (z = y \/ less(y, z))
<1> DEFINE B == Before(sl, key)
           u == At(sl, key)[i]
           y == sl.forward[u][i]
<1>1. Shaped(sl) /\ Linked(sl) /\ Measured(sl)
  BY DEF IsSkipList
<1>2. All(sl) = Nodes(sl) \cup {Header} /\ \A x \in All(sl) : IsPair(x)
  BY <1>1, ShapeFacts
<1>3. IsFirstPart(sl, B)
  BY <1>2, OrderFacts DEF IsFirstPart, Before
<1>4. u = Descent(sl, B)[i].node
  BY DEF At
<1>5. /\ u \in B \cup {Header} /\ i \in Level(sl, u)
      /\ \A z \in B : i \in Level(sl, z) => z = u \/ less(z, u)
      /\ Descent(sl, B)[i].rank = Pos(Nodes(sl), u)
  BY <1>1, <1>3, <1>4, DescentFacts
<1> HIDE DEF u
<1>6. u \in All(sl) /\ less(u, key)
  BY <1>2, <1>5 DEF Before
<1>7. \A z \in All(sl) : i \in Level(sl, z) /\ less(z, key) => z = u \/ less(z, u)
  <2>1. u = Header \/ less(Header, u)
    BY <1>1, <1>5, OrderFacts DEF Before, Shaped, IsKeys
  <2> QED
    BY <1>1, <1>2, <1>5, <2>1, OrderFacts DEF Before
<1>8. Follows(sl, u, i, y)
  BY <1>1, <1>5, <1>6 DEF Linked
<1> HIDE DEF y
<1>9. y # Nil => y \in Nodes(sl) /\ i \in Level(sl, y) /\ less(u, y)
  BY <1>8 DEF Follows
<1>10. y # Nil => ~less(y, key)
  BY <1>2, <1>6, <1>7, <1>9, OrderFacts
<1>11. ASSUME NEW z \in Nodes(sl), i \in Level(sl, z), ~less(z, key)
       PROVE  y # Nil /\ (z = y \/ less(y, z))
  <2>1. less(u, z)
    BY <1>2, <1>6, <1>11, OrderFacts
  <2> QED
    BY <1>8, <1>11, <2>1 DEF Follows
<1> QED
  BY <1>4, <1>5, <1>6, <1>7, <1>9, <1>10, <1>11 DEF u, y

(* All other pointers stay on their side of the key.                       *)
LEMMA OthersFacts ==
  ASSUME NEW sl, IsSkipList(sl), NEW key, IsPair(key), less(Header, key),
         NEW x \in All(sl), NEW i \in Level(sl, x)
  PROVE  LET y == sl.forward[x][i]
         IN  /\ y # Nil => y \in Nodes(sl) /\ i \in Level(sl, y) /\ less(x, y)
             /\ \A z \in Nodes(sl) : i \in Level(sl, z) /\ less(x, z) => y # Nil /\ (z = y \/ less(y, z))
             /\ i \in 1 .. MAX_LEVEL
             /\ less(x, key) /\ x # At(sl, key)[i] => y # Nil /\ less(y, key)
             /\ x = key \/ less(key, x) => y = Nil \/ less(key, y)
             /\ i > sl.level => x = Header /\ y = Nil /\ At(sl, key)[i] = Header
<1> DEFINE y == sl.forward[x][i]
           u == At(sl, key)[i]
<1>1. Shaped(sl) /\ Linked(sl)
  BY DEF IsSkipList
<1>2. All(sl) = Nodes(sl) \cup {Header} /\ \A z \in All(sl) : IsPair(z)
  BY <1>1, ShapeFacts
<1>3. i \in 1 .. MAX_LEVEL /\ sl.level \in Nat
  BY <1>1, ShapeFacts
<1>4. /\ u \in All(sl) /\ i \in Level(sl, u) /\ less(u, key)
      /\ \A z \in All(sl) : i \in Level(sl, z) /\ less(z, key) => z = u \/ less(z, u)
  BY <1>3, AtFacts
<1> HIDE DEF u
<1>5. Follows(sl, x, i, y)
  BY <1>1 DEF Linked
<1> HIDE DEF y
<1>6. /\ y # Nil => y \in Nodes(sl) /\ i \in Level(sl, y) /\ less(x, y)
      /\ \A z \in Nodes(sl) : i \in Level(sl, z) /\ less(x, z) => y # Nil /\ (z = y \/ less(y, z))
  BY <1>5 DEF Follows
<1>7. ASSUME less(x, key), x # u
      PROVE  y # Nil /\ less(y, key)
  <2>1. less(x, u)
    BY <1>4, <1>7
  <2>2. u \in Nodes(sl)
    <3>1. x = Header \/ less(Header, x)
      BY <1>1, <1>2, OrderFacts DEF Shaped, IsKeys
    <3> QED
      BY <1>2, <1>4, <2>1, <3>1, OrderFacts
  <2>3. y # Nil /\ (u = y \/ less(y, u))
    BY <1>4, <1>6, <2>1, <2>2
  <2> QED
    BY <1>2, <1>4, <1>6, <2>3, OrderFacts
<1>8. ASSUME x = key \/ less(key, x), y # Nil
      PROVE  less(key, y)
  BY <1>2, <1>6, <1>8, OrderFacts
<1>9. ASSUME i > sl.level
      PROVE  x = Header /\ y = Nil /\ u = Header
  <2>1. \A z \in Nodes(sl) : i \notin Level(sl, z)
    <3>1. \A z \in Nodes(sl) : Level(sl, z) \subseteq 1 .. sl.level
      BY <1>1, ShapeFacts
    <3> QED
      BY <1>3, <1>9, <3>1
  <2> QED
    BY <1>2, <1>4, <1>6, <2>1
<1> QED
  BY <1>3, <1>6, <1>7, <1>8, <1>9 DEF y, u

----------------------------------------------------------------------------
(* new is sl with a key more, of the given height.                         *)
Inserted(sl, new, key, height) ==
  LET u == At(sl, key)
      ahead(i) == Pos(Nodes(sl), u[1]) - Pos(Nodes(sl), u[i])
      next(i) == sl.forward[u[i]][i]
      over(i) == IF i <= sl.level THEN sl.span[u[i]][i] ELSE sl.length
  IN  /\ All(new) = All(sl) \cup {key} /\ Level(new, key) = 1 .. height
      /\ \A x \in All(sl) : Level(new, x) = Level(sl, x)
      /\ DOMAIN new.span = All(new)
      /\ \A x \in All(new) : DOMAIN new.span[x] = Level(new, x)
      /\ new.level = IF height > sl.level THEN height ELSE sl.level
      /\ new.length = sl.length + 1
      /\ \A i \in 1 .. height : /\ new.forward[key][i] = next(i)
                                /\ new.span[key][i] = over(i) - ahead(i)
      /\ \A x \in All(sl) : \A i \in Level(sl, x) :
           /\ new.forward[x][i] = IF x = u[i] /\ i <= height THEN key ELSE sl.forward[x][i]
           /\ x # u[i] => new.span[x][i] = sl.span[x][i]
           /\ x = u[i] /\ i <= height => new.span[x][i] = ahead(i) + 1
           /\ x = u[i] /\ i > height /\ i <= sl.level => new.span[x][i] = sl.span[x][i] + 1
      /\ new.backward[key] = u[1]
      /\ \A x \in All(sl) : new.backward[x] = IF x = next(1) THEN key ELSE sl.backward[x]
      /\ new.tail = IF next(1) = Nil THEN key ELSE sl.tail

LEMMA InsertedShape ==
  ASSUME NEW sl, IsSkipList(sl), NEW key, IsKey(key), key \notin Nodes(sl),
         NEW height \in 1 .. MAX_LEVEL, NEW new, Inserted(sl, new, key, height)
  PROVE  Shaped(new) /\ Nodes(new) = Nodes(sl) \cup {key}
<1>1. Shaped(sl) /\ MAX_LEVEL \in Nat /\ sl.level \in Nat /\ sl.level > 0 /\ sl.level <= MAX_LEVEL
  BY ShapeFacts DEF IsSkipList
<1>2. All(sl) = Nodes(sl) \cup {Header} /\ Header \notin Nodes(sl) /\ key # Header
  BY <1>1, ShapeFacts, OrderFacts
<1>3. /\ All(new) = All(sl) \cup {key} /\ Level(new, key) = 1 .. height
      /\ \A x \in All(sl) : Level(new, x) = Level(sl, x)
      /\ DOMAIN new.span = All(new)
      /\ \A x \in All(new) : DOMAIN new.span[x] = Level(new, x)
      /\ new.level = IF height > sl.level THEN height ELSE sl.level
      /\ new.length = sl.length + 1
  BY DEF Inserted
<1>4. Nodes(new) = Nodes(sl) \cup {key}
  <2>1. Nodes(new) = All(new) \ {Header}
    BY DEF Nodes, All
  <2> QED
    BY <1>2, <1>3, <2>1
<1>5. IsKeys(Nodes(new)) /\ new.length = Cardinality(Nodes(new))
  <2>1. IsKeys(Nodes(sl)) /\ sl.length = Cardinality(Nodes(sl))
    BY <1>1 DEF Shaped
  <2>2. IsKeys(Nodes(sl) \cup {key}) /\ Cardinality(Nodes(sl) \cup {key}) = Cardinality(Nodes(sl)) + 1
    BY <2>1, PosOfMore
  <2> QED
    BY <1>3, <1>4, <2>1, <2>2
<1>6. new.level \in 1 .. MAX_LEVEL /\ new.level >= height /\ new.level >= sl.level
  BY <1>1, <1>3
<1>7. ASSUME NEW x \in Nodes(new)
      PROVE  \E h \in 1 .. new.level : Level(new, x) = 1 .. h
  <2>1. CASE x = key
    <3>1. height \in 1 .. new.level
      BY <1>1, <1>6
    <3> QED
      BY <1>3, <2>1, <3>1
  <2>2. CASE x \in Nodes(sl)
    <3>1. PICK h \in 1 .. sl.level : Level(sl, x) = 1 .. h
      BY <1>1, <2>2 DEF Shaped
    <3>2. h \in 1 .. new.level /\ Level(new, x) = Level(sl, x)
      BY <1>1, <1>2, <1>3, <1>6, <2>2
    <3> QED
      BY <3>1, <3>2
  <2> QED
    BY <1>4, <2>1, <2>2
<1>8. Header \in All(new) /\ Level(new, Header) = 1 .. MAX_LEVEL
  BY <1>1, <1>2, <1>3 DEF Shaped
<1> QED
  BY <1>3, <1>4, <1>5, <1>6, <1>7, <1>8, Zenon DEF Shaped

LEMMA InsertedLinks ==
  ASSUME NEW sl, IsSkipList(sl), NEW key, IsKey(key), key \notin Nodes(sl),
         NEW height \in 1 .. MAX_LEVEL, NEW new, Inserted(sl, new, key, height)
  PROVE  Linked(new)
<1> DEFINE u == At(sl, key)
<1>1. Shaped(sl) /\ MAX_LEVEL \in Nat
  BY ShapeFacts DEF IsSkipList
<1>2. IsPair(key) /\ less(Header, key)
  BY OrderFacts
<1>3. All(sl) = Nodes(sl) \cup {Header} /\ \A z \in All(sl) \cup {key} : IsPair(z) /\ z # Nil
  BY <1>1, <1>2, ShapeFacts, NilFacts
<1>4. /\ All(new) = All(sl) \cup {key} /\ Level(new, key) = 1 .. height
      /\ \A x \in All(sl) : Level(new, x) = Level(sl, x)
      /\ \A i \in 1 .. height : new.forward[key][i] = sl.forward[u[i]][i]
      /\ \A x \in All(sl) : \A i \in Level(sl, x) :
           new.forward[x][i] = IF x = u[i] /\ i <= height THEN key ELSE sl.forward[x][i]
  BY DEF Inserted
<1>5. Nodes(new) = Nodes(sl) \cup {key}
  BY InsertedShape
<1>6. key \notin All(sl)
  BY <1>2, <1>3, OrderFacts
<1> HIDE DEF u
<1>7. ASSUME NEW i \in 1 .. height
      PROVE  Follows(new, key, i, new.forward[key][i])
  <2> DEFINE y == sl.forward[u[i]][i]
  <2>1. i \in 1 .. MAX_LEVEL /\ new.forward[key][i] = y
    BY <1>1, <1>4
  <2>2. /\ y # Nil => y \in Nodes(sl) /\ i \in Level(sl, y) /\ ~less(y, key)
        /\ \A z \in Nodes(sl) : i \in Level(sl, z) /\ ~less(z, key) => y # Nil /\ (z = y \/ less(y, z))
    BY <1>2, <2>1, AtFacts DEF u
  <2> HIDE DEF y
  <2>3. y # Nil => y \in Nodes(new) /\ i \in Level(new, y) /\ less(key, y)
    BY <1>2, <1>3, <1>4, <1>5, <1>6, <2>2, OrderFacts
  <2>4. ASSUME NEW z \in Nodes(new), i \in Level(new, z), less(key, z)
        PROVE  y # Nil /\ (z = y \/ less(y, z))
    <3>1. z \in Nodes(sl) /\ ~less(z, key)
      BY <1>2, <1>3, <1>5, <2>4, OrderFacts
    <3> QED
      BY <1>3, <1>4, <2>2, <2>4, <3>1
  <2> QED
    BY <2>1, <2>3, <2>4 DEF Follows
<1>8. ASSUME NEW x \in All(sl), NEW i \in Level(sl, x)
      PROVE  Follows(new, x, i, new.forward[x][i])
  <2> DEFINE y == sl.forward[x][i]
  <2>1. /\ y # Nil => y \in Nodes(sl) /\ i \in Level(sl, y) /\ less(x, y)
        /\ \A z \in Nodes(sl) : i \in Level(sl, z) /\ less(x, z) => y # Nil /\ (z = y \/ less(y, z))
        /\ i \in 1 .. MAX_LEVEL
        /\ less(x, key) /\ x # u[i] => y # Nil /\ less(y, key)
    BY <1>2, OthersFacts DEF u
  <2>2. new.forward[x][i] = IF x = u[i] /\ i <= height THEN key ELSE y
    BY <1>4
  <2> HIDE DEF y
  <2>3. y # Nil => y \in Nodes(new) /\ i \in Level(new, y) /\ less(x, y)
    BY <1>3, <1>4, <1>5, <2>1
  <2>4. CASE x = u[i] /\ i <= height
    <3>1. /\ less(x, key)
          /\ \A z \in Nodes(sl) : i \in Level(sl, z) /\ less(z, key) => z = x \/ less(z, x)
      BY <1>2, <1>3, <2>1, <2>4, AtFacts DEF u
    <3>2. i \in Level(new, key) /\ key \in Nodes(new)
      BY <1>1, <1>4, <1>5, <2>1, <2>4
    <3>3. ASSUME NEW z \in Nodes(new), i \in Level(new, z), less(x, z)
          PROVE  z = key \/ less(key, z)
      BY <1>2, <1>3, <1>4, <1>5, <3>1, <3>3, OrderFacts
    <3> QED
      BY <1>3, <2>2, <2>4, <3>1, <3>2, <3>3 DEF Follows
  <2>5. CASE x = u[i] /\ ~(i <= height)
    <3>1. i \notin Level(new, key)
      BY <1>1, <1>4, <2>1, <2>5
    <3>2. \A z \in Nodes(new) : i \in Level(new, z) /\ less(x, z) => y # Nil /\ (z = y \/ less(y, z))
      BY <1>3, <1>4, <1>5, <2>1, <3>1
    <3> QED
      BY <2>2, <2>3, <2>5, <3>2 DEF Follows
  <2>6. CASE x # u[i]
    <3>1. ASSUME less(x, key)
          PROVE  y # Nil /\ (key = y \/ less(y, key))
      BY <2>1, <2>6, <3>1
    <3>2. \A z \in Nodes(new) : i \in Level(new, z) /\ less(x, z) => y # Nil /\ (z = y \/ less(y, z))
      BY <1>3, <1>4, <1>5, <2>1, <3>1
    <3> QED
      BY <2>2, <2>3, <2>6, <3>2 DEF Follows
  <2> QED
    BY <2>4, <2>5, <2>6
<1>9. ASSUME NEW x \in All(new), NEW i \in Level(new, x)
      PROVE  Follows(new, x, i, new.forward[x][i])
  <2>1. CASE x = key
    BY <1>4, <1>7, <2>1
  <2>2. CASE x \in All(sl)
    BY <1>4, <1>8, <2>2
  <2> QED
    BY <1>4, <2>1, <2>2
<1> QED
  BY <1>9 DEF Linked

(* Positions before and after the key came.                                *)
LEMMA InsertedPositions ==
  ASSUME NEW sl, IsSkipList(sl), NEW key, IsKey(key), key \notin Nodes(sl),
         NEW height \in 1 .. MAX_LEVEL, NEW new, Inserted(sl, new, key, height)
  PROVE  /\ \A x \in All(sl) : /\ Pos(Nodes(sl), x) \in Nat
                               /\ less(x, key) => Pos(Nodes(new), x) = Pos(Nodes(sl), x)
                               /\ ~less(x, key) => Pos(Nodes(new), x) = Pos(Nodes(sl), x) + 1
         /\ Pos(Nodes(new), key) = Pos(Nodes(sl), At(sl, key)[1]) + 1
         /\ \A y \in Nodes(sl) \cup {Nil} :
              /\ GoesTo(sl, y) \in Nat
              /\ y # Nil /\ less(y, key) => GoesTo(new, y) = GoesTo(sl, y)
              /\ y = Nil \/ ~less(y, key) => GoesTo(new, y) = GoesTo(sl, y) + 1
         /\ GoesTo(new, key) = Pos(Nodes(sl), At(sl, key)[1]) + 1
<1> DEFINE N == Nodes(sl)
           u == At(sl, key)[1]
<1>1. Shaped(sl) /\ MAX_LEVEL \in Nat /\ MAX_LEVEL > 0
  BY LevelAssumption DEF IsSkipList
<1>2. IsPair(key) /\ less(Header, key)
  BY OrderFacts
<1>3. /\ All(sl) = N \cup {Header} /\ \A x \in All(sl) : IsPair(x) /\ 1 \in Level(sl, x)
      /\ Nil \notin All(sl) \cup {key} /\ key \notin All(sl)
  BY <1>1, <1>2, ShapeFacts, NilFacts, OrderFacts
<1>4. Nodes(new) = N \cup {key} /\ IsKeys(N) /\ sl.length = Cardinality(N) /\ new.length = sl.length + 1
  <2>1. Nodes(new) = Nodes(sl) \cup {key}
    BY InsertedShape
  <2>2. new.length = sl.length + 1
    BY DEF Inserted
  <2> QED
    BY <1>1, <2>1, <2>2 DEF Shaped
<1>5. /\ u \in N \cup {Header} /\ less(u, key)
      /\ \A z \in N : less(z, key) => z = u \/ less(z, u)
  BY <1>1, <1>2, <1>3, AtFacts
<1> HIDE DEF u, N
<1>6. /\ \A x \in N \cup {Header} : /\ less(key, x) => Pos(N \cup {key}, x) = Pos(N, x) + 1
                                    /\ ~less(key, x) => Pos(N \cup {key}, x) = Pos(N, x)
      /\ Pos(N \cup {key}, key) = Pos(N, u) + 1
  BY <1>3, <1>4, <1>5, PosOfMore DEF N
<1>7. \A x \in N \cup {Header} : less(key, x) <=> ~less(x, key)
  BY <1>2, <1>3, OrderFacts
<1>8. Cardinality(N) \in Nat /\ \A x : Pos(N, x) \in Nat
  BY <1>4, PosFacts
<1>9. \A x \in All(sl) : /\ Pos(N, x) \in Nat
                         /\ less(x, key) => Pos(Nodes(new), x) = Pos(N, x)
                         /\ ~less(x, key) => Pos(Nodes(new), x) = Pos(N, x) + 1
  BY <1>3, <1>4, <1>6, <1>7, <1>8
<1>10. GoesTo(sl, Nil) = sl.length /\ GoesTo(new, Nil) = sl.length + 1 /\ sl.length \in Nat
  BY <1>4, <1>8 DEF GoesTo
<1>11. \A y \in N : GoesTo(sl, y) = Pos(N, y) /\ GoesTo(new, y) = Pos(Nodes(new), y)
  BY <1>3 DEF GoesTo, N
<1>12. GoesTo(new, key) = Pos(Nodes(new), key)
  BY <1>3 DEF GoesTo
<1>13. Pos(Nodes(new), key) = Pos(N, u) + 1
  BY <1>4, <1>6
<1>14. ASSUME NEW y \in N \cup {Nil}
       PROVE  /\ GoesTo(sl, y) \in Nat
              /\ y # Nil /\ less(y, key) => GoesTo(new, y) = GoesTo(sl, y)
              /\ y = Nil \/ ~less(y, key) => GoesTo(new, y) = GoesTo(sl, y) + 1
  <2>1. CASE y = Nil
    BY <1>10, <2>1
  <2>2. CASE y \in N /\ y # Nil
    <3>1. y \in All(sl)
      BY <1>3, <2>2
    <3> QED
      BY <1>9, <1>11, <2>2, <3>1
  <2> QED
    BY <2>1, <2>2
<1> QED
  BY <1>9, <1>12, <1>13, <1>14 DEF u, N

LEMMA InsertedSpans ==
  ASSUME NEW sl, IsSkipList(sl), NEW key, IsKey(key), key \notin Nodes(sl),
         NEW height \in 1 .. MAX_LEVEL, NEW new, Inserted(sl, new, key, height)
  PROVE  Measured(new)
<1> DEFINE u == At(sl, key)
           old(x) == Pos(Nodes(sl), x)
           pos(x) == Pos(Nodes(new), x)
           next(i) == sl.forward[u[i]][i]
<1>1. Shaped(sl) /\ MAX_LEVEL \in Nat /\ MAX_LEVEL > 0 /\ sl.level \in Nat /\ sl.level <= MAX_LEVEL
  BY LevelAssumption, ShapeFacts DEF IsSkipList
<1>2. IsPair(key) /\ less(Header, key)
  BY OrderFacts
<1>3. All(sl) = Nodes(sl) \cup {Header} /\ key \notin All(sl) /\ \A x \in All(sl) : x # Nil
  BY <1>1, <1>2, ShapeFacts, OrderFacts
<1>4. /\ \A x \in All(sl) : /\ old(x) \in Nat
                            /\ less(x, key) => pos(x) = old(x)
                            /\ ~less(x, key) => pos(x) = old(x) + 1
      /\ pos(key) = old(u[1]) + 1
      /\ \A y \in Nodes(sl) \cup {Nil} :
           /\ GoesTo(sl, y) \in Nat
           /\ y # Nil /\ less(y, key) => GoesTo(new, y) = GoesTo(sl, y)
           /\ y = Nil \/ ~less(y, key) => GoesTo(new, y) = GoesTo(sl, y) + 1
      /\ GoesTo(new, key) = old(u[1]) + 1
  BY InsertedPositions
<1>5. \A i \in 1 .. MAX_LEVEL :
        /\ u[i] \in All(sl) /\ i \in Level(sl, u[i]) /\ less(u[i], key)
        /\ next(i) # Nil => next(i) \in Nodes(sl) /\ ~less(next(i), key)
  BY <1>2, AtFacts
<1>6. \A x \in All(sl) : \A i \in Level(sl, x) :
        i <= sl.level => sl.span[x][i] = GoesTo(sl, sl.forward[x][i]) - old(x)
  BY DEF IsSkipList, Measured
<1>7. \A x \in All(sl) : \A i \in Level(sl, x) :
        /\ i \in 1 .. MAX_LEVEL
        /\ sl.forward[x][i] \in Nodes(sl) \cup {Nil}
        /\ less(x, key) /\ x # u[i] => sl.forward[x][i] # Nil /\ less(sl.forward[x][i], key)
        /\ ~less(x, key) => sl.forward[x][i] = Nil \/ ~less(sl.forward[x][i], key)
        /\ i > sl.level => x = Header /\ sl.forward[x][i] = Nil /\ u[i] = Header
  <2>1. ASSUME NEW x \in All(sl), NEW i \in Level(sl, x)
        PROVE  /\ i \in 1 .. MAX_LEVEL
               /\ sl.forward[x][i] \in Nodes(sl) \cup {Nil}
               /\ less(x, key) /\ x # u[i] => sl.forward[x][i] # Nil /\ less(sl.forward[x][i], key)
               /\ ~less(x, key) => sl.forward[x][i] = Nil \/ ~less(sl.forward[x][i], key)
               /\ i > sl.level => x = Header /\ sl.forward[x][i] = Nil /\ u[i] = Header
    <3> DEFINE y == sl.forward[x][i]
    <3>1. /\ i \in 1 .. MAX_LEVEL
          /\ y # Nil => y \in Nodes(sl)
          /\ less(x, key) /\ x # u[i] => y # Nil /\ less(y, key)
          /\ x = key \/ less(key, x) => y = Nil \/ less(key, y)
          /\ i > sl.level => x = Header /\ y = Nil /\ u[i] = Header
      BY <1>2, OthersFacts
    <3>2. IsPair(x) /\ (y # Nil => IsPair(y))
      BY <1>1, <1>3, <3>1, ShapeFacts
    <3> HIDE DEF y, u
    <3>3. ~less(x, key) => x = key \/ less(key, x)
      BY <1>2, <3>2, OrderFacts
    <3>4. y # Nil /\ less(key, y) => ~less(y, key)
      BY <1>2, <3>2, OrderFacts
    <3> QED
      BY <3>1, <3>3, <3>4 DEF y
  <2> QED
    BY <2>1
<1>8. /\ All(new) = All(sl) \cup {key} /\ Level(new, key) = 1 .. height
      /\ \A x \in All(sl) : Level(new, x) = Level(sl, x)
      /\ new.level = IF height > sl.level THEN height ELSE sl.level
      /\ \A i \in 1 .. height :
           /\ new.forward[key][i] = next(i)
           /\ new.span[key][i] = (IF i <= sl.level THEN sl.span[u[i]][i] ELSE sl.length) - (old(u[1]) - old(u[i]))
      /\ \A x \in All(sl) : \A i \in Level(sl, x) :
           /\ new.forward[x][i] = IF x = u[i] /\ i <= height THEN key ELSE sl.forward[x][i]
           /\ x # u[i] => new.span[x][i] = sl.span[x][i]
           /\ x = u[i] /\ i <= height => new.span[x][i] = old(u[1]) - old(u[i]) + 1
           /\ x = u[i] /\ i > height /\ i <= sl.level => new.span[x][i] = sl.span[x][i] + 1
  BY DEF Inserted
<1>9. old(Header) = 0 /\ GoesTo(sl, Nil) = sl.length
  BY <1>1, PosFacts DEF GoesTo, Shaped
<1> HIDE DEF u, old, pos, next
<1>10. ASSUME NEW i \in 1 .. height
       PROVE  new.span[key][i] = GoesTo(new, new.forward[key][i]) - pos(key)
  <2>1. i \in 1 .. MAX_LEVEL /\ 1 \in 1 .. MAX_LEVEL /\ i \in Nat
    BY <1>1
  <2>2. next(i) \in Nodes(sl) \cup {Nil} /\ (next(i) # Nil => ~less(next(i), key))
    BY <1>5, <2>1
  <2>3. GoesTo(new, next(i)) = GoesTo(sl, next(i)) + 1 /\ GoesTo(sl, next(i)) \in Nat
    BY <1>4, <2>2
  <2>4. old(u[i]) \in Nat /\ old(u[1]) \in Nat
    BY <1>4, <1>5, <2>1
  <2>5. (IF i <= sl.level THEN sl.span[u[i]][i] ELSE sl.length) = GoesTo(sl, next(i)) - old(u[i])
    <3>1. CASE i <= sl.level
      BY <1>5, <1>6, <2>1, <3>1 DEF next
    <3>2. CASE i > sl.level
      <4>1. next(i) = Nil /\ u[i] = Header
        BY <1>5, <1>7, <2>1, <3>2 DEF next
      <4>2. sl.length \in Nat
        BY <1>9, <2>3, <4>1
      <4> QED
        BY <1>1, <1>9, <2>1, <3>2, <4>1, <4>2
    <3> QED
      BY <1>1, <2>1, <3>1, <3>2
  <2> DEFINE over == IF i <= sl.level THEN sl.span[u[i]][i] ELSE sl.length
  <2>6. new.span[key][i] = over - (old(u[1]) - old(u[i])) /\ new.forward[key][i] = next(i)
    BY <1>8
  <2>7. over = GoesTo(sl, next(i)) - old(u[i])
    BY <2>5
  <2> HIDE DEF over
  <2> QED
    BY <1>4, <2>3, <2>4, <2>6, <2>7
<1>11. ASSUME NEW x \in All(sl), NEW i \in Level(sl, x), i <= new.level
       PROVE  new.span[x][i] = GoesTo(new, new.forward[x][i]) - pos(x)
  <2> DEFINE y == sl.forward[x][i]
  <2>1. i \in 1 .. MAX_LEVEL /\ i \in Nat /\ height \in Nat
        /\ y \in Nodes(sl) \cup {Nil} /\ old(x) \in Nat /\ GoesTo(sl, y) \in Nat
    BY <1>1, <1>4, <1>7
  <2>2. /\ less(x, key) /\ x # u[i] => y # Nil /\ less(y, key)
        /\ ~less(x, key) => y = Nil \/ ~less(y, key)
        /\ i > sl.level => x = Header /\ u[i] = Header
    BY <1>7
  <2>3. i <= sl.level => sl.span[x][i] = GoesTo(sl, y) - old(x)
    BY <1>6
  <2>4. /\ new.forward[x][i] = IF x = u[i] /\ i <= height THEN key ELSE y
        /\ x # u[i] => new.span[x][i] = sl.span[x][i]
        /\ x = u[i] /\ i <= height => new.span[x][i] = old(u[1]) - old(u[i]) + 1
        /\ x = u[i] /\ i > height /\ i <= sl.level => new.span[x][i] = sl.span[x][i] + 1
    BY <1>8
  <2>5. x = u[i] => less(x, key) /\ (y # Nil => ~less(y, key))
    BY <1>5, <2>1 DEF next
  <2> HIDE DEF y
  <2>6. CASE x # u[i]
    <3>1. i <= sl.level
      BY <1>1, <2>1, <2>2, <2>6
    <3>2. new.span[x][i] = GoesTo(sl, y) - old(x) /\ new.forward[x][i] = y
      BY <2>3, <2>4, <2>6, <3>1
    <3>3. CASE less(x, key)
      <4>1. GoesTo(new, y) = GoesTo(sl, y) /\ pos(x) = old(x)
        BY <1>4, <2>1, <2>2, <2>6, <3>3
      <4> QED
        BY <3>2, <4>1
    <3>4. CASE ~less(x, key)
      <4>1. GoesTo(new, y) = GoesTo(sl, y) + 1 /\ pos(x) = old(x) + 1
        BY <1>4, <2>1, <2>2, <3>4
      <4> QED
        BY <2>1, <3>2, <4>1
    <3> QED
      BY <3>3, <3>4
  <2>7. CASE x = u[i] /\ i <= height
    <3>1. new.span[x][i] = old(u[1]) - old(x) + 1 /\ new.forward[x][i] = key
      BY <2>4, <2>7
    <3>2. pos(x) = old(x) /\ GoesTo(new, key) = old(u[1]) + 1 /\ old(u[1]) \in Nat
      <4>1. 1 \in 1 .. MAX_LEVEL
        BY <1>1
      <4> QED
        BY <1>4, <1>5, <2>5, <2>7, <4>1
    <3> QED
      BY <2>1, <3>1, <3>2
  <2>8. CASE x = u[i] /\ i > height
    <3>1. i <= sl.level
      BY <1>1, <1>8, <1>11, <2>1, <2>8
    <3>2. new.span[x][i] = GoesTo(sl, y) - old(x) + 1 /\ new.forward[x][i] = y
      BY <2>1, <2>3, <2>4, <2>8, <3>1
    <3>3. GoesTo(new, y) = GoesTo(sl, y) + 1 /\ pos(x) = old(x)
      BY <1>4, <2>1, <2>5, <2>8
    <3> QED
      BY <2>1, <3>2, <3>3
  <2> QED
    BY <2>1, <2>6, <2>7, <2>8
<1>12. ASSUME NEW x \in All(new), NEW i \in Level(new, x), i <= new.level
       PROVE  new.span[x][i] = GoesTo(new, new.forward[x][i]) - pos(x)
  <2>1. CASE x = key
    BY <1>8, <1>10, <2>1
  <2>2. CASE x \in All(sl)
    BY <1>8, <1>11, <1>12, <2>2
  <2> QED
    BY <1>8, <2>1, <2>2
<1> QED
  BY <1>12 DEF Measured, pos

LEMMA InsertedEnds ==
  ASSUME NEW sl, IsSkipList(sl), NEW key, IsKey(key), key \notin Nodes(sl),
         NEW height \in 1 .. MAX_LEVEL, NEW new, Inserted(sl, new, key, height)
  PROVE  Backwards(new) /\ Ended(new)
<1> DEFINE u == At(sl, key)[1]
           next == sl.forward[u][1]
           N == Nodes(sl)
<1>1. Shaped(sl) /\ 1 \in 1 .. MAX_LEVEL
  BY LevelAssumption DEF IsSkipList
<1>2. IsPair(key) /\ less(Header, key)
  BY OrderFacts
<1>3. /\ All(sl) = N \cup {Header} /\ key \notin All(sl)
      /\ \A x \in All(sl) \cup {key} : IsPair(x) /\ x # Nil
      /\ \A x \in All(sl) : 1 \in Level(sl, x)
  BY <1>1, <1>2, ShapeFacts, NilFacts, OrderFacts
<1>4. Nodes(new) = N \cup {key} /\ All(new) = All(sl) \cup {key}
  <2>1. Nodes(new) = Nodes(sl) \cup {key}
    BY InsertedShape
  <2>2. All(new) = All(sl) \cup {key}
    BY DEF Inserted
  <2> QED
    BY <2>1, <2>2
<1>5. /\ u \in All(sl) /\ less(u, key)
      /\ \A z \in All(sl) : less(z, key) => z = u \/ less(z, u)
      /\ next # Nil => next \in N /\ ~less(next, key)
      /\ \A z \in N : ~less(z, key) => next # Nil /\ (z = next \/ less(next, z))
  BY <1>1, <1>2, <1>3, AtFacts
<1>6. /\ new.backward[key] = u
      /\ \A x \in All(sl) : new.backward[x] = IF x = next THEN key ELSE sl.backward[x]
      /\ new.tail = IF next = Nil THEN key ELSE sl.tail
  BY DEF Inserted
<1>7. \A x \in N : /\ sl.backward[x] \in All(sl) /\ less(sl.backward[x], x)
                   /\ \A z \in N : less(z, x) => z = sl.backward[x] \/ less(z, sl.backward[x])
  BY DEF IsSkipList, Backwards, Ends
<1>8. /\ N = {} => sl.tail \in {Nil, Header}
      /\ N # {} => sl.tail \in N /\ \A z \in N : z = sl.tail \/ less(z, sl.tail)
  BY DEF IsSkipList, Ended, Ends
<1> HIDE DEF u, next, N
<1>9. ASSUME NEW x \in N \cup {key}
      PROVE  /\ new.backward[x] \in All(new) /\ less(new.backward[x], x)
             /\ \A z \in N \cup {key} : less(z, x) => z = new.backward[x] \/ less(z, new.backward[x])
  <2>1. CASE x = key
    BY <1>2, <1>3, <1>4, <1>5, <1>6, <2>1, OrderFacts
  <2>2. CASE x \in N /\ x = next
    <3>1. new.backward[x] = key /\ less(key, x)
      BY <1>2, <1>3, <1>5, <1>6, <2>2, OrderFacts
    <3>2. ASSUME NEW z \in N, less(z, x) PROVE less(z, key)
      BY <1>3, <1>5, <2>2, <3>2, OrderFacts
    <3> QED
      BY <1>4, <3>1, <3>2
  <2>3. CASE x \in N /\ x # next
    <3> DEFINE b == sl.backward[x]
    <3>1. new.backward[x] = b /\ b \in All(sl) /\ less(b, x) /\ IsPair(x) /\ IsPair(b)
          /\ \A z \in N : less(z, x) => z = b \/ less(z, b)
      BY <1>3, <1>6, <1>7, <2>3
    <3> HIDE DEF b
    <3>2. ASSUME less(key, x) PROVE less(key, b)
      <4>1. ~less(x, key)
        BY <1>2, <3>1, <3>2, OrderFacts
      <4>2. next # Nil /\ less(next, x) /\ next \in N
        BY <1>5, <2>3, <4>1
      <4>3. next = b \/ less(next, b)
        BY <3>1, <4>2
      <4>4. less(key, next) /\ IsPair(next)
        BY <1>2, <1>3, <1>5, <4>2, OrderFacts
      <4> QED
        BY <1>2, <3>1, <4>3, <4>4, OrderFacts
    <3> QED
      BY <1>4, <3>1, <3>2
  <2> QED
    BY <2>1, <2>2, <2>3
<1>10. Backwards(new)
  BY <1>4, <1>9, Zenon DEF Backwards, Ends
<1>11. new.tail \in N \cup {key} /\ \A z \in N \cup {key} : z = new.tail \/ less(z, new.tail)
  <2>1. CASE next = Nil
    <3>1. \A z \in N : less(z, key)
      BY <1>5, <2>1
    <3> QED
      BY <1>6, <2>1, <3>1
  <2>2. CASE next # Nil
    <3>1. next \in N /\ less(key, next) /\ IsPair(next)
      BY <1>2, <1>3, <1>5, <2>2, OrderFacts
    <3>2. sl.tail \in N /\ IsPair(sl.tail) /\ \A z \in N : z = sl.tail \/ less(z, sl.tail)
      BY <1>3, <1>8, <3>1
    <3>3. less(key, sl.tail)
      BY <1>2, <3>1, <3>2, OrderFacts
    <3> QED
      BY <1>6, <2>2, <3>2, <3>3
  <2> QED
    BY <2>1, <2>2
<1>12. Ended(new)
  BY <1>4, <1>11 DEF Ended, Ends
<1> QED
  BY <1>10, <1>12

(* The first node that does not come before the key.                       *)
LEMMA FoundFacts ==
  ASSUME NEW sl, IsSkipList(sl), NEW key, IsPair(key), less(Header, key)
  PROVE  sl.forward[At(sl, key)[1]][1] = key <=> key \in Nodes(sl)
<1> DEFINE y == sl.forward[At(sl, key)[1]][1]
<1>1. 1 \in 1 .. MAX_LEVEL /\ key # Nil
  BY LevelAssumption, NilFacts
<1>2. \A x \in Nodes(sl) : IsPair(x) /\ 1 \in Level(sl, x)
  BY ShapeFacts DEF IsSkipList
<1>3. /\ y # Nil => y \in Nodes(sl) /\ ~less(y, key)
      /\ \A z \in Nodes(sl) : 1 \in Level(sl, z) /\ ~less(z, key) => y # Nil /\ (z = y \/ less(y, z))
  BY <1>1, AtFacts
<1> HIDE DEF y
<1>4. key \in Nodes(sl) => y = key
  BY <1>2, <1>3, OrderFacts
<1>5. y = key => key \in Nodes(sl)
  BY <1>1, <1>3
<1> QED
  BY <1>4, <1>5 DEF y

LEMMA InsertInserts ==
  ASSUME NEW sl, IsSkipList(sl), NEW key, IsKey(key), NEW height \in 1 .. MAX_LEVEL
  PROVE  /\ key \in Nodes(sl) => Insert(sl, key, height) = sl
         /\ key \notin Nodes(sl) => Inserted(sl, Insert(sl, key, height), key, height)
<1> DEFINE update   == Descent(sl, {x \in Nodes(sl) : less(x, key)})
           over(i)  == IF i <= sl.level THEN sl.span[update[i].node][i] ELSE sl.length
           next(i)  == sl.forward[update[i].node][i]
           ahead(i) == update[1].rank - update[i].rank
           top      == IF height > sl.level THEN height ELSE sl.level
           linked(x, i)   == IF x = update[i].node /\ i <= height THEN key ELSE sl.forward[x][i]
           measured(x, i) == IF x # update[i].node \/ i > top THEN sl.span[x][i]
                             ELSE IF i <= height THEN ahead(i) + 1
                             ELSE sl.span[x][i] + 1
           all      == DOMAIN sl.forward \cup {key}
           forward  == [x \in all |-> IF x = key THEN [i \in 1 .. height |-> next(i)]
                                      ELSE [i \in DOMAIN sl.forward[x] |-> linked(x, i)]]
           span     == [x \in all |-> IF x = key THEN [i \in 1 .. height |-> over(i) - ahead(i)]
                                      ELSE [i \in DOMAIN sl.span[x] |-> measured(x, i)]]
           backward == [x \in all |-> IF x = key THEN update[1].node
                                      ELSE IF x = next(1) THEN key ELSE sl.backward[x]]
           new      == Insert(sl, key, height)
           u        == At(sl, key)
<1>1. new = IF next(1) = key THEN sl
            ELSE [forward |-> forward, span |-> span, backward |-> backward,
                  tail    |-> IF next(1) = Nil THEN key ELSE sl.tail,
                  level   |-> top,
                  length  |-> sl.length + 1]
  BY DEF Insert, InsertGrowing
<1>2. IsPair(key) /\ less(Header, key) /\ key # Header
  BY OrderFacts
<1>3. \A i \in 1 .. MAX_LEVEL : update[i].node = u[i] /\ update[i].rank = Pos(Nodes(sl), u[i])
  BY <1>2, AtFacts DEF Before
<1>4. 1 \in 1 .. MAX_LEVEL /\ MAX_LEVEL \in Nat
  BY LevelAssumption
<1>5. next(1) = key <=> key \in Nodes(sl)
  BY <1>2, <1>3, <1>4, FoundFacts
<1> HIDE DEF new, update, u
<1>6. CASE key \in Nodes(sl)
  BY <1>1, <1>5, <1>6 DEF new
<1>7. CASE key \notin Nodes(sl)
  <2>1. /\ new.forward = forward /\ new.span = span /\ new.backward = backward
        /\ new.tail = (IF next(1) = Nil THEN key ELSE sl.tail)
        /\ new.level = top /\ new.length = sl.length + 1
    <3> HIDE DEF forward, span, backward, top, next
    <3> QED
      BY <1>1, <1>5, <1>7
  <2>2. Shaped(sl)
    BY DEF IsSkipList
  <2>3. /\ All(sl) = Nodes(sl) \cup {Header} /\ key \notin All(sl)
        /\ \A x \in All(sl) : Level(sl, x) \subseteq 1 .. MAX_LEVEL /\ DOMAIN sl.span[x] = Level(sl, x)
    BY <1>2, <1>7, <2>2, ShapeFacts DEF Shaped
  <2>4. all = All(sl) \cup {key}
    BY DEF All
  <2>5. /\ All(new) = All(sl) \cup {key} /\ Level(new, key) = 1 .. height
        /\ \A x \in All(sl) : Level(new, x) = Level(sl, x)
    <3> HIDE DEF next, over, ahead, linked, measured, top, span, backward, all
    <3> QED
      BY <2>1, <2>3, <2>4 DEF All, Level
  <2>6. DOMAIN new.span = All(new) /\ \A x \in All(new) : DOMAIN new.span[x] = Level(new, x)
    <3> HIDE DEF next, over, ahead, linked, measured, top, forward, backward, all
    <3> QED
      BY <2>1, <2>3, <2>4, <2>5
  <2>7. \A i \in 1 .. height : i \in 1 .. MAX_LEVEL
    BY <1>4
  <2> DEFINE pos(x) == Pos(Nodes(sl), x)
  <2>8. \A i \in 1 .. MAX_LEVEL : ahead(i) = pos(u[1]) - pos(u[i])
    BY <1>3, <1>4
  <2>9. ASSUME NEW i \in 1 .. height
        PROVE  /\ new.forward[key][i] = sl.forward[u[i]][i]
               /\ new.span[key][i] =
                    (IF i <= sl.level THEN sl.span[u[i]][i] ELSE sl.length) - (pos(u[1]) - pos(u[i]))
    <3>1. new.forward[key][i] = next(i) /\ new.span[key][i] = over(i) - ahead(i)
      <4>1. key \in all
        OBVIOUS
      <4> HIDE DEF next, over, ahead, linked, measured, top, backward, all
      <4> QED
        BY <2>1, <4>1
    <3>2. next(i) = sl.forward[u[i]][i]
          /\ over(i) = (IF i <= sl.level THEN sl.span[u[i]][i] ELSE sl.length)
      BY <1>3, <2>7
    <3>3. ahead(i) = pos(u[1]) - pos(u[i])
      BY <2>7, <2>8
    <3> HIDE DEF next, over, ahead, pos
    <3> QED
      BY <3>1, <3>2, <3>3
  <2>10. ASSUME NEW x \in All(sl), NEW i \in Level(sl, x)
         PROVE  /\ new.forward[x][i] = IF x = u[i] /\ i <= height THEN key ELSE sl.forward[x][i]
                /\ x # u[i] => new.span[x][i] = sl.span[x][i]
                /\ x = u[i] /\ i <= height => new.span[x][i] = pos(u[1]) - pos(u[i]) + 1
                /\ x = u[i] /\ i > height /\ i <= sl.level => new.span[x][i] = sl.span[x][i] + 1
    <3>1. i \in 1 .. MAX_LEVEL /\ x # key /\ x \in all
      BY <2>3, <2>4
    <3>2. new.forward[x][i] = linked(x, i) /\ new.span[x][i] = measured(x, i)
      <4>1. i \in DOMAIN sl.forward[x] /\ i \in DOMAIN sl.span[x]
        BY <2>3 DEF Level
      <4> HIDE DEF next, over, ahead, linked, measured, top, backward, all
      <4> QED
        BY <2>1, <3>1, <4>1
    <3>3. update[i].node = u[i] /\ ahead(i) = pos(u[1]) - pos(u[i])
      BY <1>3, <2>8, <3>1
    <3>4. linked(x, i) = IF x = u[i] /\ i <= height THEN key ELSE sl.forward[x][i]
      BY <3>3
    <3>5. sl.level \in Nat /\ i \in Nat /\ height \in Nat
      BY <1>4, <2>2, <3>1, ShapeFacts
    <3>6. /\ x # u[i] => measured(x, i) = sl.span[x][i]
          /\ x = u[i] /\ i <= height => measured(x, i) = ahead(i) + 1
          /\ x = u[i] /\ i > height /\ i <= sl.level => measured(x, i) = sl.span[x][i] + 1
      <4> HIDE DEF ahead
      <4> QED
        BY <3>3, <3>5
    <3> HIDE DEF linked, measured, ahead, pos
    <3> QED
      BY <3>2, <3>3, <3>4, <3>6
  <2>11. new.backward[key] = u[1]
    BY <1>3, <1>4, <2>1
  <2>12. next(1) = sl.forward[u[1]][1]
    BY <1>3, <1>4
  <2>13. \A x \in All(sl) : new.backward[x] = IF x = sl.forward[u[1]][1] THEN key ELSE sl.backward[x]
    <3> HIDE DEF next
    <3> QED
      BY <2>1, <2>3, <2>4, <2>12
  <2>14. new.tail = IF sl.forward[u[1]][1] = Nil THEN key ELSE sl.tail
    BY <2>1, <2>12
  <2>15. new.level = (IF height > sl.level THEN height ELSE sl.level) /\ new.length = sl.length + 1
    BY <2>1
  <2>16. Inserted(sl, new, key, height)
    <3> HIDE DEF pos
    <3> QED
      BY <2>5, <2>6, <2>9, <2>10, <2>11, <2>13, <2>14, <2>15, Zenon DEF Inserted, u, pos
  <2> QED
    BY <1>7, <2>16 DEF new
<1> QED
  BY <1>6, <1>7

(* Insert keeps a skip list one, with the key in it.                       *)
LEMMA InsertFacts ==
  ASSUME NEW sl, IsSkipList(sl), NEW key, IsKey(key), NEW height \in 1 .. MAX_LEVEL
  PROVE  /\ IsSkipList(Insert(sl, key, height))
         /\ Nodes(Insert(sl, key, height)) = Nodes(sl) \cup {key}
<1>1. CASE key \in Nodes(sl)
  BY <1>1, InsertInserts
<1>2. CASE key \notin Nodes(sl)
  <2> DEFINE new == Insert(sl, key, height)
  <2>1. Inserted(sl, new, key, height)
    BY <1>2, InsertInserts
  <2> HIDE DEF new
  <2>2. Shaped(new) /\ Nodes(new) = Nodes(sl) \cup {key}
    BY <1>2, <2>1, InsertedShape
  <2>3. Linked(new)
    BY <1>2, <2>1, InsertedLinks
  <2>4. Measured(new)
    BY <1>2, <2>1, InsertedSpans
  <2>5. Backwards(new) /\ Ended(new)
    BY <1>2, <2>1, InsertedEnds
  <2> QED
    BY <2>2, <2>3, <2>4, <2>5 DEF IsSkipList, new
<1> QED
  BY <1>1, <1>2

----------------------------------------------------------------------------
(* new is sl without a key.                                                *)
Deleted(sl, new, key) ==
  LET u == At(sl, key)
      next == sl.forward[key][1]
  IN  /\ All(new) = All(sl) \ {key}
      /\ \A x \in All(new) : Level(new, x) = Level(sl, x)
      /\ DOMAIN new.span = All(new)
      /\ \A x \in All(new) : DOMAIN new.span[x] = Level(new, x)
      /\ new.level \in 1 .. sl.level
      /\ \A i \in 1 .. sl.level : new.forward[Header][i] # Nil => i <= new.level
      /\ new.length = sl.length - 1
      /\ \A x \in All(new) : \A i \in Level(sl, x) :
           /\ new.forward[x][i] = IF sl.forward[x][i] = key THEN sl.forward[key][i] ELSE sl.forward[x][i]
           /\ x # u[i] => new.span[x][i] = sl.span[x][i]
           /\ x = u[i] /\ sl.forward[x][i] = key /\ i <= sl.level =>
                new.span[x][i] = sl.span[x][i] + sl.span[key][i] - 1
           /\ x = u[i] /\ sl.forward[x][i] # key /\ i <= sl.level =>
                new.span[x][i] = sl.span[x][i] - 1
      /\ \A x \in All(new) : new.backward[x] = IF x = next THEN sl.backward[key] ELSE sl.backward[x]
      /\ new.tail = IF next = Nil THEN sl.backward[key] ELSE sl.tail

(* Of all pointers, those at the key are where the descent ends.           *)
LEMMA PointersTo ==
  ASSUME NEW sl, IsSkipList(sl), NEW key \in Nodes(sl),
         NEW x \in All(sl), NEW i \in Level(sl, x), sl.forward[x][i] = key
  PROVE  x = At(sl, key)[i] /\ i \in Level(sl, key) /\ less(x, key)
<1>1. IsKey(key)
  BY DEF IsSkipList, Shaped, IsKeys
<1>2. IsPair(key) /\ less(Header, key) /\ key # Nil
  BY <1>1, OrderFacts, NilFacts
<1>3. /\ i \in Level(sl, key) /\ less(x, key)
      /\ less(x, key) /\ x # At(sl, key)[i] => less(key, key)
  BY <1>2, OthersFacts
<1> QED
  BY <1>2, <1>3, OrderFacts

LEMMA DeletedLinks ==
  ASSUME NEW sl, IsSkipList(sl), NEW key \in Nodes(sl), NEW new, Deleted(sl, new, key)
  PROVE  /\ Linked(new)
         /\ Nodes(new) = Nodes(sl) \ {key} /\ All(new) = Nodes(new) \cup {Header}
         /\ IsKey(key) /\ IsPair(key) /\ less(Header, key)
<1>1. Shaped(sl) /\ MAX_LEVEL \in Nat /\ sl.level \in Nat
  BY ShapeFacts DEF IsSkipList
<1>2. IsKey(key) /\ IsPair(key) /\ less(Header, key)
  BY <1>1, OrderFacts DEF Shaped, IsKeys
<1>3. All(sl) = Nodes(sl) \cup {Header} /\ Header \notin Nodes(sl) /\ \A z \in All(sl) : IsPair(z) /\ z # Nil
  BY <1>1, ShapeFacts
<1>4. /\ All(new) = All(sl) \ {key}
      /\ \A x \in All(new) : Level(new, x) = Level(sl, x)
      /\ \A x \in All(new) : \A i \in Level(sl, x) :
           new.forward[x][i] = IF sl.forward[x][i] = key THEN sl.forward[key][i] ELSE sl.forward[x][i]
  BY DEF Deleted
<1>5. Nodes(new) = Nodes(sl) \ {key} /\ All(new) = Nodes(new) \cup {Header}
  <2>1. Nodes(new) = All(new) \ {Header}
    BY DEF Nodes, All
  <2> QED
    BY <1>3, <1>4, <2>1
<1>6. ASSUME NEW x \in All(new), NEW i \in Level(new, x)
      PROVE  Follows(new, x, i, new.forward[x][i])
  <2> DEFINE y == sl.forward[x][i]
             z == sl.forward[key][i]
  <2>1. x \in All(sl) /\ i \in Level(sl, x) /\ new.forward[x][i] = IF y = key THEN z ELSE y
    BY <1>4
  <2>2. /\ y # Nil => y \in Nodes(sl) /\ i \in Level(sl, y) /\ less(x, y)
        /\ \A v \in Nodes(sl) : i \in Level(sl, v) /\ less(x, v) => y # Nil /\ (v = y \/ less(y, v))
    BY <1>2, <2>1, OthersFacts
  <2>3. CASE y # key
    <3>1. /\ y # Nil => y \in Nodes(new) /\ i \in Level(new, y) /\ less(x, y)
          /\ \A v \in Nodes(new) : i \in Level(new, v) /\ less(x, v) => y # Nil /\ (v = y \/ less(y, v))
      <4> HIDE DEF y
      <4> QED
        BY <1>4, <1>5, <2>2, <2>3
    <3> QED
      BY <2>1, <2>3, <3>1 DEF Follows
  <2>4. CASE y = key
    <3>1. i \in Level(sl, key) /\ less(x, key)
      BY <2>1, <2>4, PointersTo
    <3>2. key \in All(sl)
      BY <1>3
    <3>3. /\ z # Nil => z \in Nodes(sl) /\ i \in Level(sl, z) /\ less(key, z)
          /\ \A v \in Nodes(sl) : i \in Level(sl, v) /\ less(key, v) => z # Nil /\ (v = z \/ less(z, v))
      BY <1>2, <3>1, <3>2, OthersFacts
    <3> HIDE DEF y, z
    <3>4. z # Nil => z \in Nodes(new) /\ i \in Level(new, z) /\ less(x, z)
      <4>1. z # Nil => z # key /\ IsPair(z) /\ IsPair(x)
        BY <1>2, <1>3, <2>1, <3>3, OrderFacts
      <4> QED
        BY <1>2, <1>4, <1>5, <3>1, <3>3, <4>1, OrderFacts
    <3>5. ASSUME NEW v \in Nodes(new), i \in Level(new, v), less(x, v)
          PROVE  z # Nil /\ (v = z \/ less(z, v))
      <4>1. v \in Nodes(sl) /\ v # key /\ i \in Level(sl, v)
        BY <1>4, <1>5, <3>5
      <4>2. less(key, v)
        BY <2>2, <2>4, <3>5, <4>1
      <4> QED
        BY <3>3, <4>1, <4>2
    <3> QED
      BY <2>1, <2>4, <3>4, <3>5 DEF Follows
  <2> QED
    BY <2>3, <2>4
<1> QED
  BY <1>2, <1>5, <1>6 DEF Linked

LEMMA DeletedShape ==
  ASSUME NEW sl, IsSkipList(sl), NEW key \in Nodes(sl), NEW new, Deleted(sl, new, key)
  PROVE  Shaped(new)
<1>1. Shaped(sl) /\ MAX_LEVEL \in Nat /\ sl.level \in Nat /\ sl.level <= MAX_LEVEL
  BY ShapeFacts DEF IsSkipList
<1>2. /\ Linked(new)
      /\ Nodes(new) = Nodes(sl) \ {key} /\ All(new) = Nodes(new) \cup {Header}
      /\ IsKey(key) /\ less(Header, key)
  BY DeletedLinks
<1>3. /\ All(new) = All(sl) \ {key}
      /\ \A x \in All(new) : Level(new, x) = Level(sl, x)
      /\ DOMAIN new.span = All(new)
      /\ \A x \in All(new) : DOMAIN new.span[x] = Level(new, x)
      /\ new.level \in 1 .. sl.level
      /\ \A i \in 1 .. sl.level : new.forward[Header][i] # Nil => i <= new.level
      /\ new.length = sl.length - 1
  BY DEF Deleted
<1>4. IsKeys(Nodes(new)) /\ new.length = Cardinality(Nodes(new))
  <2>1. IsKeys(Nodes(sl)) /\ sl.length = Cardinality(Nodes(sl))
    BY <1>1 DEF Shaped
  <2>2. IsFiniteSet(Nodes(sl) \ {key}) /\ Cardinality(Nodes(sl) \ {key}) = Cardinality(Nodes(sl)) - 1
    BY <2>1, FS_RemoveElement DEF IsKeys
  <2> QED
    BY <1>2, <1>3, <2>1, <2>2 DEF IsKeys
<1>5. new.level \in 1 .. MAX_LEVEL
  BY <1>1, <1>3
<1>6. Header \in All(new) /\ Level(new, Header) = 1 .. MAX_LEVEL
  BY <1>1, <1>2, <1>3 DEF Shaped
<1>7. ASSUME NEW x \in Nodes(new)
      PROVE  \E h \in 1 .. new.level : Level(new, x) = 1 .. h
  <2>1. x \in Nodes(sl) /\ x \in All(new) /\ Level(new, x) = Level(sl, x)
    BY <1>2, <1>3
  <2>2. PICK h \in 1 .. sl.level : Level(sl, x) = 1 .. h
    BY <1>1, <2>1 DEF Shaped
  <2>3. h \in Level(new, x) /\ h \in Level(new, Header)
    BY <1>1, <1>6, <2>1, <2>2
  <2>4. less(Header, x)
    BY <1>4, OrderFacts DEF IsKeys
  <2>5. new.forward[Header][h] # Nil
    BY <1>2, <1>6, <2>3, <2>4 DEF Linked, Follows
  <2>6. h \in 1 .. new.level
    BY <1>1, <1>3, <2>2, <2>5
  <2> QED
    BY <2>1, <2>2, <2>6
<1> QED
  BY <1>3, <1>4, <1>5, <1>6, <1>7, Zenon DEF Shaped

LEMMA DeletedPositions ==
  ASSUME NEW sl, IsSkipList(sl), NEW key \in Nodes(sl), NEW new, Deleted(sl, new, key)
  PROVE  /\ \A x \in All(new) : /\ Pos(Nodes(new), x) \in Nat
                                /\ less(x, key) => Pos(Nodes(sl), x) = Pos(Nodes(new), x)
                                /\ ~less(x, key) => Pos(Nodes(sl), x) = Pos(Nodes(new), x) + 1
         /\ \A y \in Nodes(new) \cup {Nil} :
              /\ GoesTo(new, y) \in Nat
              /\ y # Nil /\ less(y, key) => GoesTo(sl, y) = GoesTo(new, y)
              /\ y = Nil \/ ~less(y, key) => GoesTo(sl, y) = GoesTo(new, y) + 1
         /\ GoesTo(sl, key) = Pos(Nodes(sl), key) /\ Pos(Nodes(sl), key) \in Nat
<1> DEFINE N == Nodes(new)
<1>1. Shaped(sl) /\ Shaped(new)
  BY DeletedShape DEF IsSkipList
<1>2. /\ N = Nodes(sl) \ {key} /\ All(new) = N \cup {Header}
      /\ IsKey(key) /\ IsPair(key) /\ less(Header, key)
  BY DeletedLinks
<1>3. N \cup {key} = Nodes(sl) /\ key \notin N
  BY <1>2
<1>4. IsKeys(N) /\ new.length = Cardinality(N) /\ sl.length = Cardinality(N) + 1
  <2>1. new.length = sl.length - 1
    BY DEF Deleted
  <2>2. Cardinality(Nodes(sl)) \in Nat /\ sl.length = Cardinality(Nodes(sl))
    BY <1>1, PosFacts DEF Shaped
  <2> QED
    BY <1>1, <2>1, <2>2 DEF Shaped
<1>5. \A x \in All(new) : IsPair(x) /\ x # Nil /\ x # key
  BY <1>1, <1>2, <1>3, ShapeFacts, OrderFacts
<1> HIDE DEF N
<1>6. \A x \in N \cup {Header} : /\ less(key, x) => Pos(Nodes(sl), x) = Pos(N, x) + 1
                                 /\ ~less(key, x) => Pos(Nodes(sl), x) = Pos(N, x)
  <2>1. \A x \in N \cup {Header} : /\ less(key, x) => Pos(N \cup {key}, x) = Pos(N, x) + 1
                                   /\ ~less(key, x) => Pos(N \cup {key}, x) = Pos(N, x)
    <3>1. IsKey(key) /\ key \notin N /\ IsKeys(N)
      BY <1>2, <1>3, <1>4
    <3> QED
      BY <3>1, PosOfMore, SMTT(40)
  <2> QED
    BY <1>3, <2>1
<1>7. Cardinality(N) \in Nat /\ \A x : Pos(N, x) \in Nat
  BY <1>4, PosFacts
<1>8. \A x \in All(new) : less(key, x) <=> ~less(x, key)
  BY <1>2, <1>5, OrderFacts
<1>9. \A x \in All(new) : /\ Pos(N, x) \in Nat
                          /\ less(x, key) => Pos(Nodes(sl), x) = Pos(N, x)
                          /\ ~less(x, key) => Pos(Nodes(sl), x) = Pos(N, x) + 1
  BY <1>2, <1>6, <1>7, <1>8
<1>10. ASSUME NEW y \in N \cup {Nil}
       PROVE  /\ GoesTo(new, y) \in Nat
              /\ y # Nil /\ less(y, key) => GoesTo(sl, y) = GoesTo(new, y)
              /\ y = Nil \/ ~less(y, key) => GoesTo(sl, y) = GoesTo(new, y) + 1
  <2>1. CASE y = Nil
    BY <1>4, <1>7, <2>1 DEF GoesTo
  <2>2. CASE y # Nil
    <3>1. y \in All(new)
      BY <1>2, <2>2
    <3>2. GoesTo(sl, y) = Pos(Nodes(sl), y) /\ GoesTo(new, y) = Pos(N, y)
      BY <2>2 DEF GoesTo, N
    <3> QED
      BY <1>9, <2>2, <3>1, <3>2
  <2> QED
    BY <2>1, <2>2
<1>11. GoesTo(sl, key) = Pos(Nodes(sl), key) /\ Pos(Nodes(sl), key) \in Nat
  BY <1>1, <1>2, NilFacts, PosFacts DEF GoesTo, Shaped
<1> QED
  BY <1>9, <1>10, <1>11 DEF N

LEMMA DeletedSpans ==
  ASSUME NEW sl, IsSkipList(sl), NEW key \in Nodes(sl), NEW new, Deleted(sl, new, key)
  PROVE  Measured(new)
<1> DEFINE u == At(sl, key)
           old(x) == Pos(Nodes(sl), x)
           pos(x) == Pos(Nodes(new), x)
<1>1. Shaped(sl) /\ MAX_LEVEL \in Nat /\ sl.level \in Nat /\ sl.level <= MAX_LEVEL
  BY ShapeFacts DEF IsSkipList
<1>2. /\ Nodes(new) = Nodes(sl) \ {key} /\ All(new) = Nodes(new) \cup {Header}
      /\ IsKey(key) /\ IsPair(key) /\ less(Header, key)
  BY DeletedLinks
<1>3. All(sl) = Nodes(sl) \cup {Header} /\ \A z \in All(sl) : IsPair(z) /\ z # Nil
  BY <1>1, ShapeFacts
<1>4. /\ \A x \in All(new) : /\ pos(x) \in Nat
                             /\ less(x, key) => old(x) = pos(x)
                             /\ ~less(x, key) => old(x) = pos(x) + 1
      /\ \A y \in Nodes(new) \cup {Nil} :
           /\ GoesTo(new, y) \in Nat
           /\ y # Nil /\ less(y, key) => GoesTo(sl, y) = GoesTo(new, y)
           /\ y = Nil \/ ~less(y, key) => GoesTo(sl, y) = GoesTo(new, y) + 1
      /\ GoesTo(sl, key) = old(key) /\ old(key) \in Nat
  BY DeletedPositions
<1>5. /\ \A x \in All(new) : Level(new, x) = Level(sl, x)
      /\ new.level \in 1 .. sl.level
      /\ \A x \in All(new) : \A i \in Level(sl, x) :
           /\ new.forward[x][i] = IF sl.forward[x][i] = key THEN sl.forward[key][i] ELSE sl.forward[x][i]
           /\ x # u[i] => new.span[x][i] = sl.span[x][i]
           /\ x = u[i] /\ sl.forward[x][i] = key /\ i <= sl.level =>
                new.span[x][i] = sl.span[x][i] + sl.span[key][i] - 1
           /\ x = u[i] /\ sl.forward[x][i] # key /\ i <= sl.level =>
                new.span[x][i] = sl.span[x][i] - 1
  BY DEF Deleted
<1>6. \A x \in All(sl) : \A i \in Level(sl, x) :
        i <= sl.level => sl.span[x][i] = GoesTo(sl, sl.forward[x][i]) - old(x)
  BY DEF IsSkipList, Measured
<1>7. ASSUME NEW x \in All(new), NEW i \in Level(new, x), i <= new.level
      PROVE  new.span[x][i] = GoesTo(new, new.forward[x][i]) - pos(x)
  <2> DEFINE y == sl.forward[x][i]
             z == sl.forward[key][i]
  <2>1. x \in All(sl) /\ i \in Level(sl, x) /\ key \in All(sl)
    BY <1>2, <1>3, <1>5
  <2>2. i \in 1 .. MAX_LEVEL /\ i <= sl.level
    BY <1>1, <1>5, <1>7, <2>1, ShapeFacts
  <2>3. sl.span[x][i] = GoesTo(sl, y) - old(x)
    BY <1>6, <2>1, <2>2
  <2>4. /\ y # Nil => y \in Nodes(sl) /\ i \in Level(sl, y) /\ less(x, y)
        /\ less(x, key) /\ x # u[i] => y # Nil /\ less(y, key)
        /\ x = key \/ less(key, x) => y = Nil \/ less(key, y)
    BY <1>2, <2>1, OthersFacts
  <2>5. y = key => x = u[i] /\ i \in Level(sl, key) /\ less(x, key)
    BY <2>1, PointersTo
  <2>6. x = u[i] => less(x, key) /\ (y # Nil => ~less(y, key))
    BY <1>2, <2>2, AtFacts
  <2>7. i \in Level(sl, key) =>
          /\ z # Nil => z \in Nodes(sl) /\ less(key, z)
          /\ sl.span[key][i] = GoesTo(sl, z) - old(key)
    BY <1>2, <1>6, <2>1, <2>2, OthersFacts
  <2>8. /\ new.forward[x][i] = IF y = key THEN z ELSE y
        /\ x # u[i] => new.span[x][i] = sl.span[x][i]
        /\ x = u[i] /\ y = key => new.span[x][i] = sl.span[x][i] + sl.span[key][i] - 1
        /\ x = u[i] /\ y # key => new.span[x][i] = sl.span[x][i] - 1
    BY <1>5, <2>1, <2>2
  <2>9. pos(x) \in Nat /\ (less(x, key) => old(x) = pos(x)) /\ (~less(x, key) => old(x) = pos(x) + 1)
    BY <1>4
  <2>10. \A v \in All(sl) : less(key, v) => ~less(v, key) /\ v # key
    BY <1>2, <1>3, OrderFacts
  <2>11. ~less(x, key) => less(key, x)
    BY <1>2, <1>3, <2>1, OrderFacts
  <2> HIDE DEF y, z, u, old, pos
  <2>12. CASE y = key
    <3>1. x = u[i] /\ i \in Level(sl, key) /\ less(x, key)
      BY <2>5, <2>12
    <3>2. z \in Nodes(new) \cup {Nil} /\ (z = Nil \/ ~less(z, key))
      BY <1>2, <1>3, <2>7, <2>10, <3>1
    <3>3. GoesTo(sl, z) = GoesTo(new, z) + 1 /\ GoesTo(new, z) \in Nat
      BY <1>4, <3>2
    <3>4. sl.span[x][i] = old(key) - old(x) /\ sl.span[key][i] = GoesTo(sl, z) - old(key)
      BY <1>4, <2>3, <2>7, <2>12, <3>1
    <3> QED
      BY <1>4, <2>8, <2>9, <2>12, <3>1, <3>3, <3>4
  <2>13. CASE y # key /\ x = u[i]
    <3>1. less(x, key) /\ y \in Nodes(new) \cup {Nil} /\ (y = Nil \/ ~less(y, key))
      BY <1>2, <2>4, <2>6, <2>13
    <3>2. GoesTo(sl, y) = GoesTo(new, y) + 1 /\ GoesTo(new, y) \in Nat
      BY <1>4, <3>1
    <3> QED
      BY <2>3, <2>8, <2>9, <2>13, <3>1, <3>2
  <2>14. CASE x # u[i] /\ less(x, key)
    <3>1. y # key /\ y \in Nodes(new) /\ y # Nil /\ less(y, key)
      BY <1>2, <2>4, <2>5, <2>14
    <3>2. GoesTo(sl, y) = GoesTo(new, y) /\ GoesTo(new, y) \in Nat
      BY <1>4, <3>1
    <3> QED
      BY <2>3, <2>8, <2>9, <2>14, <3>1, <3>2
  <2>15. CASE x # u[i] /\ ~less(x, key)
    <3>1. y # key /\ y \in Nodes(new) \cup {Nil} /\ (y = Nil \/ ~less(y, key))
      BY <1>2, <1>3, <2>4, <2>5, <2>10, <2>11, <2>15
    <3>2. GoesTo(sl, y) = GoesTo(new, y) + 1 /\ GoesTo(new, y) \in Nat
      BY <1>4, <3>1
    <3> QED
      BY <2>3, <2>8, <2>9, <2>15, <3>1, <3>2
  <2> QED
    BY <2>12, <2>13, <2>14, <2>15
<1> QED
  BY <1>7 DEF Measured

LEMMA DeletedEnds ==
  ASSUME NEW sl, IsSkipList(sl), NEW key \in Nodes(sl), NEW new, Deleted(sl, new, key)
  PROVE  Backwards(new) /\ Ended(new)
<1> DEFINE next == sl.forward[key][1]
           prev == sl.backward[key]
<1>1. Shaped(sl) /\ Linked(sl) /\ Backwards(sl) /\ Ended(sl)
  BY DEF IsSkipList
<1>2. /\ Nodes(new) = Nodes(sl) \ {key} /\ All(new) = Nodes(new) \cup {Header}
      /\ IsKey(key) /\ IsPair(key) /\ less(Header, key)
  BY DeletedLinks
<1>3. /\ All(sl) = Nodes(sl) \cup {Header} /\ Header \notin Nodes(sl)
      /\ \A z \in All(sl) : IsPair(z) /\ z # Nil /\ 1 \in Level(sl, z)
  BY <1>1, ShapeFacts
<1>4. /\ \A x \in All(new) : new.backward[x] = IF x = next THEN prev ELSE sl.backward[x]
      /\ new.tail = IF next = Nil THEN prev ELSE sl.tail
  BY DEF Deleted
<1>5. /\ next # Nil => next \in Nodes(sl) /\ less(key, next)
      /\ \A z \in Nodes(sl) : less(key, z) => next # Nil /\ (z = next \/ less(next, z))
  <2>1. Follows(sl, key, 1, next)
    BY <1>1, <1>3 DEF Linked
  <2> HIDE DEF next
  <2> QED
    BY <1>3, <2>1 DEF Follows
<1>6. /\ prev \in All(sl) /\ less(prev, key)
      /\ \A z \in Nodes(sl) : less(z, key) => z = prev \/ less(z, prev)
  BY <1>1 DEF Backwards, Ends
<1> HIDE DEF next, prev
<1>7. prev # key /\ prev \in All(new)
  BY <1>2, <1>3, <1>6, OrderFacts
<1>8. ASSUME NEW x \in Nodes(new)
      PROVE  /\ new.backward[x] \in All(new) /\ less(new.backward[x], x)
             /\ \A z \in Nodes(new) : less(z, x) => z = new.backward[x] \/ less(z, new.backward[x])
  <2> DEFINE b == sl.backward[x]
  <2>1. x \in Nodes(sl) /\ x # key /\ x \in All(new) /\ x # Nil
    BY <1>2, <1>3
  <2>2. b \in All(sl) /\ less(b, x) /\ \A z \in Nodes(sl) : less(z, x) => z = b \/ less(z, b)
    BY <1>1, <2>1 DEF Backwards, Ends
  <2> HIDE DEF b
  <2>3. CASE x = next
    <3>1. new.backward[x] = prev
      BY <1>4, <2>1, <2>3
    <3>2. less(key, x) /\ less(prev, x)
      BY <1>2, <1>3, <1>5, <1>6, <2>1, <2>3, OrderFacts
    <3>3. ASSUME NEW z \in Nodes(new), less(z, x)
          PROVE  z = prev \/ less(z, prev)
      <4>1. z \in Nodes(sl) /\ z # key
        BY <1>2
      <4>2. ~less(key, z)
        BY <1>3, <1>5, <2>1, <2>3, <3>3, <4>1, OrderFacts
      <4>3. less(z, key)
        BY <1>2, <1>3, <4>1, <4>2, OrderFacts
      <4> QED
        BY <1>6, <4>1, <4>3
    <3> QED
      BY <1>7, <3>1, <3>2, <3>3
  <2>4. CASE x # next
    <3>1. new.backward[x] = b
      BY <1>4, <2>1, <2>4 DEF b
    <3>2. b # key
      <4> SUFFICES ASSUME b = key PROVE FALSE
        OBVIOUS
      <4>1. less(key, x)
        BY <2>2
      <4>2. next # Nil /\ less(next, x) /\ next \in Nodes(sl) /\ less(key, next)
        BY <1>5, <2>1, <2>4, <4>1
      <4>3. next = key \/ less(next, key)
        BY <2>2, <4>2
      <4> QED
        BY <1>2, <1>3, <4>2, <4>3, OrderFacts
    <3> QED
      BY <1>2, <1>3, <2>2, <3>1, <3>2
  <2> QED
    BY <2>3, <2>4
<1>9. Backwards(new)
  <2>1. \A x \in Nodes(new) :
          Ends({z \in Nodes(new) : less(z, x)}, new.backward[x])
    BY <1>8 DEF Ends
  <2> QED
    BY <1>8, <2>1, Zenon DEF Backwards
<1>10. sl.tail \in Nodes(sl) /\ \A z \in Nodes(sl) : z = sl.tail \/ less(z, sl.tail)
  BY <1>1 DEF Ended, Ends
<1>11. CASE next = Nil
  <2>1. new.tail = prev
    BY <1>4, <1>11
  <2>2. \A z \in Nodes(new) : z = prev \/ less(z, prev)
    BY <1>2, <1>3, <1>5, <1>6, <1>11, OrderFacts
  <2>3. CASE Nodes(new) = {}
    <3>1. new.tail = Header
      BY <1>2, <1>7, <2>1, <2>3
    <3> QED
      BY <1>9, <2>3, <3>1 DEF Ended
  <2>4. CASE Nodes(new) # {}
    <3>1. prev # Header
      <4>1. PICK z \in Nodes(new) : TRUE
        BY <2>4
      <4>2. IsKey(z) /\ IsPair(z) /\ less(Header, z) /\ z # Header
        BY <1>1, <1>2, <4>1, OrderFacts DEF Shaped, IsKeys
      <4> QED
        BY <2>2, <4>2, OrderFacts
    <3>2. new.tail \in Nodes(new)
      BY <1>2, <1>7, <2>1, <3>1
    <3>3. Ends(Nodes(new), new.tail)
      BY <2>1, <2>2 DEF Ends
    <3> QED
      BY <1>9, <2>4, <3>2, <3>3, Zenon DEF Ended
  <2> QED
    BY <2>3, <2>4
<1>12. CASE next # Nil
  <2>1. new.tail = sl.tail /\ next \in Nodes(new)
    BY <1>2, <1>3, <1>4, <1>5, <1>12, OrderFacts
  <2>2. sl.tail # key
    BY <1>2, <1>3, <1>5, <1>10, <1>12, OrderFacts
  <2>3. new.tail \in Nodes(new)
    BY <1>2, <1>10, <2>1, <2>2
  <2>4. Ends(Nodes(new), new.tail)
    BY <1>2, <1>10, <2>1 DEF Ends
  <2>5. Nodes(new) # {}
    BY <2>1
  <2> QED
    BY <1>9, <2>3, <2>4, <2>5, Zenon DEF Ended
<1> QED
  BY <1>9, <1>11, <1>12

LEMMA DeleteDeletes ==
  ASSUME NEW sl, IsSkipList(sl), NEW key, IsPair(key), less(Header, key)
  PROVE  /\ key \notin Nodes(sl) => Delete(sl, key) = sl
         /\ key \in Nodes(sl) => Deleted(sl, Delete(sl, key), key)
<1> DEFINE update  == Descent(sl, {x \in Nodes(sl) : less(x, key)})
           next    == sl.forward[key][1]
           tail    == IF next = Nil THEN sl.backward[key] ELSE sl.tail
           on(x, i)       == i <= sl.level /\ x = update[i].node
           linked(x, i)   == IF on(x, i) /\ sl.forward[x][i] = key THEN sl.forward[key][i]
                             ELSE sl.forward[x][i]
           measured(x, i) == IF ~on(x, i) THEN sl.span[x][i]
                             ELSE IF sl.forward[x][i] = key THEN sl.span[x][i] + sl.span[key][i] - 1
                             ELSE sl.span[x][i] - 1
           left     == DOMAIN sl.forward \ {key}
           forward  == [x \in left |-> [i \in DOMAIN sl.forward[x] |-> linked(x, i)]]
           span     == [x \in left |-> [i \in DOMAIN sl.span[x] |-> measured(x, i)]]
           backward == [x \in left |-> IF x = next THEN sl.backward[key] ELSE sl.backward[x]]
           used     == {1} \cup {i \in 1 .. sl.level : forward[Header][i] # Nil}
           top      == CHOOSE i \in used : \A j \in used : j <= i
           new      == Delete(sl, key)
           u        == At(sl, key)
<1>1. new = IF sl.forward[update[1].node][1] # key THEN sl
            ELSE [forward |-> forward, span |-> span, backward |-> backward,
                  tail    |-> tail, level |-> top, length |-> sl.length - 1]
  BY DEF Delete, DeleteEnding
<1>2. Shaped(sl) /\ MAX_LEVEL \in Nat /\ sl.level \in Nat /\ sl.level > 0 /\ sl.level <= MAX_LEVEL
  BY ShapeFacts DEF IsSkipList
<1>3. \A i \in 1 .. MAX_LEVEL : update[i].node = u[i]
  BY AtFacts DEF Before
<1>4. 1 \in 1 .. MAX_LEVEL
  BY LevelAssumption
<1>5. sl.forward[update[1].node][1] = key <=> key \in Nodes(sl)
  BY <1>3, <1>4, FoundFacts
<1> HIDE DEF new, update, u
<1>6. CASE key \notin Nodes(sl)
  BY <1>1, <1>5, <1>6 DEF new
<1>7. CASE key \in Nodes(sl)
  <2>1. /\ new.forward = forward /\ new.span = span /\ new.backward = backward
        /\ new.tail = tail /\ new.level = top /\ new.length = sl.length - 1
    <3> HIDE DEF forward, span, backward, top, tail
    <3> QED
      BY <1>1, <1>5, <1>7
  <2>2. /\ All(sl) = Nodes(sl) \cup {Header} /\ key # Header
        /\ \A x \in All(sl) : Level(sl, x) \subseteq 1 .. MAX_LEVEL /\ DOMAIN sl.span[x] = Level(sl, x)
        /\ Level(sl, key) \subseteq 1 .. sl.level
    BY <1>2, <1>7, ShapeFacts DEF Shaped
  <2>3. left = All(sl) \ {key}
    BY DEF All
  <2>4. /\ All(new) = All(sl) \ {key}
        /\ \A x \in All(new) : Level(new, x) = Level(sl, x)
    <3> HIDE DEF on, linked, measured, left, span, backward, top, tail
    <3> QED
      BY <2>1, <2>3 DEF All, Level
  <2>5. DOMAIN new.span = All(new) /\ \A x \in All(new) : DOMAIN new.span[x] = Level(new, x)
    <3> HIDE DEF on, linked, measured, left, forward, backward, top, tail
    <3> QED
      BY <2>1, <2>2, <2>3, <2>4
  <2>6. ASSUME NEW x \in All(new), NEW i \in Level(sl, x)
        PROVE  /\ new.forward[x][i] = IF sl.forward[x][i] = key THEN sl.forward[key][i] ELSE sl.forward[x][i]
               /\ x # u[i] => new.span[x][i] = sl.span[x][i]
               /\ x = u[i] /\ sl.forward[x][i] = key /\ i <= sl.level =>
                    new.span[x][i] = sl.span[x][i] + sl.span[key][i] - 1
               /\ x = u[i] /\ sl.forward[x][i] # key /\ i <= sl.level =>
                    new.span[x][i] = sl.span[x][i] - 1
    <3>1. x \in All(sl) /\ i \in 1 .. MAX_LEVEL /\ x \in left
      BY <2>2, <2>3, <2>4
    <3>2. new.forward[x][i] = linked(x, i) /\ new.span[x][i] = measured(x, i)
      <4>1. i \in DOMAIN sl.forward[x] /\ i \in DOMAIN sl.span[x]
        BY <2>2, <3>1 DEF Level
      <4> HIDE DEF linked, measured, left
      <4> QED
        BY <2>1, <3>1, <4>1
    <3>3. update[i].node = u[i]
      BY <1>3, <3>1
    <3>4. sl.forward[x][i] = key => x = u[i] /\ i <= sl.level
      <4>1. sl.forward[x][i] = key => x = u[i] /\ i \in Level(sl, key)
        BY <1>7, <3>1, PointersTo DEF u
      <4> QED
        BY <1>2, <2>2, <4>1
    <3>5. linked(x, i) = IF sl.forward[x][i] = key THEN sl.forward[key][i] ELSE sl.forward[x][i]
      BY <3>3, <3>4
    <3>6. /\ x # u[i] => measured(x, i) = sl.span[x][i]
          /\ x = u[i] /\ sl.forward[x][i] = key /\ i <= sl.level =>
               measured(x, i) = sl.span[x][i] + sl.span[key][i] - 1
          /\ x = u[i] /\ sl.forward[x][i] # key /\ i <= sl.level =>
               measured(x, i) = sl.span[x][i] - 1
      BY <3>3
    <3> HIDE DEF linked, measured
    <3> QED
      BY <3>2, <3>5, <3>6
  <2>7. new.level \in 1 .. sl.level
        /\ \A i \in 1 .. sl.level : new.forward[Header][i] # Nil => i <= new.level
    <3> DEFINE T == {k \in Nat : \E i \in used : k = sl.level - i}
    <3>1. used \subseteq 1 .. sl.level /\ 1 \in used
      BY <1>2
    <3> HIDE DEF used
    <3>2. \A i \in used : sl.level - i \in T
      BY <1>2, <3>1
    <3>3. PICK k \in T : \A l \in T : k <= l
      BY <3>1, <3>2, Least
    <3>4. PICK i \in used : k = sl.level - i
      BY <3>3
    <3>5. \A j \in used : j <= i
      BY <1>2, <3>1, <3>2, <3>3, <3>4
    <3>6. top \in used /\ \A j \in used : j <= top
      BY <3>5
    <3> HIDE DEF top, forward
    <3>7. \A j \in 1 .. sl.level : new.forward[Header][j] # Nil => j \in used
      BY <2>1 DEF used
    <3> QED
      BY <2>1, <3>1, <3>6, <3>7
  <2>8. \A x \in All(new) : new.backward[x] = IF x = next THEN sl.backward[key] ELSE sl.backward[x]
    <3> HIDE DEF next
    <3> QED
      BY <2>1, <2>3, <2>4
  <2>9. new.tail = (IF next = Nil THEN sl.backward[key] ELSE sl.tail) /\ new.length = sl.length - 1
    BY <2>1
  <2>10. Deleted(sl, new, key)
    BY <2>4, <2>5, <2>6, <2>7, <2>8, <2>9, Zenon DEF Deleted, u
  <2> QED
    BY <1>7, <2>10 DEF new
<1> QED
  BY <1>6, <1>7

(* Delete keeps a skip list one, without the key.                          *)
LEMMA DeleteFacts ==
  ASSUME NEW sl, IsSkipList(sl), NEW key, IsPair(key), less(Header, key)
  PROVE  /\ IsSkipList(Delete(sl, key))
         /\ Nodes(Delete(sl, key)) = Nodes(sl) \ {key}
<1>1. CASE key \notin Nodes(sl)
  BY <1>1, DeleteDeletes
<1>2. CASE key \in Nodes(sl)
  <2> DEFINE new == Delete(sl, key)
  <2>1. Deleted(sl, new, key)
    BY <1>2, DeleteDeletes
  <2> HIDE DEF new
  <2>2. Linked(new) /\ Nodes(new) = Nodes(sl) \ {key}
    BY <1>2, <2>1, DeletedLinks
  <2>3. Shaped(new)
    BY <1>2, <2>1, DeletedShape
  <2>4. Measured(new)
    BY <1>2, <2>1, DeletedSpans
  <2>5. Backwards(new) /\ Ended(new)
    BY <1>2, <2>1, DeletedEnds
  <2> QED
    BY <2>2, <2>3, <2>4, <2>5 DEF IsSkipList, new
<1> QED
  BY <1>1, <1>2

LEMMA NewFacts == IsSkipList(NewSkipList) /\ Nodes(NewSkipList) = {}
<1> DEFINE sl == NewSkipList
<1>1. Nodes(sl) = {} /\ All(sl) = {Header} /\ Level(sl, Header) = 1 .. MAX_LEVEL
  BY DEF NewSkipList, Nodes, All, Level
<1>2. /\ DOMAIN sl.span = {Header} /\ DOMAIN sl.span[Header] = 1 .. MAX_LEVEL
      /\ \A i \in 1 .. MAX_LEVEL : sl.forward[Header][i] = Nil /\ sl.span[Header][i] = 0
      /\ sl.tail = Nil /\ sl.level = 1 /\ sl.length = 0
  BY DEF NewSkipList
<1>3. IsFiniteSet({}) /\ Cardinality({}) = 0
  BY FS_EmptySet
<1>4. 1 \in 1 .. MAX_LEVEL
  BY LevelAssumption
<1> HIDE DEF sl
<1>5. IsKeys(Nodes(sl))
  BY <1>1, <1>3 DEF IsKeys
<1>6. Shaped(sl)
  BY <1>1, <1>2, <1>3, <1>4, <1>5 DEF Shaped
<1>7. Linked(sl)
  BY <1>1, <1>2 DEF Linked, Follows
<1>8. Measured(sl)
  <2>1. Pos(Nodes(sl), Header) = 0
    BY <1>5, PosFacts
  <2> QED
    BY <1>1, <1>2, <2>1 DEF Measured, GoesTo
<1>9. Backwards(sl) /\ Ended(sl)
  BY <1>1, <1>2 DEF Backwards, Ended
<1> QED
  BY <1>1, <1>6, <1>7, <1>8, <1>9 DEF IsSkipList, sl

----------------------------------------------------------------------------
(* The key at a position.                                                  *)
Nth(N, k) == CHOOSE x \in N : Pos(N, x) = k

LEMMA NthFacts ==
  ASSUME NEW N, IsKeys(N)
  PROVE  /\ \A x, y \in N : Pos(N, x) = Pos(N, y) => x = y
         /\ \A x, y \in N : less(x, y) <=> Pos(N, x) < Pos(N, y)
         /\ \A k \in 1 .. Cardinality(N) : Nth(N, k) \in N /\ Pos(N, Nth(N, k)) = k
         /\ \A x \in N : /\ Pos(N, x) \in 1 .. Cardinality(N)
                         /\ Nth(N, Pos(N, x)) = x
<1> DEFINE c == Cardinality(N)
           pos(x) == Pos(N, x)
<1>1. /\ c \in Nat /\ \A x : pos(x) \in Nat /\ pos(x) <= c
      /\ \A x, y \in N : less(x, y) => pos(x) < pos(y)
      /\ \A x \in N : pos(x) > 0 /\ IsPair(x)
      /\ \A x : (\A y \in N : y = x \/ less(y, x)) => pos(x) = c
  BY PosFacts DEF IsKeys, IsKey
<1>2. \A x, y \in N : x = y \/ less(x, y) \/ less(y, x)
  BY <1>1, OrderFacts
<1> HIDE DEF c, pos
<1>3. \A x, y \in N : pos(x) = pos(y) => x = y
  BY <1>1, <1>2
<1>4. \A x, y \in N : less(x, y) <=> pos(x) < pos(y)
  <2>1. ASSUME NEW x \in N, NEW y \in N, pos(x) < pos(y) PROVE less(x, y)
    <3>1. pos(x) # pos(y) /\ ~(pos(y) < pos(x))
      BY <1>1, <2>1
    <3> QED
      BY <1>1, <1>2, <3>1
  <2> QED
    BY <1>1, <2>1
<1>5. ASSUME NEW k \in 1 .. c
      PROVE  \E x \in N : pos(x) = k
  <2> DEFINE T == {l \in Nat : l >= k /\ \E x \in N : pos(x) = l}
  <2>1. T # {}
    <3>1. N # {}
      <4>1. Cardinality({}) = 0
        BY FS_EmptySet
      <4> QED
        BY <1>1, <1>5, <4>1 DEF c
    <3>2. PICK x \in N : \A y \in N : y = x \/ less(y, x)
      BY <3>1, Greatest
    <3>3. pos(x) = c
      BY <1>1, <3>2
    <3> QED
      BY <1>1, <3>3
  <2>2. PICK l \in T : \A j \in T : l <= j
    BY <2>1, Least
  <2>3. PICK x \in N : pos(x) = l
    BY <2>2
  <2>4. ASSUME l # k PROVE FALSE
    <3> DEFINE below == UpTo(N, x) \ {x}
    <3>1. x \in UpTo(N, x) /\ IsFiniteSet(UpTo(N, x)) /\ below \in SUBSET N
      BY FS_Subset DEF UpTo, IsKeys
    <3>2. Cardinality(below) = pos(x) - 1 /\ IsFiniteSet(below)
      BY <3>1, FS_RemoveElement DEF pos, Pos
    <3>3. below # {}
      <4>1. Cardinality({}) = 0
        BY FS_EmptySet
      <4>2. k \in Nat /\ l \in Nat /\ k >= 1 /\ l > k
        BY <1>1, <2>2, <2>4
      <4>3. pos(x) - 1 # 0
        BY <2>3, <4>2
      <4> HIDE DEF below
      <4> QED
        BY <3>2, <4>1, <4>3
    <3>4. PICK y \in below : \A z \in below : z = y \/ less(z, y)
      BY <3>1, <3>3, Greatest
    <3>5. y \in N /\ less(y, x) /\ IsPair(x) /\ IsPair(y)
      BY <1>1, <3>4 DEF UpTo
    <3>6. UpTo(N, y) = below
      <4>1. \A z \in N : IsPair(z)
        BY <1>1
      <4>2. \A z \in below : z \in UpTo(N, y)
        BY <3>1, <3>4 DEF UpTo
      <4>3. \A z \in UpTo(N, y) : z \in below
        BY <3>5, <4>1, OrderFacts DEF UpTo
      <4> QED
        BY <4>2, <4>3
    <3>7. pos(y) = l - 1
      BY <2>3, <3>2, <3>6 DEF pos, Pos
    <3>8. l - 1 \in T
      BY <1>1, <2>2, <2>4, <3>5, <3>7
    <3> QED
      BY <1>1, <2>2, <3>8
  <2> QED
    BY <2>3, <2>4
<1>6. \A k \in 1 .. c : Nth(N, k) \in N /\ pos(Nth(N, k)) = k
  BY <1>5 DEF Nth, pos
<1>7. \A x \in N : pos(x) \in 1 .. c
  BY <1>1
<1>8. \A x \in N : Nth(N, pos(x)) = x
  BY <1>3, <1>6, <1>7
<1> QED
  BY <1>3, <1>4, <1>6, <1>7, <1>8 DEF c, pos

(* On the lowest level, the pointer is to the next position.               *)
LEMMA NextFacts ==
  ASSUME NEW sl, IsSkipList(sl), NEW x \in All(sl)
  PROVE  LET N == Nodes(sl)
             y == sl.forward[x][1]
         IN  /\ Pos(N, x) = Cardinality(N) => y = Nil
             /\ Pos(N, x) # Cardinality(N) => /\ Pos(N, x) + 1 \in 1 .. Cardinality(N)
                                              /\ y = Nth(N, Pos(N, x) + 1) /\ y \in N /\ y # Nil
<1> DEFINE N == Nodes(sl)
           y == sl.forward[x][1]
<1>1. Shaped(sl) /\ Linked(sl) /\ IsKeys(N)
  BY DEF IsSkipList, Shaped
<1>2. All(sl) = N \cup {Header} /\ \A z \in All(sl) : IsPair(z) /\ z # Nil /\ 1 \in Level(sl, z)
  BY <1>1, ShapeFacts
<1>3. Follows(sl, x, 1, y)
  BY <1>1, <1>2 DEF Linked
<1> HIDE DEF y
<1>4. /\ y # Nil => y \in N /\ less(x, y)
      /\ \A z \in N : less(x, z) => y # Nil /\ (z = y \/ less(y, z))
  BY <1>2, <1>3 DEF Follows
<1>5. /\ Cardinality(N) \in Nat /\ \A z : Pos(N, z) \in Nat /\ Pos(N, z) <= Cardinality(N)
      /\ \A z \in N : less(x, z) => Pos(N, x) < Pos(N, z)
      /\ (\A z \in N : z = x \/ less(z, x)) => Pos(N, x) = Cardinality(N)
  BY <1>1, <1>2, PosFacts
<1>6. CASE Pos(N, x) = Cardinality(N)
  <2>1. ASSUME y # Nil PROVE FALSE
    <3>1. Pos(N, x) < Pos(N, y) /\ Pos(N, y) <= Cardinality(N)
      BY <1>4, <1>5, <2>1
    <3> HIDE DEF N
    <3> QED
      BY <1>5, <1>6, <3>1
  <2> QED
    BY <1>6, <2>1 DEF y
<1>7. CASE Pos(N, x) # Cardinality(N)
  <2> DEFINE z == Nth(N, Pos(N, x) + 1)
  <2>1. Pos(N, x) + 1 \in 1 .. Cardinality(N)
    BY <1>5, <1>7
  <2>2. z \in N /\ Pos(N, z) = Pos(N, x) + 1
    BY <1>1, <2>1, NthFacts
  <2> HIDE DEF z, N
  <2>3. less(x, z)
    <3>1. z # x
      BY <1>5, <2>2
    <3>2. ~less(z, x)
      <4>1. CASE x \in N
        BY <1>1, <1>5, <2>2, <4>1, NthFacts
      <4>2. CASE x = Header
        BY <1>1, <1>2, <2>2, <4>2, OrderFacts DEF IsKeys
      <4> QED
        BY <1>2, <4>1, <4>2
    <3> QED
      BY <1>2, <2>2, <3>1, <3>2, OrderFacts
  <2>4. y # Nil /\ y \in N /\ less(x, y) /\ (z = y \/ less(y, z))
    BY <1>4, <2>2, <2>3
  <2>5. ~less(y, z)
    <3>1. Pos(N, x) < Pos(N, y)
      BY <1>5, <2>4
    <3>2. less(y, z) => Pos(N, y) < Pos(N, z)
      BY <1>1, <2>2, <2>4, NthFacts
    <3> QED
      BY <1>5, <2>2, <3>1, <3>2
  <2> QED
    BY <1>7, <2>1, <2>4, <2>5 DEF y, z, N
<1> QED
  BY <1>6, <1>7

LEMMA BackFacts ==
  ASSUME NEW sl, IsSkipList(sl), NEW x \in Nodes(sl)
  PROVE  LET N == Nodes(sl)
         IN  /\ Pos(N, x) = 1 => sl.backward[x] = Header
             /\ Pos(N, x) # 1 => /\ Pos(N, x) - 1 \in 1 .. Cardinality(N)
                                 /\ sl.backward[x] = Nth(N, Pos(N, x) - 1)
                                 /\ sl.backward[x] \in N
<1> DEFINE N == Nodes(sl)
           b == sl.backward[x]
<1>1. Shaped(sl) /\ Backwards(sl) /\ IsKeys(N) /\ All(sl) = N \cup {Header}
  BY ShapeFacts DEF IsSkipList, Shaped
<1>2. /\ b \in N \cup {Header} /\ less(b, x)
      /\ \A z \in N : less(z, x) => z = b \/ less(z, b)
  BY <1>1 DEF Backwards, Ends
<1> HIDE DEF b
<1>3. /\ \A z, y \in N : less(z, y) <=> Pos(N, z) < Pos(N, y)
      /\ \A k \in 1 .. Cardinality(N) : Nth(N, k) \in N /\ Pos(N, Nth(N, k)) = k
      /\ \A z \in N : Pos(N, z) \in 1 .. Cardinality(N) /\ Nth(N, Pos(N, z)) = z
      /\ Cardinality(N) \in Nat
  BY <1>1, NthFacts, PosFacts
<1>4. ASSUME Pos(N, x) = 1 PROVE b = Header
  BY <1>2, <1>3, <1>4
<1>5. ASSUME Pos(N, x) # 1
      PROVE  Pos(N, x) - 1 \in 1 .. Cardinality(N) /\ b = Nth(N, Pos(N, x) - 1) /\ b \in N
  <2> DEFINE z == Nth(N, Pos(N, x) - 1)
  <2>1. Pos(N, x) - 1 \in 1 .. Cardinality(N)
    BY <1>3, <1>5
  <2>2. z \in N /\ Pos(N, z) = Pos(N, x) - 1
    BY <1>3, <2>1
  <2> HIDE DEF z, N
  <2>3. less(z, x)
    BY <1>3, <2>1, <2>2 DEF N
  <2>4. z = b \/ less(z, b)
    BY <1>2, <2>2, <2>3
  <2>5. ~less(z, b)
    <3>1. CASE b \in N
      BY <1>2, <1>3, <2>1, <2>2, <3>1 DEF N
    <3>2. CASE b = Header
      <4>1. IsPair(z) /\ less(Header, z) /\ IsPair(Header)
        BY <1>1, <2>2, OrderFacts DEF IsKeys
      <4> QED
        BY <3>2, <4>1, OrderFacts
    <3> QED
      BY <1>2, <3>1, <3>2
  <2> QED
    BY <2>1, <2>2, <2>4, <2>5 DEF z
<1> QED
  BY <1>4, <1>5 DEF b

(* The keys of a first part are those of the first positions.              *)
LEMMA PartFacts ==
  ASSUME NEW N, IsKeys(N), NEW B \in SUBSET N, \A x \in B, y \in N : less(y, x) => y \in B
  PROVE  /\ Cardinality(B) \in 0 .. Cardinality(N) /\ Cardinality(N) \in Nat /\ IsFiniteSet(B)
         /\ \A x \in N : x \in B <=> Pos(N, x) <= Cardinality(B)
<1>1. IsFiniteSet(N) /\ IsFiniteSet(B) /\ Cardinality(B) <= Cardinality(N)
  BY FS_Subset DEF IsKeys
<1>2. Cardinality(B) \in Nat /\ Cardinality(N) \in Nat
  BY <1>1, FS_CardinalityType
<1>3. \A x \in N : IsPair(x)
  BY OrderFacts DEF IsKeys
<1>4. ASSUME NEW x \in B PROVE Pos(N, x) <= Cardinality(B)
  <2>1. UpTo(N, x) \in SUBSET B
    BY DEF UpTo
  <2> QED
    BY <1>1, <2>1, FS_Subset DEF Pos
<1>5. ASSUME NEW x \in N, x \notin B PROVE ~(Pos(N, x) <= Cardinality(B))
  <2>1. \A y \in B : less(y, x)
    BY <1>3, <1>5, OrderFacts
  <2>2. B \cup {x} \in SUBSET UpTo(N, x)
    BY <2>1 DEF UpTo
  <2>3. Cardinality(B \cup {x}) = Cardinality(B) + 1
    BY <1>1, <1>5, FS_AddElement
  <2>4. IsFiniteSet(UpTo(N, x))
    BY <1>1, FS_Subset DEF UpTo
  <2>5. Cardinality(B) + 1 <= Pos(N, x) /\ Pos(N, x) \in Nat
    BY <2>2, <2>3, <2>4, FS_Subset, FS_CardinalityType DEF Pos
  <2> QED
    BY <1>2, <2>5
<1> QED
  BY <1>1, <1>2, <1>4, <1>5

----------------------------------------------------------------------------
(* Keys of successive positions, upwards and downwards.                    *)
Window(N, a, len) == [j \in 1 .. len |-> Nth(N, a + j)]

Down(N, b, len) == [j \in 1 .. len |-> Nth(N, b + 1 - j)]

LEMMA WindowFacts ==
  ASSUME NEW N, IsKeys(N), NEW a \in Nat, NEW len \in Nat, a + len <= Cardinality(N)
  PROVE  /\ Window(N, a, len) \in Seq(N) /\ Len(Window(N, a, len)) = len
         /\ \A j \in 1 .. len : Window(N, a, len)[j] = Nth(N, a + j) /\ Nth(N, a + j) \in N
                                /\ Pos(N, Nth(N, a + j)) = a + j
<1>1. Cardinality(N) \in Nat
  BY PosFacts
<1>2. \A j \in 1 .. len : a + j \in 1 .. Cardinality(N)
  BY <1>1
<1>3. \A j \in 1 .. len : Nth(N, a + j) \in N /\ Pos(N, Nth(N, a + j)) = a + j
  BY <1>2, NthFacts
<1> QED
  BY <1>3 DEF Window

LEMMA DownFacts ==
  ASSUME NEW N, IsKeys(N), NEW b \in Nat, NEW len \in Nat, len <= b, b <= Cardinality(N)
  PROVE  /\ Down(N, b, len) \in Seq(N) /\ Len(Down(N, b, len)) = len
         /\ \A j \in 1 .. len : Down(N, b, len)[j] = Nth(N, b + 1 - j) /\ Nth(N, b + 1 - j) \in N
<1>1. Cardinality(N) \in Nat
  BY PosFacts
<1>2. \A j \in 1 .. len : b + 1 - j \in 1 .. Cardinality(N)
  BY <1>1
<1>3. \A j \in 1 .. len : Nth(N, b + 1 - j) \in N
  BY <1>2, NthFacts
<1> QED
  BY <1>3 DEF Down

LEMMA ConsFacts ==
  ASSUME NEW N, NEW x \in N, NEW s \in Seq(N)
  PROVE  /\ <<x>> \o s \in Seq(N) /\ Len(<<x>> \o s) = Len(s) + 1
         /\ \A j \in 1 .. Len(s) + 1 : (<<x>> \o s)[j] = IF j = 1 THEN x ELSE s[j - 1]
<1>1. <<x>> \in Seq(N) /\ Len(<<x>>) = 1 /\ <<x>>[1] = x /\ Len(s) \in Nat
  OBVIOUS
<1>2. /\ <<x>> \o s \in Seq(N) /\ Len(<<x>> \o s) = 1 + Len(s)
      /\ \A j \in 1 .. 1 + Len(s) : (<<x>> \o s)[j] = IF j <= 1 THEN <<x>>[j] ELSE s[j - 1]
  <2>1. \A t \in Seq(N) : /\ t \o s \in Seq(N) /\ Len(t \o s) = Len(t) + Len(s)
                          /\ \A j \in 1 .. Len(t) + Len(s) :
                               (t \o s)[j] = IF j <= Len(t) THEN t[j] ELSE s[j - Len(t)]
    BY ConcatProperties
  <2> QED
    BY <1>1, <2>1
<1> QED
  BY <1>1, <1>2

LEMMA ConsWindow ==
  ASSUME NEW N, IsKeys(N), NEW a \in Nat, NEW len \in Nat, a + 1 + len <= Cardinality(N)
  PROVE  <<Nth(N, a + 1)>> \o Window(N, a + 1, len) = Window(N, a, len + 1)
<1> DEFINE x == Nth(N, a + 1)
           s == Window(N, a + 1, len)
           t == Window(N, a, len + 1)
           u == <<x>> \o s
<1>1. s \in Seq(N) /\ Len(s) = len /\ \A j \in 1 .. len : s[j] = Nth(N, a + 1 + j)
  BY WindowFacts
<1>2. /\ t \in Seq(N) /\ Len(t) = len + 1
      /\ \A j \in 1 .. len + 1 : t[j] = Nth(N, a + j) /\ Nth(N, a + j) \in N
  BY WindowFacts
<1>3. x \in N
  BY <1>2
<1>4. /\ u \in Seq(N) /\ Len(u) = len + 1
      /\ \A j \in 1 .. len + 1 : u[j] = IF j = 1 THEN x ELSE s[j - 1]
  BY <1>1, <1>3, ConsFacts
<1>5. ASSUME NEW j \in 1 .. len + 1 PROVE u[j] = t[j]
  <2>1. CASE j = 1
    BY <1>2, <1>4, <2>1
  <2>2. CASE j # 1
    <3>1. j - 1 \in 1 .. len /\ a + 1 + (j - 1) = a + j
      BY <2>2
    <3> QED
      BY <1>1, <1>2, <1>4, <2>2, <3>1
  <2> QED
    BY <2>1, <2>2
<1> HIDE DEF u, t
<1>6. u = t
  BY <1>2, <1>4, <1>5, SeqEqual
<1> QED
  BY <1>6 DEF u, t

LEMMA ConsDown ==
  ASSUME NEW N, IsKeys(N), NEW b \in Nat, NEW len \in Nat, len <= b, b + 1 <= Cardinality(N)
  PROVE  <<Nth(N, b + 1)>> \o Down(N, b, len) = Down(N, b + 1, len + 1)
<1> DEFINE x == Nth(N, b + 1)
           s == Down(N, b, len)
           t == Down(N, b + 1, len + 1)
           u == <<x>> \o s
<1>1. Cardinality(N) \in Nat /\ b <= Cardinality(N) /\ b + 1 \in Nat /\ len + 1 \in Nat
      /\ len + 1 <= b + 1
  BY PosFacts
<1>2. s \in Seq(N) /\ Len(s) = len /\ \A j \in 1 .. len : s[j] = Nth(N, b + 1 - j)
  BY <1>1, DownFacts
<1>3. /\ t \in Seq(N) /\ Len(t) = len + 1
      /\ \A j \in 1 .. len + 1 : t[j] = Nth(N, b + 1 + 1 - j)
  BY <1>1, DownFacts
<1>4. x \in N
  BY <1>1, NthFacts
<1>5. /\ u \in Seq(N) /\ Len(u) = len + 1
      /\ \A j \in 1 .. len + 1 : u[j] = IF j = 1 THEN x ELSE s[j - 1]
  BY <1>2, <1>4, ConsFacts
<1>6. ASSUME NEW j \in 1 .. len + 1 PROVE u[j] = t[j]
  <2>1. CASE j = 1
    <3>1. b + 1 + 1 - j = b + 1
      BY <2>1
    <3> QED
      BY <1>3, <1>5, <2>1, <3>1
  <2>2. CASE j # 1
    <3>1. j - 1 \in 1 .. len /\ b + 1 - (j - 1) = b + 1 + 1 - j
      BY <2>2
    <3> QED
      BY <1>2, <1>3, <1>5, <2>2, <3>1
  <2> QED
    BY <2>1, <2>2
<1> HIDE DEF u, t
<1>7. u = t
  BY <1>3, <1>5, <1>6, SeqEqual
<1> QED
  BY <1>7 DEF u, t

LEMMA EmptyFacts ==
  ASSUME NEW N, IsKeys(N), NEW a \in Nat, a <= Cardinality(N)
  PROVE  Window(N, a, 0) = <<>> /\ Down(N, a, 0) = <<>>
<1>1. Window(N, a, 0) \in Seq(N) /\ Len(Window(N, a, 0)) = 0
  <2>1. Cardinality(N) \in Nat
    BY PosFacts
  <2>2. 0 \in Nat /\ a + 0 <= Cardinality(N)
    BY <2>1
  <2> QED
    BY <2>2, WindowFacts
<1>2. Down(N, a, 0) \in Seq(N) /\ Len(Down(N, a, 0)) = 0
  <2>1. 0 \in Nat /\ 0 <= a
    OBVIOUS
  <2> QED
    BY <2>1, DownFacts
<1>3. \A s \in Seq(N) : Len(s) = 0 => s = <<>>
  BY EmptySeq
<1> QED
  BY <1>1, <1>2, <1>3

Runs(sl, f) ==
  f = [y \in Nodes(sl) \cup {Nil} |-> IF y = Nil THEN <<>> ELSE <<y>> \o f[sl.forward[y][1]]]

(* The node of the position after p, or nothing.                           *)
After(N, p) == IF p = Cardinality(N) THEN Nil ELSE Nth(N, p + 1)

(* From a node on, the nodes are those of the positions from its own.      *)
LEMMA FromFacts ==
  ASSUME NEW sl, IsSkipList(sl), NEW p \in 0 .. Cardinality(Nodes(sl))
  PROVE  From(sl, After(Nodes(sl), p)) = Window(Nodes(sl), p, Cardinality(Nodes(sl)) - p)
<1> DEFINE N == Nodes(sl)
           c == Cardinality(Nodes(sl))
           pos(x) == Pos(Nodes(sl), x)
           next(y) == sl.forward[y][1]
           rest(q) == Window(N, q, c - q)
           F == [y \in N \cup {Nil} |-> IF y = Nil THEN <<>> ELSE rest(pos(y) - 1)]
<1>1. Shaped(sl) /\ IsKeys(N) /\ c \in Nat
  BY PosFacts DEF IsSkipList, Shaped
<1>2. /\ \A x \in N : x # Nil /\ pos(x) \in 1 .. c /\ Nth(N, pos(x)) = x
      /\ \A q \in 1 .. c : Nth(N, q) \in N /\ pos(Nth(N, q)) = q
  BY <1>1, NthFacts, ShapeFacts
<1>3. \A y \in N : /\ pos(y) = c => next(y) = Nil
                   /\ pos(y) # c => next(y) \in N /\ next(y) = Nth(N, pos(y) + 1) /\ pos(y) + 1 \in 1 .. c
  BY <1>1, ShapeFacts, NextFacts
<1>4. rest(c) = <<>>
  <2>1. c - c = 0
    BY <1>1
  <2> QED
    BY <1>1, <2>1, EmptyFacts
<1>5. ASSUME NEW y \in N
      PROVE  <<y>> \o rest(pos(y)) = rest(pos(y) - 1)
  <2> DEFINE a == pos(y) - 1
             len == c - pos(y)
  <2>1. a \in Nat /\ len \in Nat /\ a + 1 + len <= c /\ a + 1 = pos(y) /\ len + 1 = c - (pos(y) - 1)
    BY <1>1, <1>2
  <2> HIDE DEF a, len, pos, c
  <2>2. <<Nth(N, a + 1)>> \o Window(N, a + 1, len) = Window(N, a, len + 1)
    BY <1>1, <2>1, ConsWindow DEF c
  <2> QED
    BY <1>2, <2>1, <2>2 DEF a, len
<1> HIDE DEF N, c, pos, next, rest
<1>6. ASSUME NEW y \in N
      PROVE  /\ next(y) \in N \cup {Nil}
             /\ F[next(y)] = rest(pos(y))
             /\ next(y) # Nil => pos(next(y)) = pos(y) + 1
  <2>1. CASE pos(y) = c
    BY <1>3, <1>4, <2>1
  <2>2. CASE pos(y) # c
    <3>1. next(y) \in N /\ next(y) # Nil /\ pos(next(y)) = pos(y) + 1
      BY <1>2, <1>3, <2>2
    <3>2. pos(next(y)) - 1 = pos(y)
      BY <1>1, <1>2, <3>1
    <3>3. F[next(y)] = rest(pos(next(y)) - 1)
      BY <3>1
    <3> HIDE DEF F
    <3> QED
      BY <3>1, <3>2, <3>3
  <2> QED
    BY <2>1, <2>2
<1>7. F = [y \in N \cup {Nil} |-> IF y = Nil THEN <<>> ELSE <<y>> \o F[next(y)]]
  <2>1. ASSUME NEW y \in N \cup {Nil}
        PROVE  F[y] = IF y = Nil THEN <<>> ELSE <<y>> \o F[next(y)]
    <3>1. y \in N => <<y>> \o F[next(y)] = rest(pos(y) - 1)
      BY <1>5, <1>6
    <3> QED
      BY <1>2, <3>1
  <2>2. F = [y \in N \cup {Nil} |-> F[y]]
    OBVIOUS
  <2> HIDE DEF F
  <2> QED
    BY <2>1, <2>2
<1>8. \A y \in N : F[y] = rest(pos(y) - 1)
  BY <1>2
<1>9. F[Nil] = <<>>
  OBVIOUS
<1> HIDE DEF F
<1> DEFINE on == CHOOSE f : Runs(sl, f)
<1>10. Runs(sl, on)
  <2>1. Runs(sl, F)
    BY <1>7 DEF Runs, N, next
  <2> QED
    BY <2>1
<1>11. From(sl, After(Nodes(sl), p)) = on[After(Nodes(sl), p)]
  BY DEF From, Runs
<1> HIDE DEF on
<1>12. on = [y \in N \cup {Nil} |-> IF y = Nil THEN <<>> ELSE <<y>> \o on[next(y)]]
  BY <1>10 DEF Runs, N, next
<1> DEFINE T == {k \in Nat : \E y \in N : on[y] # F[y] /\ k = c - pos(y)}
<1>13. T = {}
  <2> SUFFICES ASSUME T # {} PROVE FALSE
    OBVIOUS
  <2>1. PICK k \in T : \A l \in T : k <= l
    BY Least
  <2>2. PICK y \in N : on[y] # F[y] /\ k = c - pos(y)
    BY <2>1
  <2>3. on[next(y)] # F[next(y)]
    <3>1. on[y] = <<y>> \o on[next(y)] /\ F[y] = <<y>> \o F[next(y)]
      BY <1>2, <1>7, <1>12
    <3> QED
      BY <2>2, <3>1
  <2>4. next(y) \in N /\ next(y) # Nil
    <3>1. on[Nil] = F[Nil]
      BY <1>9, <1>12
    <3> QED
      BY <1>6, <2>3, <3>1
  <2>5. pos(next(y)) = pos(y) + 1 /\ pos(next(y)) \in 1 .. c /\ pos(y) \in 1 .. c
    BY <1>2, <1>6, <2>4
  <2>6. c - pos(next(y)) \in Nat
    BY <1>1, <2>5
  <2>7. c - pos(next(y)) \in T
    BY <2>3, <2>4, <2>6
  <2> QED
    BY <1>1, <2>1, <2>2, <2>5, <2>7
<1>14. \A y \in N : on[y] = F[y]
  <2>1. \A y \in N : c - pos(y) \in Nat
    BY <1>1, <1>2
  <2> QED
    BY <1>13, <2>1
<1>15. on[After(N, p)] = rest(p)
  <2>1. CASE p = c
    <3>1. After(N, p) = Nil
      BY <2>1 DEF After, N, c
    <3> QED
      BY <1>4, <1>12, <2>1, <3>1
  <2>2. CASE p # c
    <3>1. p + 1 \in 1 .. c /\ p + 1 - 1 = p
      BY <1>1, <2>2 DEF c, N
    <3>2. After(N, p) = Nth(N, p + 1)
      BY <2>2 DEF After, N, c
    <3>3. After(N, p) \in N /\ pos(After(N, p)) = p + 1
      BY <1>2, <3>1, <3>2
    <3> QED
      BY <1>8, <1>14, <3>1, <3>3
  <2> QED
    BY <2>1, <2>2
<1> QED
  BY <1>11, <1>15 DEF N, c, rest

----------------------------------------------------------------------------
(* Scores: the keys below min are those of the first positions, and so are *)
(* those not above max.                                                    *)
Below(N, min) == {x \in N : x[1] < min}

NotAbove(N, max) == {x \in N : x[1] <= max}

LEMMA ScoreFacts ==
  ASSUME NEW N, IsKeys(N), NEW min \in Nat, NEW max \in Nat, min <= max
  PROVE  LET a == Cardinality(Below(N, min))
             b == Cardinality(NotAbove(N, max))
         IN  /\ a \in Nat /\ b \in Nat /\ Cardinality(N) \in Nat /\ a <= b /\ b <= Cardinality(N)
             /\ \A x \in N : x[1] < min <=> Pos(N, x) <= a
             /\ \A x \in N : x[1] <= max <=> Pos(N, x) <= b
             /\ \A x \in N : x[1] \in Nat
<1>1. \A x \in N : IsPair(x) /\ x[1] \in Nat
  BY OrderFacts DEF IsKeys, IsPair
<1>2. \A x, y \in N : less(y, x) => y[1] <= x[1]
  BY <1>1 DEF less
<1>3. /\ Below(N, min) \in SUBSET N /\ NotAbove(N, max) \in SUBSET N
      /\ \A x \in N : x \in Below(N, min) <=> x[1] < min
      /\ \A x \in N : x \in NotAbove(N, max) <=> x[1] <= max
  BY DEF Below, NotAbove
<1>4. \A x \in Below(N, min), y \in N : less(y, x) => y \in Below(N, min)
  BY <1>1, <1>2, <1>3
<1>5. \A x \in NotAbove(N, max), y \in N : less(y, x) => y \in NotAbove(N, max)
  BY <1>1, <1>2, <1>3
<1>6. /\ Cardinality(Below(N, min)) \in 0 .. Cardinality(N) /\ Cardinality(N) \in Nat
      /\ \A x \in N : x \in Below(N, min) <=> Pos(N, x) <= Cardinality(Below(N, min))
  BY <1>3, <1>4, PartFacts
<1>7. /\ Cardinality(NotAbove(N, max)) \in 0 .. Cardinality(N) /\ IsFiniteSet(NotAbove(N, max))
      /\ \A x \in N : x \in NotAbove(N, max) <=> Pos(N, x) <= Cardinality(NotAbove(N, max))
  BY <1>3, <1>5, PartFacts
<1>8. Cardinality(Below(N, min)) <= Cardinality(NotAbove(N, max))
  <2>1. Below(N, min) \in SUBSET NotAbove(N, max)
    BY <1>1, <1>3
  <2> QED
    BY <1>7, <2>1, FS_Subset
<1> QED
  BY <1>1, <1>3, <1>6, <1>7, <1>8

(* The descent by score ends before the first key of at least min.         *)
LEMMA SeekFacts ==
  ASSUME NEW sl, IsSkipList(sl), NEW min \in Nat
  PROVE  Seek(sl, Below(Nodes(sl), min)) = After(Nodes(sl), Cardinality(Below(Nodes(sl), min)))
<1> DEFINE N == Nodes(sl)
           B == Below(Nodes(sl), min)
           at == Descent(sl, B)[1]
           a == Cardinality(B)
<1>1. Shaped(sl) /\ Linked(sl) /\ Measured(sl) /\ IsKeys(N) /\ 1 \in 1 .. MAX_LEVEL
  BY LevelAssumption DEF IsSkipList, Shaped
<1>2. All(sl) = N \cup {Header} /\ \A x \in N : IsPair(x) /\ 1 \in Level(sl, x)
  BY <1>1, ShapeFacts
<1>3. /\ a \in Nat /\ Cardinality(N) \in Nat /\ a <= Cardinality(N)
      /\ \A x \in N : x[1] < min <=> Pos(N, x) <= a
  <2> DEFINE low  == Cardinality(Below(N, min))
             high == Cardinality(NotAbove(N, min))
  <2>1. min <= min /\ IsKeys(N)
    BY <1>1
  <2> HIDE DEF N
  <2>2. /\ low \in Nat /\ high \in Nat /\ Cardinality(N) \in Nat
        /\ low <= high /\ high <= Cardinality(N)
        /\ \A x \in N : x[1] < min <=> Pos(N, x) <= low
    BY <2>1, ScoreFacts
  <2> HIDE DEF low, high
  <2>3. low <= Cardinality(N)
    BY <2>2
  <2> QED
    BY <2>2, <2>3 DEF low, N
<1>4. B \in SUBSET N /\ \A x \in N : x \in B <=> x[1] < min
  BY DEF Below
<1>5. IsFirstPart(sl, B)
  <2>1. \A x, y \in N : less(y, x) => Pos(N, y) < Pos(N, x)
    BY <1>1, NthFacts
  <2>2. \A x \in N : Pos(N, x) \in Nat
    BY <1>1, PosFacts
  <2> HIDE DEF a, N, B
  <2>3. \A x \in B, y \in N : less(y, x) => y \in B
    BY <1>3, <1>4, <2>1, <2>2
  <2> QED
    BY <1>4, <2>3 DEF IsFirstPart, N
<1>6. /\ at.node \in B \cup {Header}
      /\ \A z \in B : 1 \in Level(sl, z) => z = at.node \/ less(z, at.node)
  BY <1>1, <1>5, DescentFacts
<1>7. Seek(sl, B) = sl.forward[at.node][1]
  BY DEF Seek
<1> HIDE DEF at, B
<1>8. Pos(N, at.node) = a
  <2>1. UpTo(N, at.node) = B
    <3>1. ASSUME NEW z \in UpTo(N, at.node) PROVE z \in B
      <4>1. CASE at.node \in B
        BY <1>5, <3>1, <4>1 DEF UpTo, IsFirstPart
      <4>2. CASE at.node = Header
        BY <1>1, <3>1, <4>2, OrderFacts DEF UpTo, IsKeys
      <4> QED
        BY <1>6, <4>1, <4>2
    <3>2. ASSUME NEW z \in B PROVE z \in UpTo(N, at.node)
      BY <1>2, <1>4, <1>6, <3>2 DEF UpTo
    <3> QED
      BY <3>1, <3>2
  <2> QED
    BY <2>1 DEF Pos
<1>9. at.node \in All(sl)
  BY <1>2, <1>4, <1>6
<1>10. sl.forward[at.node][1] = After(N, a)
  BY <1>8, <1>9, NextFacts DEF After
<1> QED
  BY <1>7, <1>10 DEF B

Lesser(m, n) == IF m < n THEN m ELSE n

First(s, k) == SubSeq(s, 1, k)

LEMMA FirstFacts ==
  ASSUME NEW N, IsKeys(N), NEW a \in Nat, NEW len \in Nat, a + len <= Cardinality(N),
         NEW k \in Nat, k <= len
  PROVE  First(Window(N, a, len), k) = Window(N, a, k)
<1> DEFINE s == Window(N, a, len)
           t == Window(N, a, k)
           u == First(s, k)
<1>1. Cardinality(N) \in Nat
  BY PosFacts
<1>2. /\ s \in Seq(N) /\ Len(s) = len
      /\ \A j \in 1 .. len : s[j] = Nth(N, a + j)
  BY WindowFacts
<1> HIDE DEF s
<1>3. a + k <= Cardinality(N)
  BY <1>1
<1>4. t \in Seq(N) /\ Len(t) = k /\ \A j \in 1 .. k : t[j] = Nth(N, a + j)
  BY <1>3, WindowFacts
<1>5. u \in Seq(N) /\ Len(u) = k /\ \A j \in 1 .. k : u[j] = s[j]
  BY <1>2 DEF First
<1>6. \A j \in 1 .. k : u[j] = t[j]
  BY <1>2, <1>4, <1>5
<1> HIDE DEF t, u
<1>7. u = t
  BY <1>4, <1>5, <1>6, SeqEqual
<1> QED
  BY <1>7 DEF t, u, s

LEMMA FirstDown ==
  ASSUME NEW N, IsKeys(N), NEW b \in Nat, NEW len \in Nat, len <= b, b <= Cardinality(N),
         NEW k \in Nat, k <= len
  PROVE  First(Down(N, b, len), k) = Down(N, b, k)
<1> DEFINE s == Down(N, b, len)
           t == Down(N, b, k)
           u == First(s, k)
<1>1. /\ s \in Seq(N) /\ Len(s) = len
      /\ \A j \in 1 .. len : s[j] = Nth(N, b + 1 - j)
  BY DownFacts
<1> HIDE DEF s
<1>2. k <= b
  OBVIOUS
<1>3. t \in Seq(N) /\ Len(t) = k /\ \A j \in 1 .. k : t[j] = Nth(N, b + 1 - j)
  BY <1>2, DownFacts
<1>4. u \in Seq(N) /\ Len(u) = k /\ \A j \in 1 .. k : u[j] = s[j]
  BY <1>1 DEF First
<1>5. \A j \in 1 .. k : u[j] = t[j]
  BY <1>1, <1>3, <1>4
<1> HIDE DEF t, u
<1>6. u = t
  BY <1>3, <1>4, <1>5, SeqEqual
<1> QED
  BY <1>6 DEF t, u, s

LEMMA PrefixFacts ==
  ASSUME NEW N, IsKeys(N), NEW a \in Nat, NEW len \in Nat, NEW limit \in Nat
  PROVE  /\ a + len <= Cardinality(N) =>
              Prefix(Window(N, a, len), limit) = Window(N, a, Lesser(limit, len))
         /\ len <= a /\ a <= Cardinality(N) =>
              Prefix(Down(N, a, len), limit) = Down(N, a, Lesser(limit, len))
<1> DEFINE k == Lesser(limit, len)
<1>1. k \in Nat /\ k <= len
  BY DEF Lesser
<1>2. \A s : Len(s) = len => Prefix(s, limit) = First(s, k)
  BY DEF Prefix, First, Lesser
<1> HIDE DEF k
<1>3. ASSUME a + len <= Cardinality(N)
      PROVE  Prefix(Window(N, a, len), limit) = Window(N, a, k)
  BY <1>1, <1>2, <1>3, WindowFacts, FirstFacts
<1>4. ASSUME len <= a, a <= Cardinality(N)
      PROVE  Prefix(Down(N, a, len), limit) = Down(N, a, k)
  BY <1>1, <1>2, <1>4, DownFacts, FirstDown
<1> QED
  BY <1>3, <1>4 DEF k

LEMMA RangeFacts ==
  ASSUME NEW sl, IsSkipList(sl), NEW min \in Nat, NEW max \in Nat, min <= max, NEW limit \in Nat
  PROVE  LET N == Nodes(sl)
             a == Cardinality(Below(N, min))
             b == Cardinality(NotAbove(N, max))
         IN  RangeByScore(sl, min, max, limit) = Window(N, a, Lesser(limit, b - a))
<1> DEFINE N == Nodes(sl)
           c == Cardinality(N)
           a == Cardinality(Below(N, min))
           b == Cardinality(NotAbove(N, max))
           found == From(sl, Seek(sl, {x \in N : x[1] < min}))
           past  == {i \in DOMAIN found : found[i][1] > max}
           stop  == IF past = {} THEN Len(found) ELSE (CHOOSE i \in past : \A j \in past : i <= j) - 1
<1>1. IsKeys(N)
  BY DEF IsSkipList, Shaped
<1>2. /\ a \in Nat /\ b \in Nat /\ c \in Nat /\ a <= b /\ b <= c
      /\ \A x \in N : (x[1] <= max <=> Pos(N, x) <= b) /\ x[1] \in Nat
  BY <1>1, ScoreFacts
<1>3. found = Window(N, a, c - a)
  <2>1. Seek(sl, {x \in N : x[1] < min}) = After(N, a)
    BY SeekFacts DEF Below
  <2>2. a \in 0 .. c
    BY <1>2
  <2> QED
    BY <2>1, <2>2, FromFacts
<1>4. RangeByScore(sl, min, max, limit) = Prefix(SubSeq(found, 1, stop), limit)
  BY DEF RangeByScore
<1> HIDE DEF N, a, b, c, found
<1>5. c - a \in Nat /\ b - a \in Nat /\ a + (c - a) <= c /\ a + (b - a) <= c /\ b - a <= c - a
  BY <1>2
<1>6. /\ found \in Seq(N) /\ Len(found) = c - a
      /\ \A j \in 1 .. c - a : found[j] \in N /\ Pos(N, found[j]) = a + j
  <2> DEFINE len == c - a
  <2>1. len \in Nat /\ a \in Nat /\ a + len <= Cardinality(N)
    BY <1>2, <1>5 DEF c
  <2> HIDE DEF len
  <2>2. /\ Window(N, a, len) \in Seq(N) /\ Len(Window(N, a, len)) = len
        /\ \A j \in 1 .. len : /\ Window(N, a, len)[j] = Nth(N, a + j) /\ Nth(N, a + j) \in N
                                /\ Pos(N, Nth(N, a + j)) = a + j
    BY <1>1, <2>1, WindowFacts
  <2> QED
    BY <1>3, <2>2 DEF len
<1>7. past \in SUBSET Nat /\ \A j : j \in past <=> j \in 1 .. c - a /\ a + j > b
  BY <1>2, <1>6
<1> HIDE DEF past
<1>8. stop = b - a
  <2>1. CASE past = {}
    <3>1. ~(b < c)
      <4>1. b < c => b - a + 1 \in 1 .. c - a /\ a + (b - a + 1) > b
        BY <1>2
      <4> QED
        BY <1>7, <2>1, <4>1
    <3> QED
      BY <1>2, <1>6, <2>1, <3>1
  <2>2. CASE past # {}
    <3> DEFINE i == CHOOSE i \in past : \A j \in past : i <= j
    <3>1. i \in past /\ \A j \in past : i <= j
      BY <1>7, <2>2, Least
    <3> HIDE DEF i
    <3>2. b - a + 1 \in past
      <4>1. i \in 1 .. c - a /\ a + i > b
        BY <1>7, <3>1
      <4>2. b - a + 1 \in 1 .. c - a /\ a + (b - a + 1) > b
        BY <1>2, <4>1
      <4> QED
        BY <1>7, <4>2
    <3>3. i <= b - a + 1 /\ i \in Nat /\ a + i > b
      BY <1>7, <3>1, <3>2
    <3>4. i - 1 = b - a
      BY <1>2, <3>3
    <3> QED
      BY <2>2, <3>4 DEF i
  <2> QED
    BY <2>1, <2>2
<1> HIDE DEF stop
<1>9. SubSeq(found, 1, stop) = Window(N, a, b - a)
  <2> DEFINE len == c - a
             k   == b - a
  <2>1. len \in Nat /\ a \in Nat /\ a + len <= Cardinality(N) /\ k \in Nat /\ k <= len
    BY <1>2, <1>5 DEF c
  <2> HIDE DEF len, k
  <2>2. First(Window(N, a, len), k) = Window(N, a, k)
    BY <1>1, <2>1, FirstFacts
  <2> QED
    BY <1>3, <1>8, <2>2 DEF len, k, First
<1>10. Prefix(Window(N, a, b - a), limit) = Window(N, a, Lesser(limit, b - a))
  BY <1>1, <1>2, <1>5, PrefixFacts DEF c
<1> QED
  BY <1>4, <1>9, <1>10 DEF N, a, b

(* Backwards from x: the keys from the position of x, or from b if that is *)
(* beyond, down to a.                                                      *)
Backs(sl, min, max, f) ==
  f = [x \in Nodes(sl) \cup {Header, Nil} |->
         IF x \in {Header, Nil} \/ x[1] < min THEN <<>>
         ELSE (IF x[1] > max THEN <<>> ELSE <<x>>) \o f[sl.backward[x]]]

Within(a, b, p) == IF p <= a THEN a ELSE IF p <= b THEN p ELSE b

Back(N, a, b, p) == Down(N, Within(a, b, p), Within(a, b, p) - a)

LEMMA BackStep ==
  ASSUME NEW N, IsKeys(N), NEW a \in Nat, NEW b \in Nat, a <= b, b <= Cardinality(N)
  PROVE  /\ \A p \in 0 .. a : Back(N, a, b, p) = <<>>
         /\ \A p \in a + 1 .. b : <<Nth(N, p)>> \o Back(N, a, b, p - 1) = Back(N, a, b, p)
         /\ \A p \in b + 1 .. Cardinality(N) : <<>> \o Back(N, a, b, p - 1) = Back(N, a, b, p)
<1>1. Cardinality(N) \in Nat /\ a <= Cardinality(N)
  BY PosFacts
<1>2. ASSUME NEW p \in 0 .. a PROVE Back(N, a, b, p) = <<>>
  <2>1. Within(a, b, p) = a /\ a - a = 0
    BY DEF Within
  <2> QED
    BY <1>1, <2>1, EmptyFacts DEF Back
<1>3. ASSUME NEW p \in a + 1 .. b
      PROVE  <<Nth(N, p)>> \o Back(N, a, b, p - 1) = Back(N, a, b, p)
  <2> DEFINE q == p - 1
             len == q - a
  <2>1. /\ q \in Nat /\ len \in Nat /\ len <= q /\ q + 1 <= Cardinality(N)
        /\ q + 1 = p /\ len + 1 = p - a /\ q - a = len
    BY <1>1
  <2>2. Within(a, b, q) = q /\ Within(a, b, p) = p
    BY DEF Within
  <2> HIDE DEF q, len
  <2>3. <<Nth(N, q + 1)>> \o Down(N, q, len) = Down(N, q + 1, len + 1)
    BY <2>1, ConsDown
  <2>4. Back(N, a, b, q) = Down(N, q, len) /\ Back(N, a, b, p) = Down(N, q + 1, len + 1)
    BY <2>1, <2>2 DEF Back
  <2> QED
    BY <2>1, <2>3, <2>4 DEF q
<1>4. ASSUME NEW p \in b + 1 .. Cardinality(N)
      PROVE  <<>> \o Back(N, a, b, p - 1) = Back(N, a, b, p)
  <2>1. Within(a, b, p) = b /\ Within(a, b, p - 1) = b
    BY <1>1 DEF Within
  <2>2. b - a \in Nat /\ b - a <= b
    OBVIOUS
  <2> DEFINE len == b - a
  <2> HIDE DEF len
  <2>3. Down(N, b, len) \in Seq(N)
    BY <2>2, DownFacts DEF len
  <2>4. <<>> \o Down(N, b, len) = Down(N, b, len)
    BY <2>3, ConcatEmptySeq
  <2> QED
    BY <2>1, <2>4 DEF Back, len
<1> QED
  BY <1>2, <1>3, <1>4

LEMMA RangeDescFacts ==
  ASSUME NEW sl, IsSkipList(sl), NEW min \in Nat, NEW max \in Nat, min <= max, NEW limit \in Nat
  PROVE  LET N == Nodes(sl)
             a == Cardinality(Below(N, min))
             b == Cardinality(NotAbove(N, max))
         IN  RangeDesc(sl, min, max, limit) = Down(N, b, Lesser(limit, b - a))
<1> DEFINE N == Nodes(sl)
           c == Cardinality(N)
           a == Cardinality(Below(N, min))
           b == Cardinality(NotAbove(N, max))
           D == N \cup {Header, Nil}
           pos(x) == IF x = Nil THEN 0 ELSE Pos(N, x)
           F == [x \in D |-> Back(N, a, b, pos(x))]
           turn(x, rest) == IF x \in {Header, Nil} \/ x[1] < min THEN <<>>
                            ELSE (IF x[1] > max THEN <<>> ELSE <<x>>) \o rest
<1>1. IsKeys(N)
  BY DEF IsSkipList, Shaped
<1>2. /\ a \in Nat /\ b \in Nat /\ c \in Nat /\ a <= b /\ b <= c
      /\ \A x \in N : /\ x[1] < min <=> Pos(N, x) <= a
                      /\ x[1] <= max <=> Pos(N, x) <= b
                      /\ x[1] \in Nat
  BY <1>1, ScoreFacts
<1>3. Header \notin N /\ Nil \notin N /\ Header # Nil
  <2>1. \A x \in N : IsPair(x) /\ x # Header
    BY <1>1, OrderFacts DEF IsKeys
  <2> QED
    BY <2>1, OrderFacts, NilFacts
<1>4. pos(Header) = 0 /\ pos(Nil) = 0
  BY <1>1, <1>3, PosFacts
<1>5. \A x \in N : pos(x) = Pos(N, x) /\ pos(x) \in 1 .. c /\ Nth(N, pos(x)) = x
  BY <1>1, <1>3, NthFacts
<1>6. \A x \in N : sl.backward[x] \in D /\ pos(sl.backward[x]) = pos(x) - 1
  <2> SUFFICES ASSUME NEW x \in N
               PROVE  sl.backward[x] \in D /\ pos(sl.backward[x]) = pos(x) - 1
    OBVIOUS
  <2>1. /\ Pos(N, x) = 1 => sl.backward[x] = Header
        /\ Pos(N, x) # 1 => /\ Pos(N, x) - 1 \in 1 .. Cardinality(N)
                            /\ sl.backward[x] = Nth(N, Pos(N, x) - 1)
                            /\ sl.backward[x] \in N
    BY BackFacts
  <2>2. \A k \in 1 .. Cardinality(N) : Nth(N, k) \in N /\ Pos(N, Nth(N, k)) = k
    BY <1>1, NthFacts
  <2>3. CASE Pos(N, x) = 1
    BY <1>4, <1>5, <2>1, <2>3
  <2>4. CASE Pos(N, x) # 1
    BY <1>3, <1>5, <2>1, <2>2, <2>4
  <2> QED
    BY <2>3, <2>4
<1> HIDE DEF N, a, b, c, pos
<1>7. /\ \A p \in 0 .. a : Back(N, a, b, p) = <<>>
      /\ \A p \in a + 1 .. b : <<Nth(N, p)>> \o Back(N, a, b, p - 1) = Back(N, a, b, p)
      /\ \A p \in b + 1 .. c : <<>> \o Back(N, a, b, p - 1) = Back(N, a, b, p)
  BY <1>1, <1>2, BackStep DEF c
<1>8. ASSUME NEW x \in D
      PROVE  F[x] = turn(x, F[sl.backward[x]])
  <2>1. CASE x \in {Header, Nil}
    <3>1. 0 \in 0 .. a
      BY <1>2
    <3> QED
      BY <1>4, <1>7, <2>1, <3>1
  <2>2. CASE x \in N
    <3>1. F[x] = Back(N, a, b, pos(x)) /\ F[sl.backward[x]] = Back(N, a, b, pos(x) - 1)
      BY <1>6, <2>2
    <3>2. pos(x) \in 1 .. c /\ (x[1] < min <=> pos(x) <= a) /\ (x[1] <= max <=> pos(x) <= b)
          /\ x[1] \in Nat /\ x \notin {Header, Nil} /\ Nth(N, pos(x)) = x
      BY <1>2, <1>3, <1>5, <2>2
    <3> HIDE DEF F
    <3>3. CASE pos(x) <= a
      <4>1. pos(x) \in 0 .. a
        BY <1>2, <3>2, <3>3
      <4> QED
        BY <1>7, <3>1, <3>2, <3>3, <4>1
    <3>4. CASE ~(pos(x) <= a) /\ pos(x) <= b
      <4>1. pos(x) \in a + 1 .. b
        BY <1>2, <3>2, <3>4
      <4>2. <<x>> \o Back(N, a, b, pos(x) - 1) = Back(N, a, b, pos(x))
        BY <1>7, <3>2, <4>1
      <4>3. ~(x[1] < min) /\ ~(x[1] > max)
        BY <3>2, <3>4
      <4> QED
        BY <3>1, <3>2, <4>2, <4>3
    <3>5. CASE ~(pos(x) <= a) /\ ~(pos(x) <= b)
      <4>1. pos(x) \in b + 1 .. c
        BY <1>2, <3>2, <3>5
      <4>2. <<>> \o Back(N, a, b, pos(x) - 1) = Back(N, a, b, pos(x))
        BY <1>7, <4>1
      <4>3. ~(x[1] < min) /\ x[1] > max
        BY <3>2, <3>5
      <4> QED
        BY <3>1, <3>2, <4>2, <4>3
    <3> QED
      BY <3>3, <3>4, <3>5
  <2> QED
    BY <2>1, <2>2
<1>9. F = [x \in D |-> turn(x, F[sl.backward[x]])]
  <2>1. F = [x \in D |-> F[x]]
    OBVIOUS
  <2> HIDE DEF F, turn, D
  <2> QED
    BY <1>8, <2>1
<1>10. \A x \in D : F[x] = Back(N, a, b, pos(x))
  OBVIOUS
<1> HIDE DEF F
<1>11. \A f : Backs(sl, min, max, f) <=> f = [x \in D |-> turn(x, f[sl.backward[x]])]
  BY DEF Backs, N
<1> DEFINE back == CHOOSE f : Backs(sl, min, max, f)
<1>12. Backs(sl, min, max, back)
  BY <1>9, <1>11
<1>13. RangeDesc(sl, min, max, limit) = Prefix(back[sl.tail], limit)
  BY DEF RangeDesc, Backs
<1> HIDE DEF back
<1>14. back = [x \in D |-> turn(x, back[sl.backward[x]])]
  BY <1>11, <1>12
<1> DEFINE T == {k \in Nat : \E x \in N : back[x] # F[x] /\ k = pos(x)}
<1>15. \A x \in {Header, Nil} : back[x] = F[x]
  BY <1>9, <1>14
<1>16. T = {}
  <2> SUFFICES ASSUME T # {} PROVE FALSE
    OBVIOUS
  <2>1. PICK k \in T : \A l \in T : k <= l
    BY Least
  <2>2. PICK x \in N : back[x] # F[x] /\ k = pos(x)
    BY <2>1
  <2>3. back[sl.backward[x]] # F[sl.backward[x]]
    <3>1. back[x] = turn(x, back[sl.backward[x]]) /\ F[x] = turn(x, F[sl.backward[x]])
      BY <1>8, <1>14
    <3> HIDE DEF turn
    <3> QED
      BY <2>2, <3>1
  <2>4. sl.backward[x] \in N
    BY <1>6, <1>15, <2>3
  <2>5. pos(sl.backward[x]) = pos(x) - 1 /\ pos(sl.backward[x]) \in Nat /\ pos(x) \in Nat
    BY <1>5, <1>6, <2>4
  <2>6. pos(sl.backward[x]) \in T
    BY <2>3, <2>4, <2>5
  <2> QED
    BY <2>1, <2>2, <2>5, <2>6
<1>17. \A x \in D : back[x] = F[x]
  <2>1. \A x \in N : pos(x) \in Nat
    BY <1>5
  <2> QED
    BY <1>15, <1>16, <2>1
<1>18. sl.tail \in D /\ pos(sl.tail) = c
  <2>1. Ended(sl)
    BY DEF IsSkipList
  <2>2. CASE N = {}
    <3>1. c = 0
      BY <2>2, FS_EmptySet DEF c
    <3> QED
      BY <1>4, <2>1, <2>2, <3>1 DEF Ended, N
  <2>3. CASE N # {}
    <3>1. sl.tail \in N /\ Ends(N, sl.tail)
      BY <2>1, <2>3 DEF Ended, N
    <3>2. Pos(N, sl.tail) = c
      BY <1>1, <3>1, PosFacts DEF Ends, c
    <3> QED
      BY <1>5, <3>1, <3>2
  <2> QED
    BY <2>2, <2>3
<1>19. Back(N, a, b, c) = Down(N, b, b - a)
  <2>1. Within(a, b, c) = b
    BY <1>2 DEF Within
  <2> QED
    BY <2>1 DEF Back
<1>20. back[sl.tail] = Down(N, b, b - a)
  BY <1>10, <1>17, <1>18, <1>19
<1>21. Prefix(Down(N, b, b - a), limit) = Down(N, b, Lesser(limit, b - a))
  <2> DEFINE len == b - a
  <2>1. len \in Nat /\ len <= b /\ b \in Nat /\ b <= Cardinality(N)
    BY <1>2 DEF c
  <2> HIDE DEF len
  <2>2. Prefix(Down(N, b, len), limit) = Down(N, b, Lesser(limit, len))
    BY <1>1, <2>1, PrefixFacts
  <2> QED
    BY <2>2 DEF len
<1> QED
  BY <1>13, <1>20, <1>21 DEF N, a, b

LEMMA AllFacts ==
  ASSUME NEW sl, IsSkipList(sl)
  PROVE  GetAll(sl) = Window(Nodes(sl), 0, Cardinality(Nodes(sl)))
<1> DEFINE N == Nodes(sl)
           c == Cardinality(N)
<1>1. IsKeys(N) /\ c \in Nat /\ Pos(N, Header) = 0 /\ Header \in All(sl)
  BY PosFacts, ShapeFacts DEF IsSkipList, Shaped
<1>2. sl.forward[Header][1] = After(N, 0)
  BY <1>1, NextFacts DEF After
<1>3. From(sl, After(N, 0)) = Window(N, 0, c - 0)
  BY <1>1, FromFacts
<1>4. c - 0 = c
  BY <1>1
<1> QED
  BY <1>2, <1>3, <1>4 DEF GetAll

(* The keys of some scores, by themselves.                                 *)
Scored(N, min, max) == {x \in N : x[1] \in min .. max}

LEMMA ScoredFacts ==
  ASSUME NEW N, IsKeys(N), NEW min \in Nat, NEW max \in Nat, min <= max
  PROVE  LET R == Scored(N, min, max)
             a == Cardinality(Below(N, min))
             b == Cardinality(NotAbove(N, max))
         IN  /\ IsKeys(R) /\ R \subseteq N /\ Cardinality(R) = b - a
             /\ \A j \in 1 .. b - a : Nth(R, j) = Nth(N, a + j)
<1> DEFINE R == Scored(N, min, max)
           A == Below(N, min)
           B == NotAbove(N, max)
           a == Cardinality(A)
           b == Cardinality(B)
<1>1. /\ a \in Nat /\ b \in Nat /\ a <= b /\ b <= Cardinality(N) /\ Cardinality(N) \in Nat
      /\ \A x \in N : x[1] \in Nat
  BY ScoreFacts
<1>2. /\ IsFiniteSet(N) /\ \A x \in N : IsKey(x) /\ IsPair(x)
      /\ R \in SUBSET N /\ A \in SUBSET N /\ B \in SUBSET N
      /\ \A x \in N : /\ x \in R <=> min <= x[1] /\ x[1] <= max
                      /\ x \in A <=> x[1] < min
                      /\ x \in B <=> x[1] <= max
  BY <1>1, OrderFacts DEF IsKeys, Scored, Below, NotAbove
<1>3. IsFiniteSet(A) /\ IsFiniteSet(B) /\ IsFiniteSet(R)
  BY <1>2, FS_Subset
<1> HIDE DEF R, A, B
<1>4. R = B \ A /\ B \cap A = A
  BY <1>1, <1>2
<1>5. Cardinality(R) = b - a
  BY <1>3, <1>4, FS_Difference
<1>6. IsKeys(R)
  BY <1>2, <1>3 DEF IsKeys
<1>7. ASSUME NEW x \in R PROVE Pos(R, x) = Pos(N, x) - a
  <2>1. \A y \in A : less(y, x)
    BY <1>1, <1>2 DEF less
  <2>2. \A y \in N : y = x \/ less(y, x) => y \in R \/ y \in A
    BY <1>1, <1>2 DEF less
  <2>3. UpTo(R, x) = UpTo(N, x) \ A /\ UpTo(N, x) \cap A = A
    BY <1>2, <1>4, <2>1, <2>2 DEF UpTo
  <2>4. IsFiniteSet(UpTo(N, x))
    BY <1>2, FS_Subset DEF UpTo
  <2> QED
    BY <2>3, <2>4, FS_Difference DEF Pos
<1> HIDE DEF a, b
<1>8. ASSUME NEW j \in 1 .. b - a PROVE Nth(R, j) = Nth(N, a + j)
  <2> DEFINE z == Nth(R, j)
  <2>1. z \in R /\ Pos(R, z) = j
    BY <1>5, <1>6, NthFacts
  <2> HIDE DEF z
  <2>2. z \in N /\ Pos(N, z) \in Nat /\ Nth(N, Pos(N, z)) = z
    BY <1>2, <2>1, NthFacts, PosFacts
  <2>3. Pos(N, z) = a + j
    BY <1>1, <1>7, <2>1, <2>2
  <2> QED
    BY <2>2, <2>3 DEF z
<1> QED
  BY <1>2, <1>5, <1>6, <1>8 DEF R, a, b, A, B

----------------------------------------------------------------------------
Version == Record \cup {Absent}

(* All variables but the skip lists.                                       *)
Types ==
  /\ clock \in [Node -> Nat]
  /\ members \in [Node -> [Member -> Version]]
  /\ disk \in [Node -> [Member -> Version]]
  /\ msgs \subseteq [to : Node, members : [Member -> Version]]
  /\ wrote \in [Member -> [by : SUBSET Node, last : Version, lowered : BOOLEAN]]
  /\ restarted \subseteq Node
  /\ reused \in BOOLEAN

(* While no node has stamped anew after a restart, a stamp names one       *)
(* record, and no node's clock is behind its own records.                  *)
Unique ==
  ~reused =>
    \A m \in Member :
      /\ \A a, b \in Records(m) : a.ts = b.ts /\ a.node = b.node => a = b
      /\ \A a \in Records(m) : a.node \in Node \ restarted => a.ts <= clock[a.node]

(* A lone writer that never lowered the score has what it wrote last, and  *)
(* nothing anywhere wins over it.                                          *)
LastWord ==
  \A m \in Member :
    /\ wrote[m].by = {} => Records(m) \subseteq {Absent}
    /\ \A n \in Node \ restarted :
         wrote[m].by = {n} /\ ~wrote[m].lowered =>
           /\ members[n][m] = wrote[m].last
           /\ wrote[m].last.ts <= clock[n]
           /\ \A a \in Records(m) : ~Wins(a, wrote[m].last)

(* The inductive invariant.                                                *)
IInv == Types /\ Unique /\ LastWord

----------------------------------------------------------------------------
LEMMA VersionFacts ==
  /\ Absent \in Version /\ Absent.score = 0 /\ Absent.ts = 0 /\ Absent.node = 0
  /\ \A a \in Version : a.score \in Nat /\ a.ts \in Nat /\ a.node \in Nat
  /\ \A a \in Version : a.node = 0 => a = Absent
  /\ \A a \in Record : a.score > 0
<1>1. Node \subseteq Nat \ {0} /\ Score \subseteq Nat \ {0}
  BY SortedSetAssumption
<1>2. \A a \in Record : a.score \in Score /\ a.ts \in Nat /\ a.node \in Node
  BY DEF Record
<1>3. \A a \in Record : a.score \in Nat /\ a.score > 0 /\ a.ts \in Nat /\ a.node \in Nat /\ a.node # 0
  <2>1. \A x \in Node : x \in Nat /\ x # 0
    BY <1>1
  <2>2. \A x \in Score : x \in Nat /\ x > 0
    <3>1. \A x \in Nat \ {0} : x \in Nat /\ x > 0
      OBVIOUS
    <3> QED
      BY <1>1, <3>1
  <2> QED
    BY <1>2, <2>1, <2>2
<1>4. /\ Absent \in Version /\ Absent.score = 0 /\ Absent.ts = 0 /\ Absent.node = 0
  BY DEF Version, Absent
<1> QED
  BY <1>3, <1>4 DEF Version

(* Where a record is.                                                      *)
LEMMA RecordsFacts ==
  ASSUME NEW m \in Member
  PROVE  /\ \A n \in Node : members[n][m] \in Records(m) /\ disk[n][m] \in Records(m)
         /\ \A msg \in msgs : msg.members[m] \in Records(m)
         /\ \A a \in Records(m) : \/ \E n \in Node : a = members[n][m] \/ a = disk[n][m]
                                  \/ \E msg \in msgs : a = msg.members[m]
BY DEF Records

LEMMA RecordsType ==
  ASSUME Types, NEW m \in Member
  PROVE  Records(m) \subseteq Version
BY DEF Types, Records

(* Every step but a write.                                                 *)
Selects ==
  /\ \A m \in Member : \A a \in Records(m)' : a \in Records(m)
  /\ \A n \in Node \ restarted' :
       /\ clock[n] <= clock'[n]
       /\ \A m \in Member : members'[n][m] = members[n][m] \/ Wins(members'[n][m], members[n][m])
  /\ restarted \subseteq restarted'
  /\ UNCHANGED <<wrote, reused>>

LEMMA SelectsKeeps ==
  ASSUME IInv, Types', Selects
  PROVE  Unique' /\ LastWord'
<1>1. Types /\ Unique /\ LastWord
  BY DEF IInv
<1>2. Unique'
  <2>1. \A n \in Node \ restarted' : clock[n] \in Nat /\ clock'[n] \in Nat /\ clock[n] <= clock'[n]
    BY <1>1 DEF Types, Selects
  <2> SUFFICES ASSUME ~reused, NEW m \in Member
               PROVE  /\ \A a, b \in Records(m)' : a.ts = b.ts /\ a.node = b.node => a = b
                      /\ \A a \in Records(m)' : a.node \in Node \ restarted' => a.ts <= clock'[a.node]
    BY DEF Unique, Selects
  <2>2. \A a \in Records(m)' : a \in Records(m)
    BY DEF Selects
  <2>3. \A a \in Records(m) : a.ts \in Nat
    BY <1>1, RecordsType, VersionFacts
  <2>4. \A a, b \in Records(m) : a.ts = b.ts /\ a.node = b.node => a = b
    BY <1>1 DEF Unique
  <2>5. \A a \in Records(m) : a.node \in Node \ restarted => a.ts <= clock[a.node]
    BY <1>1 DEF Unique
  <2>6. ASSUME NEW a \in Records(m)', a.node \in Node \ restarted'
        PROVE  a.ts <= clock'[a.node]
    <3>1. a.ts <= clock[a.node] /\ a.ts \in Nat
      BY <2>2, <2>3, <2>5, <2>6 DEF Selects
    <3> QED
      BY <2>1, <2>6, <3>1
  <2> QED
    BY <2>2, <2>4, <2>6
<1>3. LastWord'
  <2> SUFFICES ASSUME NEW m \in Member
               PROVE  /\ wrote[m].by = {} => Records(m)' \subseteq {Absent}
                      /\ \A n \in Node \ restarted' :
                           wrote[m].by = {n} /\ ~wrote[m].lowered =>
                             /\ members'[n][m] = wrote[m].last
                             /\ wrote[m].last.ts <= clock'[n]
                             /\ \A a \in Records(m)' : ~Wins(a, wrote[m].last)
    BY DEF LastWord, Selects, Wins
  <2>1. \A a \in Records(m)' : a \in Records(m)
    BY DEF Selects
  <2>2. wrote[m].by = {} => Records(m)' \subseteq {Absent}
    BY <1>1, <2>1 DEF LastWord
  <2>3. ASSUME NEW n \in Node \ restarted', wrote[m].by = {n}, ~wrote[m].lowered
        PROVE  /\ members'[n][m] = wrote[m].last
               /\ wrote[m].last.ts <= clock'[n]
               /\ \A a \in Records(m)' : ~Wins(a, wrote[m].last)
    <3>1. n \in Node \ restarted
      BY DEF Selects
    <3>2. /\ members[n][m] = wrote[m].last /\ wrote[m].last.ts <= clock[n]
          /\ \A a \in Records(m) : ~Wins(a, wrote[m].last)
      BY <1>1, <2>3, <3>1 DEF LastWord
    <3>3. members'[n][m] \in Records(m)'
      BY DEF Records
    <3>4. members'[n][m] = members[n][m] \/ Wins(members'[n][m], members[n][m])
      BY <2>3 DEF Selects
    <3>5. wrote[m].last.ts \in Nat /\ clock[n] \in Nat /\ clock'[n] \in Nat /\ clock[n] <= clock'[n]
      <4>1. wrote[m].last \in Version
        BY <1>1 DEF Types
      <4> QED
        BY <1>1, <2>3, <4>1, VersionFacts DEF Types, Selects
    <3> QED
      BY <2>1, <3>2, <3>3, <3>4, <3>5
  <2> QED
    BY <2>2, <2>3
<1> QED
  BY <1>2, <1>3

----------------------------------------------------------------------------
(* A write is of a new stamp, and wins over what its lone writer has put   *)
(* anywhere before.                                                        *)
LEMMA WriteKeeps ==
  ASSUME IInv, NEW n \in Node, NEW m \in Member, NEW r \in Record,
         r.ts = clock[n] + 1, r.node = n, Write(n, m, r)
  PROVE  Types' /\ Unique' /\ LastWord'
<1>1. Types /\ Unique /\ LastWord /\ clock[n] \in Nat
  BY DEF IInv, Types
<1>2. /\ clock' \in [Node -> Nat] /\ clock'[n] = clock[n] + 1
      /\ \A p \in Node : p # n => clock'[p] = clock[p]
  BY <1>1 DEF Write, Types
<1>3. /\ members' \in [Node -> [Member -> Version]] /\ members'[n][m] = r
      /\ \A p \in Node, k \in Member : p # n \/ k # m => members'[p][k] = members[p][k]
  BY <1>1 DEF Write, Types, Version
<1>4. /\ wrote' \in [Member -> [by : SUBSET Node, last : Version, lowered : BOOLEAN]]
      /\ wrote'[m].by = wrote[m].by \cup {n} /\ wrote'[m].last = r
      /\ ~wrote'[m].lowered => ~wrote[m].lowered /\ ~(r.score < wrote[m].last.score)
      /\ \A k \in Member : k # m => wrote'[k] = wrote[k]
  <2> DEFINE w == [by      |-> wrote[m].by \cup {n}, last |-> r,
                   lowered |-> wrote[m].lowered \/ r.score < wrote[m].last.score]
  <2>1. wrote' = [wrote EXCEPT ![m] = w]
    BY DEF Write
  <2>2. wrote[m].lowered \in BOOLEAN /\ wrote[m].by \subseteq Node
    BY <1>1 DEF Types
  <2>3. (r.score < wrote[m].last.score) \in BOOLEAN
    OBVIOUS
  <2>4. w \in [by : SUBSET Node, last : Version, lowered : BOOLEAN]
    BY <2>2, <2>3 DEF Version
  <2>5. w.by = wrote[m].by \cup {n} /\ w.last = r
        /\ (~w.lowered => ~wrote[m].lowered /\ ~(r.score < wrote[m].last.score))
    OBVIOUS
  <2> HIDE DEF w
  <2> QED
    BY <1>1, <2>1, <2>4, <2>5 DEF Types
<1>5. UNCHANGED <<disk, msgs, restarted>> /\ reused' = (reused \/ n \in restarted)
  BY DEF Write
<1>6. Types'
  BY <1>1, <1>2, <1>3, <1>4, <1>5 DEF Types
<1>7. \A k \in Member : \A a \in Records(k)' : a \in Records(k) \/ (k = m /\ a = r)
  BY <1>3, <1>5 DEF Records
<1>8. \A k \in Member : \A a \in Records(k) : a \in Version /\ a.ts \in Nat /\ a.score \in Nat /\ a.node \in Nat
  BY <1>1, RecordsType, VersionFacts
<1>9. Unique'
  <2> SUFFICES ASSUME ~reused, n \notin restarted, NEW k \in Member
               PROVE  /\ \A a, b \in Records(k)' : a.ts = b.ts /\ a.node = b.node => a = b
                      /\ \A a \in Records(k)' : a.node \in Node \ restarted => a.ts <= clock'[a.node]
    BY <1>5 DEF Unique
  <2>1. /\ \A a, b \in Records(k) : a.ts = b.ts /\ a.node = b.node => a = b
        /\ \A a \in Records(k) : a.node \in Node \ restarted => a.ts <= clock[a.node]
    BY <1>1 DEF Unique
  <2>2. \A a \in Records(k) : a.node = n => a.ts < r.ts
    BY <1>1, <1>8, <2>1
  <2>3. ASSUME NEW p \in Node
        PROVE  clock[p] \in Nat /\ clock'[p] \in Nat /\ clock[p] <= clock'[p]
    <3>1. clock[p] \in Nat /\ clock'[p] \in Nat
      BY <1>1, <1>2 DEF Types
    <3>2. clock'[p] = clock[p] \/ clock'[p] = clock[p] + 1
      BY <1>2
    <3> QED
      BY <3>1, <3>2
  <2>4. r.ts <= clock'[n] /\ r.ts \in Nat
    BY <1>1, <1>2
  <2>5. \A a, b \in Records(k)' : a.ts = b.ts /\ a.node = b.node => a = b
    BY <1>7, <1>8, <2>1, <2>2, <2>4
  <2>6. ASSUME NEW a \in Records(k)', a.node \in Node \ restarted
        PROVE  a.ts <= clock'[a.node]
    <3>1. CASE a = r
      BY <2>4, <3>1
    <3>2. CASE a \in Records(k)
      <4>1. a.ts <= clock[a.node] /\ a.ts \in Nat
        BY <1>8, <2>1, <2>6, <3>2
      <4> QED
        BY <2>3, <2>6, <4>1
    <3> QED
      BY <1>7, <3>1, <3>2
  <2> QED
    BY <2>5, <2>6
<1>10. ASSUME NEW k \in Member, k # m
       PROVE  /\ wrote'[k].by = {} => Records(k)' \subseteq {Absent}
              /\ \A p \in Node \ restarted :
                   wrote'[k].by = {p} /\ ~wrote'[k].lowered =>
                     /\ members'[p][k] = wrote'[k].last
                     /\ wrote'[k].last.ts <= clock'[p]
                     /\ \A a \in Records(k)' : ~Wins(a, wrote'[k].last)
  <2>1. \A a \in Records(k)' : a \in Records(k)
    BY <1>7, <1>10
  <2>2. wrote'[k] = wrote[k] /\ \A p \in Node : members'[p][k] = members[p][k]
    BY <1>3, <1>4, <1>10
  <2>3. wrote[k].last \in Version
    BY <1>1 DEF Types
  <2>4. wrote[k].last.ts \in Nat
    BY <2>3, VersionFacts
  <2>5. ASSUME NEW p \in Node, wrote[k].last.ts <= clock[p]
        PROVE  wrote[k].last.ts <= clock'[p]
    <3>1. clock[p] \in Nat
      BY <1>1 DEF Types
    <3>2. clock'[p] = clock[p] \/ clock'[p] = clock[p] + 1
      BY <1>2
    <3> QED
      BY <2>4, <2>5, <3>1, <3>2
  <2> QED
    BY <1>1, <2>1, <2>2, <2>5 DEF LastWord
<1>11. wrote'[m].by # {} /\ \A p \in Node : wrote'[m].by = {p} => p = n
  BY <1>4
<1>12. ASSUME n \notin restarted, wrote'[m].by = {n}, ~wrote'[m].lowered
       PROVE  /\ members'[n][m] = wrote'[m].last
              /\ wrote'[m].last.ts <= clock'[n]
              /\ \A a \in Records(m)' : ~Wins(a, wrote'[m].last)
  <2>1. r.score \in Nat /\ r.score > 0 /\ r.ts \in Nat /\ r.node \in Nat
    BY VersionFacts DEF Version
  <2>2. ASSUME NEW a \in Records(m) PROVE ~Wins(a, r)
    <3>1. a.ts \in Nat /\ a.score \in Nat /\ a.node \in Nat
      BY <1>8
    <3>2. CASE wrote[m].by = {}
      <4>1. a.score = 0
        BY <1>1, <3>2, VersionFacts DEF LastWord
      <4> QED
        BY <2>1, <3>1, <4>1 DEF Wins
    <3>3. CASE wrote[m].by = {n}
      <4> DEFINE l == wrote[m].last
      <4>1. ~Wins(a, l) /\ l.ts <= clock[n] /\ ~(r.score < l.score)
        BY <1>1, <1>4, <1>12, <3>3 DEF LastWord
      <4>2. l \in Version
        BY <1>1 DEF Types
      <4>3. l.ts \in Nat /\ l.score \in Nat /\ l.node \in Nat
        BY <4>2, VersionFacts
      <4> HIDE DEF l
      <4> QED
        BY <1>1, <2>1, <3>1, <4>1, <4>3 DEF Wins
    <3> QED
      BY <1>4, <1>12, <3>2, <3>3
  <2>3. ~Wins(r, r)
    BY <2>1 DEF Wins
  <2> QED
    BY <1>2, <1>3, <1>4, <1>7, <2>1, <2>2, <2>3
<1>13. LastWord'
  <2>1. restarted' = restarted
    BY <1>5
  <2> QED
    BY <1>10, <1>11, <1>12, <2>1 DEF LastWord
<1> QED
  BY <1>6, <1>9, <1>13

(* Add and Remove write.                                                   *)
LEMMA CallKeeps ==
  ASSUME IInv, NEW n \in Node, NEW m \in Member,
         \/ \E score \in Score, height \in 1 .. MAX_LEVEL : Add(n, m, score, height)
         \/ Remove(n, m)
  PROVE  IInv'
<1>1. clock[n] \in Nat /\ clock[n] + 1 \in Nat \ {0} /\ members[n][m] \in Version
  BY DEF IInv, Types
<1>2. \E r \in Record : r.ts = clock[n] + 1 /\ r.node = n /\ Write(n, m, r)
  <2>1. ASSUME NEW score \in Score, NEW height \in 1 .. MAX_LEVEL, Add(n, m, score, height)
        PROVE  \E r \in Record : r.ts = clock[n] + 1 /\ r.node = n /\ Write(n, m, r)
    <3> DEFINE r == [score |-> score, ts |-> clock[n] + 1, node |-> n, tomb |-> FALSE]
    <3>1. r \in Record /\ r.ts = clock[n] + 1 /\ r.node = n
      BY <1>1 DEF Record
    <3>2. Write(n, m, r)
      BY <2>1 DEF Add, AddTo
    <3> HIDE DEF r
    <3> QED
      BY <3>1, <3>2
  <2>2. ASSUME Remove(n, m)
        PROVE  \E r \in Record : r.ts = clock[n] + 1 /\ r.node = n /\ Write(n, m, r)
    <3> DEFINE r == [score |-> members[n][m].score, ts |-> clock[n] + 1, node |-> n, tomb |-> TRUE]
    <3>1. members[n][m].score \in Score
      BY <1>1, <2>2 DEF Remove, RemoveAt, Version, Record
    <3>2. r \in Record /\ r.ts = clock[n] + 1 /\ r.node = n
      BY <1>1, <3>1 DEF Record
    <3>3. Write(n, m, r)
      BY <2>2 DEF Remove, RemoveAt
    <3> HIDE DEF r
    <3> QED
      BY <3>2, <3>3
  <2> QED
    BY <2>1, <2>2
<1>3. PICK r \in Record : r.ts = clock[n] + 1 /\ r.node = n /\ Write(n, m, r)
  BY <1>2
<1> QED
  BY <1>3, WriteKeeps DEF IInv

----------------------------------------------------------------------------
(* A merge takes of each member the record that wins.                      *)
LEMMA MergeFacts ==
  ASSUME Types, NEW n \in Node, NEW peer \in [Member -> Version], MergeSnapshot(n, peer)
  PROVE  /\ members' \in [Node -> [Member -> Version]] /\ clock' \in [Node -> Nat]
         /\ \A p \in Node : p # n => members'[p] = members[p] /\ clock'[p] = clock[p]
         /\ clock'[n] = clock[n] + 1
         /\ \A m \in Member :
              members'[n][m] = IF Wins(peer[m], members[n][m]) THEN peer[m] ELSE members[n][m]
<1> DEFINE map == MergedMap(members[n], peer)
<1>1. map \in [Member -> Version]
      /\ \A m \in Member : map[m] = IF Wins(peer[m], members[n][m]) THEN peer[m] ELSE members[n][m]
  BY DEF MergedMap, Types
<1>2. members' = [members EXCEPT ![n] = map] /\ clock' = [clock EXCEPT ![n] = @ + 1]
  BY DEF MergeSnapshot
<1> HIDE DEF map
<1> QED
  BY <1>1, <1>2 DEF Types

(* A merge of what is somewhere in the mesh chooses.                       *)
LEMMA MergeSelects ==
  ASSUME IInv, NEW n \in Node, NEW peer \in [Member -> Version], MergeSnapshot(n, peer),
         \A m \in Member : peer[m] \in Records(m),
         disk' = disk, msgs' \subseteq msgs, UNCHANGED history
  PROVE  Types' /\ Selects
<1>1. Types /\ UNCHANGED <<wrote, restarted, reused>>
  BY DEF IInv, history
<1>2. Types'
  BY <1>1, MergeFacts DEF Types
<1>3. \A p \in Node, m \in Member :
        members'[p][m] = members[p][m]
          \/ (Wins(members'[p][m], members[p][m]) /\ members'[p][m] = peer[m])
  BY <1>1, MergeFacts
<1>4. \A m \in Member : \A a \in Records(m)' : a \in Records(m)
  BY <1>3 DEF Records
<1>5. ASSUME NEW p \in Node PROVE clock[p] <= clock'[p]
  <2>1. clock[p] \in Nat
    BY <1>1 DEF Types
  <2>2. clock'[p] = clock[p] \/ clock'[p] = clock[p] + 1
    BY <1>1, MergeFacts
  <2> QED
    BY <2>1, <2>2
<1> QED
  BY <1>1, <1>2, <1>3, <1>4, <1>5 DEF Selects

LEMMA Step == IInv /\ [Next]_vars => IInv'
<1> SUFFICES ASSUME IInv, [Next]_vars PROVE IInv'
  OBVIOUS
<1>1. Types /\ \A n \in Node : clock[n] \in Nat
  BY DEF IInv, Types
<1>2. ASSUME NEW n \in Node, NEW p \in Node, Send(n, p)
      PROVE  Types' /\ Selects
  <2> DEFINE msg == [to |-> p, members |-> members[n]]
  <2>1. msgs' = msgs \cup {msg} /\ UNCHANGED <<clock, members, disk, wrote, restarted, reused>>
    BY <1>2 DEF Send, history
  <2>2. msg \in [to : Node, members : [Member -> Version]] /\ msg.members = members[n]
    BY <1>1 DEF Types
  <2> HIDE DEF msg
  <2>3. Types'
    BY <1>1, <2>1, <2>2 DEF Types
  <2>4. \A m \in Member : \A a \in Records(m)' : a \in Records(m)
    BY <2>1, <2>2 DEF Records
  <2> QED
    BY <1>1, <2>1, <2>3, <2>4 DEF Selects
<1>3. ASSUME NEW n \in Node, SaveSnapshot(n)
      PROVE  Types' /\ Selects
  <2>1. disk' = [disk EXCEPT ![n] = members[n]]
        /\ UNCHANGED <<clock, members, msgs, wrote, restarted, reused>>
    BY <1>3 DEF SaveSnapshot, history
  <2>2. Types'
    BY <1>1, <2>1 DEF Types
  <2>3. \A p \in Node : disk'[p] = disk[p] \/ disk'[p] = members[n]
    BY <1>1, <2>1 DEF Types
  <2>4. \A m \in Member : \A a \in Records(m)' : a \in Records(m)
    BY <2>1, <2>3 DEF Records
  <2> QED
    BY <1>1, <2>1, <2>2, <2>4 DEF Selects
<1>4. ASSUME NEW n \in Node, Restore(n)
      PROVE  Types' /\ Selects
  <2>1. MergeSnapshot(n, disk[n]) /\ UNCHANGED <<disk, msgs, history>>
    BY <1>4 DEF Restore
  <2>2. disk[n] \in [Member -> Version] /\ \A m \in Member : disk[n][m] \in Records(m)
    BY <1>1, RecordsFacts DEF Types
  <2> QED
    BY <2>1, <2>2, MergeSelects
<1>5. ASSUME NEW msg \in msgs, Deliver(msg)
      PROVE  Types' /\ Selects
  <2>1. MergeSnapshot(msg.to, msg.members) /\ msgs' \subseteq msgs /\ disk' = disk /\ UNCHANGED history
    BY <1>5 DEF Deliver
  <2>2. msg.to \in Node /\ msg.members \in [Member -> Version]
        /\ \A m \in Member : msg.members[m] \in Records(m)
    BY <1>1, RecordsFacts DEF Types
  <2> QED
    BY <2>1, <2>2, MergeSelects
<1>6. ASSUME NEW n \in Node, Restart(n)
      PROVE  Types' /\ Selects
  <2>1. /\ members' = [members EXCEPT ![n] = disk[n]]
        /\ clock' = [clock EXCEPT ![n] = IF disk[n] = Nothing THEN 0 ELSE 1]
        /\ restarted' = restarted \cup {n}
        /\ UNCHANGED <<disk, msgs, wrote, reused>>
    BY <1>6 DEF Restart
  <2>2. Types'
    BY <1>1, <2>1 DEF Types
  <2>3. \A p \in Node : members'[p] = members[p] \/ members'[p] = disk[p]
    BY <1>1, <2>1 DEF Types
  <2>4. \A m \in Member : \A a \in Records(m)' : a \in Records(m)
    BY <2>1, <2>3 DEF Records
  <2>5. \A p \in Node \ restarted' : members'[p] = members[p] /\ clock'[p] = clock[p]
    BY <1>1, <2>1 DEF Types
  <2> QED
    BY <1>1, <2>1, <2>2, <2>4, <2>5 DEF Selects
<1>7. ASSUME UNCHANGED vars
      PROVE  Types' /\ Selects
  <2>1. UNCHANGED <<clock, members, disk, msgs, wrote, restarted, reused>>
    BY <1>7 DEF vars, history
  <2>2. Types'
    BY <1>1, <2>1 DEF Types
  <2> QED
    BY <1>1, <2>1, <2>2 DEF Selects, Records
<1>8. ASSUME Types', Selects PROVE IInv'
  BY <1>8, SelectsKeeps DEF IInv
<1> QED
  BY <1>2, <1>3, <1>4, <1>5, <1>6, <1>7, <1>8, CallKeeps DEF Next

LEMMA InitFacts == Init => IInv
<1> SUFFICES ASSUME Init PROVE IInv
  OBVIOUS
<1>1. Types
  BY VersionFacts DEF Init, Types, Nothing
<1>2. \A m \in Member : \A a \in Records(m) : a = Absent
  BY DEF Init, Records, Nothing
<1>3. Unique
  BY <1>2, SortedSetAssumption, VersionFacts DEF Unique
<1>4. LastWord
  <2>1. \A m \in Member : wrote[m].by = {}
    BY DEF Init
  <2> QED
    BY <1>2, <2>1 DEF LastWord
<1> QED
  BY <1>1, <1>3, <1>4 DEF IInv

(* IInv holds of every reachable state.                                    *)
THEOREM Invariance == Spec => []IInv
BY InitFacts, Step, PTL DEF Spec

(* Of two records of a member anywhere in the mesh, one wins or they are   *)
(* the same, as long as no node has written after a restart                *)
(* (sorted_set.go:342).                                                    *)
THEOREM TiesAreEqualHolds == Spec => []TiesAreEqual
<1>1. ASSUME IInv PROVE TiesAreEqual
  <2> SUFFICES ASSUME ~reused, NEW m \in Member, NEW a \in Records(m), NEW b \in Records(m), a # b
               PROVE  Wins(a, b) \/ Wins(b, a)
    BY DEF TiesAreEqual
  <2>1. a.ts # b.ts \/ a.node # b.node
    BY <1>1 DEF IInv, Unique
  <2>2. /\ a.score \in Nat /\ a.ts \in Nat /\ a.node \in Nat
        /\ b.score \in Nat /\ b.ts \in Nat /\ b.node \in Nat
    BY <1>1, RecordsType, VersionFacts DEF IInv
  <2> QED
    BY <2>1, <2>2 DEF Wins
<1> QED
  BY <1>1, Invariance, PTL

(* A lone writer that never lowers a score has the last word on its        *)
(* member, whatever gossip and restores bring (sorted_set.go:241).         *)
THEOREM LastWriteHoldsAlways == Spec => []LastWriteHolds
<1>1. ASSUME IInv PROVE LastWriteHolds
  BY <1>1 DEF IInv, LastWord, LastWriteHolds
<1> QED
  BY <1>1, Invariance, PTL

----------------------------------------------------------------------------
(* The skip lists.  The keys a member map asks for, and a list of them.    *)
KeysOf(records) == {<<records[m].score, m>> : m \in {k \in Member : ~records[k].tomb}}

Holds(sl, records) == IsSkipList(sl) /\ Nodes(sl) = KeysOf(records)

Lists == DOMAIN list = Node /\ \A n \in Node : Holds(list[n], members[n])

LEMMA KeysFacts ==
  ASSUME NEW records
  PROVE  \A x : x \in KeysOf(records) <=>
           \E m \in Member : ~records[m].tomb /\ x = <<records[m].score, m>>
BY DEF KeysOf

LEMMA KeyFacts ==
  ASSUME NEW m \in Member, NEW a \in Version
  PROVE  /\ IsPair(<<a.score, m>>) /\ less(Header, <<a.score, m>>)
         /\ ~a.tomb => IsKey(<<a.score, m>>)
<1>1. m \in Nat /\ m > 0
  BY SortedSetAssumption
<1>2. a.score \in Nat
  BY VersionFacts
<1>3. ~a.tomb => a.score > 0
  BY VersionFacts DEF Version, Absent
<1> QED
  BY <1>1, <1>2, <1>3 DEF IsPair, IsKey, less, Header

(* One member's record is replaced.                                        *)
LEMMA Replaced ==
  ASSUME NEW sl, NEW r, Holds(sl, r), NEW s, NEW m \in Member,
         r[m] \in Version, s[m] \in Version, \A k \in Member : k # m => s[k] = r[k],
         NEW height \in 1 .. MAX_LEVEL
  PROVE  LET gone == Delete(sl, <<r[m].score, m>>)
             key  == <<s[m].score, m>>
         IN  /\ s[m].tomb => Holds(gone, s)
             /\ ~s[m].tomb => Holds(Insert(gone, key, height), s)
             /\ ~s[m].tomb /\ s[m].score = r[m].score => Holds(Insert(sl, key, height), s)
<1> DEFINE old  == <<r[m].score, m>>
           key  == <<s[m].score, m>>
           gone == Delete(sl, old)
<1>1. IsPair(old) /\ less(Header, old) /\ (~s[m].tomb => IsKey(key))
  BY KeyFacts
<1>2. IsSkipList(sl) /\ Nodes(sl) = KeysOf(r)
  BY DEF Holds
<1>3. IsSkipList(gone) /\ Nodes(gone) = Nodes(sl) \ {old}
  BY <1>1, <1>2, DeleteFacts
<1>4. \A x, k : k \in Member /\ k # m /\ x = <<r[k].score, k>> => x # old /\ x # key
  OBVIOUS
<1> HIDE DEF gone
<1>5. \A x : x \in Nodes(gone) <=> \E k \in Member : k # m /\ ~r[k].tomb /\ x = <<r[k].score, k>>
  <2>1. \A x : x \in Nodes(sl) <=> \E k \in Member : ~r[k].tomb /\ x = <<r[k].score, k>>
    BY <1>2, KeysFacts
  <2> QED
    BY <1>3, <1>4, <2>1
<1>6. \A x : x \in KeysOf(s) <=> \E k \in Member : ~s[k].tomb /\ x = <<s[k].score, k>>
  BY KeysFacts
<1>7. \A x : x \in KeysOf(s) <=> x \in Nodes(gone) \/ (~s[m].tomb /\ x = key)
  BY <1>5, <1>6
<1>8. ASSUME s[m].tomb PROVE Holds(gone, s)
  BY <1>3, <1>7, <1>8 DEF Holds
<1>9. ASSUME ~s[m].tomb
      PROVE  Holds(Insert(gone, key, height), s)
  <2>1. IsSkipList(Insert(gone, key, height)) /\ Nodes(Insert(gone, key, height)) = Nodes(gone) \cup {key}
    BY <1>1, <1>3, <1>9, InsertFacts
  <2>2. Nodes(gone) \cup {key} = KeysOf(s)
    BY <1>7, <1>9
  <2> HIDE DEF key
  <2> QED
    BY <2>1, <2>2 DEF Holds
<1>10. ASSUME ~s[m].tomb, s[m].score = r[m].score
       PROVE  Holds(Insert(sl, key, height), s)
  <2>1. IsSkipList(Insert(sl, key, height)) /\ Nodes(Insert(sl, key, height)) = Nodes(sl) \cup {key}
    BY <1>1, <1>2, <1>10, InsertFacts
  <2>2. Nodes(sl) \cup {key} = KeysOf(s)
    BY <1>3, <1>7, <1>10
  <2> HIDE DEF key
  <2> QED
    BY <2>1, <2>2 DEF Holds
<1> QED
  BY <1>8, <1>9, <1>10 DEF gone

----------------------------------------------------------------------------
(* The members a merge has gone through, and the map by then.              *)
Mixed(mine, peer, S) ==
  [m \in Member |-> IF m \in S /\ Wins(peer[m], mine[m]) THEN peer[m] ELSE mine[m]]

LEMMA MemberMerged ==
  ASSUME NEW mine \in [Member -> Version], NEW peer \in [Member -> Version],
         NEW S \in SUBSET Member, NEW m \in S, NEW height \in 1 .. MAX_LEVEL,
         NEW sl, Holds(sl, Mixed(mine, peer, S \ {m}))
  PROVE  Holds(MergeMember(sl, m, mine[m], peer[m], height), Mixed(mine, peer, S))
<1> DEFINE r == Mixed(mine, peer, S \ {m})
           s == Mixed(mine, peer, S)
<1>1. /\ r[m] = mine[m] /\ s[m] = IF Wins(peer[m], mine[m]) THEN peer[m] ELSE mine[m]
      /\ \A k \in Member : k # m => s[k] = r[k]
  BY DEF Mixed
<1>2. r[m] \in Version /\ s[m] \in Version
  BY <1>1
<1>3. CASE Wins(peer[m], mine[m])
  <2>1. s[m] = peer[m]
    BY <1>1, <1>3
  <2> HIDE DEF r, s
  <2>2. LET gone == Delete(sl, <<r[m].score, m>>)
        IN  /\ s[m].tomb => Holds(gone, s)
            /\ ~s[m].tomb => Holds(Insert(gone, <<s[m].score, m>>, height), s)
    BY <1>1, <1>2, Replaced DEF r
  <2>3. Holds(MergeMember(sl, m, mine[m], peer[m], height), s)
    BY <1>1, <1>3, <2>1, <2>2 DEF MergeMember
  <2> QED
    BY <2>3 DEF s
<1>4. CASE ~Wins(peer[m], mine[m])
  <2>1. r = s
    BY <1>4 DEF Mixed
  <2> QED
    BY <1>4, <2>1 DEF MergeMember
<1> QED
  BY <1>3, <1>4

(* The loop: f is the list after each set of members.                      *)
MergedAfter(sl, mine, peer, height, D, f) ==
  f = [S \in D |-> IF S = {} THEN sl
                   ELSE LET m == CHOOSE x \in S : TRUE
                        IN  MergeMember(f[S \ {m}], m, mine[m], peer[m], height[m])]

Small(k) == {S \in SUBSET Member : Cardinality(S) <= k}

LEMMA MembersFacts ==
  /\ \A S \in SUBSET Member : IsFiniteSet(S) /\ Cardinality(S) \in Nat
  /\ \A S \in SUBSET Member : \A m \in S :
       S \ {m} \in SUBSET Member /\ Cardinality(S \ {m}) = Cardinality(S) - 1
  /\ \A S \in SUBSET Member : S # {} => (CHOOSE x \in S : TRUE) \in S
  /\ {} \in SUBSET Member /\ Cardinality({}) = 0
  /\ Member \in SUBSET Member
<1>1. IsFiniteSet(Member)
  BY SortedSetAssumption
<1>2. ASSUME NEW S \in SUBSET Member
      PROVE  IsFiniteSet(S) /\ Cardinality(S) \in Nat
  BY <1>1, FS_Subset, FS_CardinalityType
<1>3. ASSUME NEW S \in SUBSET Member, NEW m \in S
      PROVE  S \ {m} \in SUBSET Member /\ Cardinality(S \ {m}) = Cardinality(S) - 1
  BY <1>2, FS_RemoveElement
<1>4. {} \in SUBSET Member /\ Cardinality({}) = 0
  BY FS_EmptySet
<1> QED
  BY <1>2, <1>3, <1>4

(* There is such a function, and the merged list is its last value.        *)
LEMMA MergedRuns ==
  ASSUME NEW sl, NEW mine, NEW peer, NEW height
  PROVE  \E f : /\ MergedAfter(sl, mine, peer, height, SUBSET Member, f)
                /\ MergedList(sl, mine, peer, height) = f[Member]
<1> DEFINE pick(S) == CHOOSE x \in S : TRUE
           turn(S, rest) == MergeMember(rest, pick(S), mine[pick(S)], peer[pick(S)], height[pick(S)])
           Goes(k) == \E f : MergedAfter(sl, mine, peer, height, Small(k), f)
<1>1. \A S \in SUBSET Member : /\ Cardinality(S) \in Nat
                               /\ S # {} => /\ S \ {pick(S)} \in SUBSET Member
                                            /\ Cardinality(S \ {pick(S)}) = Cardinality(S) - 1
  BY MembersFacts
<1>2. \A D, f : MergedAfter(sl, mine, peer, height, D, f) <=>
        f = [S \in D |-> IF S = {} THEN sl ELSE turn(S, f[S \ {pick(S)}])]
  BY DEF MergedAfter
<1> HIDE DEF pick, turn
<1>3. Goes(0)
  <2> DEFINE f == [S \in Small(0) |-> sl]
  <2>1. \A S \in Small(0) : S = {}
    <3>1. ASSUME NEW S \in SUBSET Member, Cardinality(S) <= 0, S # {} PROVE FALSE
      <4>1. Cardinality(S \ {pick(S)}) = Cardinality(S) - 1 /\ Cardinality(S \ {pick(S)}) \in Nat
        BY <1>1, <3>1
      <4> QED
        BY <1>1, <3>1, <4>1
    <3> QED
      BY <3>1 DEF Small
  <2>2. f = [S \in Small(0) |-> IF S = {} THEN sl ELSE turn(S, f[S \ {pick(S)}])]
    BY <2>1
  <2> HIDE DEF f
  <2> QED
    BY <1>2, <2>2
<1>4. ASSUME NEW k \in Nat, Goes(k)
      PROVE  Goes(k + 1)
  <2>1. PICK f : MergedAfter(sl, mine, peer, height, Small(k), f)
    BY <1>4
  <2>2. f = [S \in Small(k) |-> IF S = {} THEN sl ELSE turn(S, f[S \ {pick(S)}])]
    BY <1>2, <2>1
  <2> DEFINE g == [S \in Small(k + 1) |-> IF S \in Small(k) THEN f[S] ELSE turn(S, f[S \ {pick(S)}])]
  <2>3. ASSUME NEW S \in Small(k + 1)
        PROVE  g[S] = IF S = {} THEN sl ELSE turn(S, g[S \ {pick(S)}])
    <3>1. S \in SUBSET Member /\ Cardinality(S) <= k + 1
      BY DEF Small
    <3>2. CASE S = {}
      <4>1. S \in Small(k)
        BY <3>2, MembersFacts DEF Small
      <4> QED
        BY <2>2, <3>2, <4>1
    <3>3. CASE S # {}
      <4>1. S \ {pick(S)} \in Small(k)
        BY <1>1, <3>1, <3>3 DEF Small
      <4>2. S \ {pick(S)} \in Small(k + 1)
        BY <1>1, <4>1 DEF Small
      <4>3. g[S \ {pick(S)}] = f[S \ {pick(S)}]
        BY <4>1, <4>2
      <4>4. S \in Small(k) => f[S] = turn(S, f[S \ {pick(S)}])
        BY <2>2, <3>3
      <4>5. g[S] = turn(S, f[S \ {pick(S)}])
        BY <4>4
      <4> HIDE DEF g
      <4> QED
        BY <3>3, <4>3, <4>5
    <3> QED
      BY <3>2, <3>3
  <2>4. g = [S \in Small(k + 1) |-> g[S]]
    OBVIOUS
  <2> HIDE DEF g
  <2>5. g = [S \in Small(k + 1) |-> IF S = {} THEN sl ELSE turn(S, g[S \ {pick(S)}])]
    BY <2>3, <2>4
  <2> QED
    BY <1>2, <2>5
<1>5. Goes(Cardinality(Member))
  <2> DEFINE T == {k \in Nat : ~Goes(k)}
  <2> SUFFICES ASSUME T # {} PROVE FALSE
    BY MembersFacts
  <2> HIDE DEF Goes
  <2>1. PICK k \in T : \A l \in T : k <= l
    BY Least
  <2>2. k \in Nat /\ k # 0
    BY <1>3
  <2>3. k - 1 \in Nat /\ k - 1 \notin T
    BY <2>1, <2>2
  <2>4. Goes((k - 1) + 1)
    BY <1>4, <2>3
  <2>5. (k - 1) + 1 = k
    BY <2>2
  <2> QED
    BY <2>4, <2>5
<1>6. Small(Cardinality(Member)) = SUBSET Member
  <2>1. \A S \in SUBSET Member : Cardinality(S) <= Cardinality(Member)
    BY SortedSetAssumption, FS_Subset
  <2> QED
    BY <2>1 DEF Small
<1> DEFINE merged == CHOOSE f : MergedAfter(sl, mine, peer, height, SUBSET Member, f)
<1>7. MergedAfter(sl, mine, peer, height, SUBSET Member, merged)
  BY <1>5, <1>6
<1>8. MergedList(sl, mine, peer, height) = merged[Member]
  BY DEF MergedList, MergedAfter
<1> HIDE DEF merged
<1> QED
  BY <1>7, <1>8

(* A merge into a set whose list agrees leaves it agreeing.                *)
LEMMA MergedFacts ==
  ASSUME NEW mine \in [Member -> Version], NEW peer \in [Member -> Version],
         NEW height \in [Member -> 1 .. MAX_LEVEL], NEW sl, Holds(sl, mine)
  PROVE  Holds(MergedList(sl, mine, peer, height), MergedMap(mine, peer))
<1>1. PICK f : /\ MergedAfter(sl, mine, peer, height, SUBSET Member, f)
               /\ MergedList(sl, mine, peer, height) = f[Member]
  BY MergedRuns
<1> DEFINE Good(S) == Holds(f[S], Mixed(mine, peer, S))
           T == {k \in Nat : \E S \in SUBSET Member : k = Cardinality(S) /\ ~Good(S)}
<1>2. ASSUME NEW S \in SUBSET Member, S = {}
      PROVE  Good(S)
  <2>1. f[S] = sl
    BY <1>1, <1>2 DEF MergedAfter
  <2>2. Mixed(mine, peer, S) = mine
    BY <1>2 DEF Mixed
  <2> QED
    BY <2>1, <2>2
<1>3. ASSUME NEW S \in SUBSET Member, S # {}, \A m \in S : Good(S \ {m})
      PROVE  Good(S)
  <2> DEFINE m == CHOOSE x \in S : TRUE
  <2>1. f[S] = MergeMember(f[S \ {m}], m, mine[m], peer[m], height[m])
    BY <1>1, <1>3 DEF MergedAfter
  <2>2. m \in S
    BY <1>3
  <2> HIDE DEF m
  <2>3. height[m] \in 1 .. MAX_LEVEL /\ Holds(f[S \ {m}], Mixed(mine, peer, S \ {m}))
    BY <1>3, <2>2
  <2> QED
    BY <2>1, <2>2, <2>3, MemberMerged
<1> HIDE DEF Good
<1>4. T = {}
  <2> SUFFICES ASSUME T # {} PROVE FALSE
    OBVIOUS
  <2>1. PICK k \in T : \A l \in T : k <= l
    BY Least
  <2>2. PICK S \in SUBSET Member : k = Cardinality(S) /\ ~Good(S)
    BY <2>1
  <2>3. S # {}
    BY <1>2, <2>2
  <2>4. PICK m \in S : ~Good(S \ {m})
    BY <1>3, <2>2, <2>3
  <2>5. S \ {m} \in SUBSET Member /\ Cardinality(S \ {m}) = Cardinality(S) - 1
    BY <2>4, MembersFacts
  <2>6. Cardinality(S \ {m}) \in Nat /\ Cardinality(S) \in Nat
    BY <2>5, MembersFacts
  <2>7. Cardinality(S \ {m}) \in T
    BY <2>4, <2>5, <2>6
  <2>8. Cardinality(S) <= Cardinality(S \ {m})
    BY <2>1, <2>2, <2>7
  <2> HIDE DEF T
  <2> QED
    BY <2>5, <2>6, <2>8
<1>5. Good(Member)
  BY <1>4, MembersFacts
<1>6. Mixed(mine, peer, Member) = MergedMap(mine, peer)
  BY DEF Mixed, MergedMap
<1> QED
  BY <1>1, <1>5, <1>6 DEF Good

----------------------------------------------------------------------------
(* The lists at every step.                                                *)
LEMMA ListReplaced ==
  ASSUME Types, Lists, NEW n \in Node, NEW sl, NEW map \in [Member -> Version], Holds(sl, map),
         list' = [list EXCEPT ![n] = sl], members' = [members EXCEPT ![n] = map]
  PROVE  Lists'
<1>1. members \in [Node -> [Member -> Version]] /\ DOMAIN list = Node
  BY DEF Types, Lists
<1>2. /\ DOMAIN list' = Node /\ list'[n] = sl /\ members'[n] = map
      /\ \A p \in Node : p # n => list'[p] = list[p] /\ members'[p] = members[p]
  BY <1>1
<1>3. \A p \in Node : Holds(list'[p], members'[p])
  BY <1>2 DEF Lists
<1> QED
  BY <1>2, <1>3 DEF Lists

LEMMA WriteLists ==
  ASSUME Types, Lists, NEW n \in Node, NEW m \in Member, NEW r \in Record, Write(n, m, r),
         NEW height \in 1 .. MAX_LEVEL,
         LET gone == Delete(list[n], <<members[n][m].score, m>>)
             key  == <<r.score, m>>
         IN  \/ r.tomb /\ list' = [list EXCEPT ![n] = gone]
             \/ ~r.tomb /\ list' = [list EXCEPT ![n] = Insert(gone, key, height)]
             \/ /\ ~r.tomb /\ r.score = members[n][m].score
                /\ list' = [list EXCEPT ![n] = Insert(list[n], key, height)]
  PROVE  Lists'
<1> DEFINE map == [members[n] EXCEPT ![m] = r]
           gone == Delete(list[n], <<members[n][m].score, m>>)
           put(sl) == Insert(sl, <<r.score, m>>, height)
<1>1. members[n] \in [Member -> Version] /\ r \in Version /\ Holds(list[n], members[n])
  BY DEF Types, Lists, Version
<1>2. map \in [Member -> Version] /\ map[m] = r /\ \A k \in Member : k # m => map[k] = members[n][k]
  BY <1>1
<1>3. members' = [members EXCEPT ![n] = map]
  <2>1. members' = [members EXCEPT ![n][m] = r]
    BY DEF Write
  <2> QED
    BY <2>1 DEF Types
<1> HIDE DEF map
<1>4. /\ r.tomb => Holds(gone, map)
      /\ ~r.tomb => Holds(put(gone), map)
      /\ ~r.tomb /\ r.score = members[n][m].score => Holds(put(list[n]), map)
  <2>1. members[n][m] \in Version /\ map[m] \in Version
    BY <1>1, <1>2
  <2> QED
    BY <1>1, <1>2, <2>1, Replaced
<1>5. \/ r.tomb /\ list' = [list EXCEPT ![n] = gone]
      \/ ~r.tomb /\ list' = [list EXCEPT ![n] = put(gone)]
      \/ /\ ~r.tomb /\ r.score = members[n][m].score
         /\ list' = [list EXCEPT ![n] = put(list[n])]
  OBVIOUS
<1> HIDE DEF gone, put
<1>6. PICK sl : Holds(sl, map) /\ list' = [list EXCEPT ![n] = sl]
  BY <1>4, <1>5
<1> QED
  BY <1>2, <1>3, <1>6, ListReplaced

LEMMA MergeLists ==
  ASSUME Types, Lists, NEW n \in Node, NEW peer \in [Member -> Version], MergeSnapshot(n, peer)
  PROVE  Lists'
<1>1. members[n] \in [Member -> Version] /\ Holds(list[n], members[n])
  BY DEF Types, Lists
<1>2. PICK height \in [Member -> 1 .. MAX_LEVEL] :
        list' = [list EXCEPT ![n] = MergedList(list[n], members[n], peer, height)]
  BY DEF MergeSnapshot
<1> DEFINE sl  == MergedList(list[n], members[n], peer, height)
           map == MergedMap(members[n], peer)
<1>3. members' = [members EXCEPT ![n] = map]
  BY DEF MergeSnapshot
<1>4. map \in [Member -> Version]
  BY <1>1 DEF MergedMap
<1>5. Holds(sl, map)
  BY <1>1, MergedFacts
<1> HIDE DEF sl, map
<1>6. list' = [list EXCEPT ![n] = sl]
  BY <1>2 DEF sl
<1> QED
  BY <1>3, <1>4, <1>5, <1>6, ListReplaced

LEMMA RestartLists ==
  ASSUME Types, Lists, NEW n \in Node, Restart(n)
  PROVE  Lists'
<1>1. disk[n] \in [Member -> Version] /\ Nothing \in [Member -> Version]
  BY VersionFacts DEF Types, Nothing
<1>2. PICK height \in [Member -> 1 .. MAX_LEVEL] :
        list' = [list EXCEPT ![n] = MergedList(NewSkipList, Nothing, disk[n], height)]
  BY DEF Restart
<1> DEFINE sl == MergedList(NewSkipList, Nothing, disk[n], height)
<1>3. Holds(NewSkipList, Nothing)
  <2>1. \A m \in Member : Nothing[m].tomb
    BY DEF Nothing, Absent
  <2>2. \A x : x \notin KeysOf(Nothing)
    BY <2>1, KeysFacts
  <2> QED
    BY <2>2, NewFacts DEF Holds
<1>4. Holds(sl, MergedMap(Nothing, disk[n]))
  BY <1>1, <1>3, MergedFacts
<1>5. MergedMap(Nothing, disk[n]) = disk[n]
  <2>1. ASSUME NEW m \in Member
        PROVE  disk[n][m] = IF Wins(disk[n][m], Nothing[m]) THEN disk[n][m] ELSE Nothing[m]
    <3>1. disk[n][m] \in Record \/ disk[n][m] = Absent
      BY <1>1 DEF Version
    <3>2. Nothing[m] = Absent
      BY DEF Nothing
    <3>3. disk[n][m] \in Record => Wins(disk[n][m], Absent)
      BY VersionFacts DEF Wins
    <3> QED
      BY <3>1, <3>2, <3>3
  <2> QED
    BY <1>1, <2>1 DEF MergedMap
<1>6. members' = [members EXCEPT ![n] = disk[n]]
  BY DEF Restart
<1> HIDE DEF sl
<1>7. list' = [list EXCEPT ![n] = sl]
  BY <1>2 DEF sl
<1> QED
  BY <1>1, <1>4, <1>5, <1>6, <1>7, ListReplaced

LEMMA ListsStep == Types /\ Lists /\ [Next]_vars => Lists'
<1> SUFFICES ASSUME Types, Lists, [Next]_vars PROVE Lists'
  OBVIOUS
<1>1. ASSUME NEW n \in Node, NEW m \in Member, NEW score \in Score, NEW height \in 1 .. MAX_LEVEL,
             Add(n, m, score, height)
      PROVE  Lists'
  <2> DEFINE r == [score |-> score, ts |-> clock[n] + 1, node |-> n, tomb |-> FALSE]
             without == IF members[n][m].score = score THEN list[n]
                        ELSE Delete(list[n], <<members[n][m].score, m>>)
  <2>1. clock[n] + 1 \in Nat \ {0}
    BY DEF Types
  <2>2. r \in Record /\ ~r.tomb /\ r.score = score
    BY <2>1 DEF Record
  <2>3. Write(n, m, r) /\ list' = [list EXCEPT ![n] = Insert(without, <<score, m>>, height)]
    BY <1>1 DEF Add, AddTo
  <2> HIDE DEF r
  <2> QED
    BY <2>2, <2>3, WriteLists
<1>2. ASSUME NEW n \in Node, NEW m \in Member, Remove(n, m)
      PROVE  Lists'
  <2> DEFINE r == [score |-> members[n][m].score, ts |-> clock[n] + 1, node |-> n, tomb |-> TRUE]
  <2>1. clock[n] + 1 \in Nat \ {0} /\ members[n][m] \in Version
    BY DEF Types
  <2>2. members[n][m].score \in Score
    BY <1>2, <2>1 DEF Remove, RemoveAt, Version, Record
  <2>3. r \in Record /\ r.tomb
    BY <2>1, <2>2 DEF Record
  <2>4. Write(n, m, r) /\ list' = [list EXCEPT ![n] = Delete(list[n], <<members[n][m].score, m>>)]
    BY <1>2 DEF Remove, RemoveAt
  <2>5. 1 \in 1 .. MAX_LEVEL
    BY LevelAssumption
  <2> HIDE DEF r
  <2> QED
    BY <2>3, <2>4, <2>5, WriteLists
<1>3. ASSUME NEW n \in Node, Restore(n)
      PROVE  Lists'
  <2>1. MergeSnapshot(n, disk[n]) /\ disk[n] \in [Member -> Version]
    BY <1>3 DEF Restore, Types
  <2> QED
    BY <2>1, MergeLists
<1>4. ASSUME NEW msg \in msgs, Deliver(msg)
      PROVE  Lists'
  <2>1. MergeSnapshot(msg.to, msg.members) /\ msg.to \in Node /\ msg.members \in [Member -> Version]
    BY <1>4 DEF Deliver, Types
  <2> QED
    BY <2>1, MergeLists
<1>5. ASSUME UNCHANGED <<list, members>> PROVE Lists'
  BY <1>5 DEF Lists
<1>6. ASSUME NEW n \in Node, NEW p \in Node, Send(n, p) PROVE Lists'
  BY <1>5, <1>6 DEF Send
<1>7. ASSUME NEW n \in Node, SaveSnapshot(n) PROVE Lists'
  BY <1>5, <1>7 DEF SaveSnapshot
<1>8. ASSUME UNCHANGED vars PROVE Lists'
  BY <1>5, <1>8 DEF vars
<1> QED
  BY <1>1, <1>2, <1>3, <1>4, <1>6, <1>7, <1>8, RestartLists DEF Next

(* Every list is a skip list of the live members of its node.              *)
THEOREM ListsInvariance == Spec => []Lists
<1>1. Init => Lists
  <2> SUFFICES ASSUME Init PROVE Lists
    OBVIOUS
  <2>1. Holds(NewSkipList, Nothing)
    <3>1. \A m \in Member : Nothing[m].tomb
      BY DEF Nothing, Absent
    <3>2. \A x : x \notin KeysOf(Nothing)
      BY <3>1, KeysFacts
    <3> QED
      BY <3>2, NewFacts DEF Holds
  <2> QED
    BY <2>1 DEF Init, Lists
<1>2. IInv => Types
  BY DEF IInv
<1> QED
  BY <1>1, <1>2, ListsStep, Invariance, PTL DEF Spec

----------------------------------------------------------------------------
(* Every variable of a sorted set has values of its type, the skip lists'  *)
(* fields too (sorted_set.go).                                             *)
THEOREM TypeCorrect == Spec => []TypeOK
<1>1. ASSUME Types, Lists PROVE TypeOK
  <2>1. /\ clock \in [Node -> Nat]
        /\ \A n \in Node : members[n] \in [Member -> Version] /\ disk[n] \in [Member -> Version]
        /\ \A msg \in msgs : msg.to \in Node /\ msg.members \in [Member -> Version]
    BY <1>1 DEF Types
  <2>2. ASSUME NEW n \in Node
        PROVE  /\ Nodes(list[n]) \subseteq Score \X Member
               /\ list[n].level \in 1 .. MAX_LEVEL
               /\ list[n].length \in Nat
               /\ list[n].tail \in Nodes(list[n]) \cup {Nil, Header}
    <3> DEFINE sl == list[n]
    <3>1. IsSkipList(sl) /\ Nodes(sl) = KeysOf(members[n])
      BY <1>1 DEF Lists, Holds
    <3> HIDE DEF sl
    <3>2. sl.level \in 1 .. MAX_LEVEL /\ sl.length \in Nat
      BY <3>1, PosFacts DEF IsSkipList, Shaped
    <3>3. sl.tail \in Nodes(sl) \cup {Nil, Header}
      BY <3>1 DEF IsSkipList, Ended
    <3>4. ASSUME NEW x \in Nodes(sl) PROVE x \in Score \X Member
      <4>1. PICK m \in Member : ~members[n][m].tomb /\ x = <<members[n][m].score, m>>
        BY <3>1, KeysFacts
      <4>2. members[n][m] \in Version
        BY <2>1
      <4>3. members[n][m].score \in Score
        BY <4>1, <4>2 DEF Version, Record, Absent
      <4> QED
        BY <4>1, <4>3
    <3> QED
      BY <3>2, <3>3, <3>4 DEF sl
  <2> QED
    BY <2>1, <2>2, Zenon DEF TypeOK, Version
<1>2. IInv => Types
  BY DEF IInv
<1> QED
  BY <1>1, <1>2, Invariance, ListsInvariance, PTL

(* What is not a tombstone stays in an answer.                             *)
LEMMA AnswerFacts ==
  ASSUME NEW n, NEW N, NEW s \in Seq(N), \A x \in N : ~members[n][x[2]].tomb
  PROVE  Answer(n, s) = s
<1> DEFINE shown == {i \in DOMAIN s : ~members[n][s[i][2]].tomb}
           before(i) == {k \in shown : k <= i}
           upTo(i) == Cardinality(before(i))
           L == Len(s)
<1>1. L \in Nat /\ s \in [1 .. L -> N] /\ DOMAIN s = 1 .. L
  OBVIOUS
<1>2. shown = 1 .. L
  BY <1>1
<1>3. \A k \in Nat : Cardinality(1 .. k) = k
  <2> SUFFICES ASSUME NEW k \in Nat PROVE Cardinality(1 .. k) = k
    OBVIOUS
  <2>1. 1 \in Int /\ k \in Int
    OBVIOUS
  <2>2. Cardinality(1 .. k) = IF 1 > k THEN 0 ELSE k - 1 + 1
    BY <2>1, FS_Interval
  <2> QED
    BY <2>2
<1>4. ASSUME NEW i \in 1 .. L PROVE upTo(i) = i
  <2>1. before(i) = 1 .. i
    BY <1>1, <1>2
  <2> HIDE DEF before
  <2> QED
    BY <1>1, <1>3, <2>1
<1>5. Cardinality(shown) = L
  BY <1>1, <1>2, <1>3
<1> DEFINE pick(j) == CHOOSE i \in shown : upTo(i) = j
<1>6. Answer(n, s) = [j \in 1 .. Cardinality(shown) |-> s[pick(j)]]
  BY DEF Answer
<1> HIDE DEF shown, before, upTo
<1>7. \A j \in 1 .. L : pick(j) = j
  <2> SUFFICES ASSUME NEW j \in 1 .. L PROVE pick(j) = j
    OBVIOUS
  <2>1. pick(j) \in shown /\ upTo(pick(j)) = j
    BY <1>2, <1>4
  <2> HIDE DEF pick
  <2> QED
    BY <1>2, <1>4, <2>1
<1> HIDE DEF pick
<1>8. Answer(n, s) = [j \in 1 .. L |-> s[j]]
  BY <1>5, <1>6, <1>7
<1> QED
  BY <1>1, <1>8

(* The keys of some scores in order are a window of all of them.           *)
LEMMA InOrderFacts ==
  ASSUME NEW N, IsKeys(N)
  PROVE  InOrder(N) = Window(N, 0, Cardinality(N))
<1>1. Cardinality(N) \in Nat
  BY PosFacts
<1>2. InOrder(N) = [j \in 1 .. Cardinality(N) |-> Nth(N, j)]
  BY DEF InOrder, Nth, Pos, UpTo
<1>3. \A j \in 1 .. Cardinality(N) : 0 + j = j
  BY <1>1
<1> QED
  BY <1>2, <1>3 DEF Window

LEMMA ScoresInOrder ==
  ASSUME NEW N, IsKeys(N), NEW min \in Nat, NEW max \in Nat, min <= max
  PROVE  LET shown == InOrder({x \in N : x[1] \in min .. max})
             a == Cardinality(Below(N, min))
             b == Cardinality(NotAbove(N, max))
         IN  /\ shown = Window(N, a, b - a) /\ Len(shown) = b - a
             /\ Reversed(shown) = Down(N, b, b - a)
<1> DEFINE R == Scored(N, min, max)
           a == Cardinality(Below(N, min))
           b == Cardinality(NotAbove(N, max))
           len == b - a
           shown == InOrder({x \in N : x[1] \in min .. max})
<1>1. shown = InOrder(R)
  BY DEF Scored
<1>2. IsKeys(R) /\ Cardinality(R) = b - a /\ \A j \in 1 .. b - a : Nth(R, j) = Nth(N, a + j)
  BY ScoredFacts
<1>3. a \in Nat /\ b \in Nat /\ a <= b /\ b <= Cardinality(N)
  BY ScoreFacts
<1> HIDE DEF shown, R, a, b
<1>4. len \in Nat /\ a + len = b /\ len = b - a
  BY <1>3
<1> HIDE DEF len
<1>5. shown = Window(R, 0, len)
  BY <1>1, <1>2, <1>4, InOrderFacts
<1>6. shown = Window(N, a, len)
  <2>1. \A j \in 1 .. len : Nth(R, 0 + j) = Nth(N, a + j)
    BY <1>2, <1>4
  <2> QED
    BY <1>5, <2>1 DEF Window
<1>7. Len(shown) = len /\ DOMAIN shown = 1 .. len /\ \A j \in 1 .. len : shown[j] = Nth(N, a + j)
  BY <1>4, <1>6 DEF Window
<1>8. Reversed(shown) = Down(N, b, len)
  <2>1. \A j \in 1 .. len : len + 1 - j \in 1 .. len /\ a + (len + 1 - j) = b + 1 - j
    BY <1>3, <1>4
  <2>2. \A j \in 1 .. len : shown[len + 1 - j] = Nth(N, b + 1 - j)
    BY <1>7, <2>1
  <2> QED
    BY <1>7, <2>2 DEF Reversed, Down
<1> QED
  BY <1>4, <1>6, <1>7, <1>8 DEF shown, a, b

(* The keys of the live members are the nodes of the list.                 *)
LEMMA KeysAreNodes ==
  ASSUME NEW n, Holds(list[n], members[n])
  PROVE  /\ Keys(n) = Nodes(list[n]) /\ IsSkipList(list[n]) /\ IsKeys(Keys(n))
         /\ \A m \in Live(n) : Key(n, m) \in Keys(n)
         /\ \A x \in Keys(n) : x[2] \in Live(n) /\ x = Key(n, x[2])
<1>1. \A x : x \in Keys(n) <=> \E m \in Live(n) : x = Key(n, m)
  BY DEF Keys
<1>2. \A m : m \in Live(n) <=> m \in Member /\ ~members[n][m].tomb
  BY DEF Live
<1>3. \A m : Key(n, m) = <<members[n][m].score, m>> /\ Key(n, m)[2] = m
  BY DEF Key
<1>4. Keys(n) = KeysOf(members[n])
  <2>1. \A x : x \in KeysOf(members[n]) <=>
          \E m \in Member : ~members[n][m].tomb /\ x = <<members[n][m].score, m>>
    BY KeysFacts
  <2>2. \A x : x \in Keys(n) <=> x \in KeysOf(members[n])
    BY <1>1, <1>2, <1>3, <2>1
  <2> QED
    BY <2>2
<1>5. IsSkipList(list[n]) /\ Nodes(list[n]) = KeysOf(members[n])
  BY DEF Holds
<1>6. IsKeys(Keys(n))
  BY <1>4, <1>5 DEF IsSkipList, Shaped
<1>7. \A x \in Keys(n) : x[2] \in Live(n) /\ x = Key(n, x[2])
  BY <1>1, <1>3
<1> QED
  BY <1>1, <1>4, <1>5, <1>6, <1>7

LEMMA CountsAgree ==
  ASSUME NEW n, Holds(list[n], members[n])
  PROVE  ZCard(n) = list[n].length /\ Cardinality(Keys(n)) = list[n].length
<1> DEFINE f == [x \in Keys(n) |-> x[2]]
<1>1. /\ Keys(n) = Nodes(list[n]) /\ IsSkipList(list[n]) /\ IsFiniteSet(Keys(n))
      /\ \A m \in Live(n) : Key(n, m) \in Keys(n) /\ Key(n, m)[2] = m
      /\ \A x \in Keys(n) : x[2] \in Live(n) /\ x = Key(n, x[2])
  BY KeysAreNodes DEF IsKeys, Key
<1>2. f \in [Keys(n) -> Live(n)]
  BY <1>1
<1>3. f \in Injection(Keys(n), Live(n))
  BY <1>1, <1>2 DEF Injection, IsInjective
<1>4. f \in Surjection(Keys(n), Live(n))
  <2>1. \A m \in Live(n) : Key(n, m) \in Keys(n) /\ f[Key(n, m)] = m
    BY <1>1
  <2> HIDE DEF f
  <2> QED
    BY <1>2, <2>1 DEF Surjection
<1> HIDE DEF f
<1>5. Cardinality(Live(n)) = Cardinality(Keys(n))
  BY <1>1, <1>3, <1>4, FS_Surjection
<1>6. list[n].length = Cardinality(Nodes(list[n]))
  BY <1>1 DEF IsSkipList, Shaped
<1> QED
  BY <1>1, <1>5, <1>6 DEF ZCard

LEMMA ScoreQueries ==
  ASSUME NEW n, Holds(list[n], members[n]),
         NEW min \in Nat, NEW max \in Nat, min <= max
  PROVE  LET shown == InOrder({x \in Keys(n) : x[1] \in min .. max})
         IN  /\ \A limit \in Nat :
                  /\ ZRange(n, min, max, limit) = Prefix(shown, limit)
                  /\ ZRevRange(n, max, min, limit) = Prefix(Reversed(shown), limit)
             /\ Count(list[n], min, max) = Len(shown)
<1> DEFINE N  == Keys(n)
           sl == list[n]
           a  == Cardinality(Below(N, min))
           b  == Cardinality(NotAbove(N, max))
           len == b - a
           shown == InOrder({x \in N : x[1] \in min .. max})
<1>1. /\ N = Nodes(sl) /\ IsSkipList(sl) /\ IsKeys(N)
      /\ \A x \in N : ~members[n][x[2]].tomb
  BY KeysAreNodes DEF Live
<1>2. a \in Nat /\ b \in Nat /\ a <= b /\ b <= Cardinality(N) /\ Cardinality(N) \in Nat
  BY <1>1, ScoreFacts
<1>3. shown = Window(N, a, len) /\ Len(shown) = len /\ Reversed(shown) = Down(N, b, len)
  BY <1>1, ScoresInOrder
<1>4. \A limit \in Nat :
        /\ RangeByScore(sl, min, max, limit) = Window(N, a, Lesser(limit, len))
        /\ RangeDesc(sl, min, max, limit) = Down(N, b, Lesser(limit, len))
  BY <1>1, RangeFacts, RangeDescFacts
<1>5. sl.length = Cardinality(N)
  BY CountsAgree
<1> HIDE DEF N, sl, a, b, shown
<1>6. len \in Nat /\ a + len <= Cardinality(N) /\ len <= b /\ len <= Cardinality(N)
  BY <1>2
<1> HIDE DEF len
<1>7. ASSUME NEW limit \in Nat
      PROVE  /\ Answer(n, RangeByScore(sl, min, max, limit)) = Prefix(shown, limit)
             /\ Answer(n, RangeDesc(sl, min, max, limit)) = Prefix(Reversed(shown), limit)
  <2> DEFINE k == Lesser(limit, len)
  <2>1. k \in Nat /\ k <= len
    BY <1>6 DEF Lesser
  <2>2. a + k <= Cardinality(N) /\ k <= b
    BY <1>2, <1>6, <2>1
  <2>3. /\ Prefix(Window(N, a, len), limit) = Window(N, a, k)
        /\ Prefix(Down(N, b, len), limit) = Down(N, b, k)
    BY <1>1, <1>2, <1>6, PrefixFacts
  <2> HIDE DEF k
  <2>4. Window(N, a, k) \in Seq(N) /\ Down(N, b, k) \in Seq(N)
    BY <1>1, <1>2, <2>1, <2>2, WindowFacts, DownFacts
  <2>5. Answer(n, Window(N, a, k)) = Window(N, a, k) /\ Answer(n, Down(N, b, k)) = Down(N, b, k)
    BY <1>1, <2>4, AnswerFacts
  <2>6. RangeByScore(sl, min, max, limit) = Window(N, a, k)
        /\ RangeDesc(sl, min, max, limit) = Down(N, b, k)
    BY <1>4 DEF k
  <2> QED
    BY <1>3, <2>3, <2>5, <2>6
<1>8. Count(sl, min, max) = Len(shown)
  <2>1. Lesser(sl.length, len) = len
    BY <1>2, <1>5, <1>6 DEF Lesser
  <2>2. sl.length \in Nat
    BY <1>2, <1>5
  <2>3. RangeByScore(sl, min, max, sl.length) = shown
    BY <1>3, <1>4, <2>1, <2>2
  <2> QED
    BY <2>3 DEF Count
<1> QED
  BY <1>7, <1>8 DEF ZRange, ZRevRange, sl, shown, N

LEMMA RankQueries ==
  ASSUME NEW n, Holds(list[n], members[n]), NEW start \in Nat, NEW stop \in Nat
  PROVE  LET all == InOrder(Keys(n))
         IN  ZRangeByRank(n, start, stop) =
               SubSeq(all, start + 1, IF stop < Len(all) THEN stop + 1 ELSE Len(all))
<1> DEFINE N   == Keys(n)
           all == InOrder(N)
           end == IF stop < Len(all) THEN stop + 1 ELSE Len(all)
           s   == SubSeq(all, start + 1, end)
<1>1. /\ N = Nodes(list[n]) /\ IsSkipList(list[n]) /\ IsKeys(N)
      /\ \A x \in N : ~members[n][x[2]].tomb
  BY KeysAreNodes DEF Live
<1>2. all = Window(N, 0, Cardinality(N)) /\ GetAll(list[n]) = all
  BY <1>1, InOrderFacts, AllFacts
<1>3. RangeByRank(list[n], start, stop) = s
  BY <1>2 DEF RangeByRank
<1>4. all \in Seq(N)
  <2> DEFINE c == Cardinality(N)
  <2>1. c \in Nat
    BY <1>1, PosFacts
  <2>2. 0 \in Nat /\ 0 + c <= c
    BY <2>1
  <2> HIDE DEF N
  <2>3. Window(N, 0, c) \in Seq(N)
    BY <1>1, <2>1, <2>2, WindowFacts
  <2> QED
    BY <1>2, <2>3
<1> HIDE DEF all, N
<1>5. s \in Seq(N)
  <2>1. start + 1 \in Nat /\ start + 1 >= 1 /\ end \in Nat /\ end <= Len(all)
    BY <1>4
  <2> HIDE DEF end
  <2>2. \A i \in start + 1 .. end : all[i] \in N
    BY <1>4, <2>1
  <2> QED
    BY <2>1, <2>2, SubSeqProperties
<1>6. Answer(n, s) = s
  BY <1>1, <1>5, AnswerFacts
<1> QED
  BY <1>3, <1>6 DEF ZRangeByRank, all, N

----------------------------------------------------------------------------
(* The rank of a key that is there is the number of keys before it.        *)
LEMMA RankFacts ==
  ASSUME NEW sl, IsSkipList(sl), NEW key \in Nodes(sl)
  PROVE  Rank(sl, key) = Pos(Nodes(sl), key) - 1
<1> DEFINE B == {x \in Nodes(sl) : x = key \/ less(x, key)}
<1>1. Shaped(sl) /\ Linked(sl) /\ Measured(sl)
  BY DEF IsSkipList
<1>2. IsKey(key) /\ \A x \in Nodes(sl) : IsPair(x) /\ 1 \in Level(sl, x)
  BY <1>1, ShapeFacts DEF Shaped, IsKeys
<1>3. IsPair(key) /\ less(Header, key) /\ IsPair(Header)
  BY <1>2, OrderFacts
<1>4. IsFirstPart(sl, B)
  BY <1>2, OrderFacts DEF IsFirstPart
<1>5. 1 \in 1 .. MAX_LEVEL
  BY LevelAssumption
<1> DEFINE at == Descent(sl, B)[1]
<1>6. /\ at.node \in B \cup {Header}
      /\ \A z \in B : 1 \in Level(sl, z) => z = at.node \/ less(z, at.node)
      /\ at.rank = Pos(Nodes(sl), at.node)
  BY <1>1, <1>4, <1>5, DescentFacts
<1>7. Rank(sl, key) = at.rank - 1
  BY DEF Rank
<1> HIDE DEF at
<1>8. at.node = key
  <2>1. key \in B /\ (key = at.node \/ less(key, at.node))
    BY <1>2, <1>6
  <2>2. at.node = Header \/ at.node = key \/ less(at.node, key)
    BY <1>6
  <2>3. IsPair(at.node)
    BY <1>2, <1>3, <1>6
  <2> QED
    BY <1>3, <2>1, <2>2, <2>3, OrderFacts
<1> QED
  BY <1>6, <1>7, <1>8

(* Ranks are positions, and every span of every level is the distance its  *)
(* pointer goes (skiplist.go:231).                                         *)
THEOREM RanksArePositionsHolds == Spec => []RanksArePositions
<1>1. ASSUME Types, Lists PROVE RanksArePositions
  <2> SUFFICES ASSUME NEW n \in Node
               PROVE  LET sl      == list[n]
                          keys    == Keys(n)
                          upTo(x) == Cardinality({y \in keys : y = x \/ less(y, x)})
                          goesTo(x) == IF x = Nil THEN sl.length ELSE upTo(x)
                      IN  /\ \A m \in Live(n) : /\ ZRank(n, m) = upTo(Key(n, m)) - 1
                                                /\ ZRevRank(n, m) = Cardinality(keys) - upTo(Key(n, m))
                          /\ \A x \in Nodes(sl) \cup {Header} : \A i \in DOMAIN sl.span[x] \cap (1 .. sl.level) :
                               sl.span[x][i] = goesTo(sl.forward[x][i]) - upTo(x)
    BY DEF RanksArePositions
  <2> DEFINE sl      == list[n]
             keys    == Keys(n)
             upTo(x) == Cardinality({y \in keys : y = x \/ less(y, x)})
             goesTo(x) == IF x = Nil THEN sl.length ELSE upTo(x)
  <2>1. Holds(list[n], members[n])
    BY <1>1 DEF Lists
  <2>2. IsSkipList(sl) /\ keys = Nodes(sl) /\ \A m \in Live(n) : Key(n, m) \in Nodes(sl)
    BY <2>1, KeysAreNodes
  <2>3. Shaped(sl) /\ sl.length = Cardinality(Nodes(sl)) /\ All(sl) = Nodes(sl) \cup {Header}
    BY <2>2, ShapeFacts DEF IsSkipList, Shaped
  <2>4. \A x : upTo(x) = Pos(Nodes(sl), x)
    BY <2>2 DEF Pos, UpTo
  <2>5. \A x : goesTo(x) = GoesTo(sl, x)
    BY <2>4 DEF GoesTo
  <2> HIDE DEF keys
  <2>6. ASSUME NEW m \in Live(n)
        PROVE  /\ ZRank(n, m) = upTo(Key(n, m)) - 1
               /\ ZRevRank(n, m) = Cardinality(keys) - upTo(Key(n, m))
    <3>1. Rank(sl, Key(n, m)) = Pos(Nodes(sl), Key(n, m)) - 1
      BY <2>2, RankFacts
    <3>2. ZRank(n, m) = Rank(sl, Key(n, m)) /\ ZRevRank(n, m) = sl.length - ZRank(n, m) - 1
      BY DEF ZRank, ZRevRank
    <3>3. Pos(Nodes(sl), Key(n, m)) \in Nat /\ Cardinality(Nodes(sl)) \in Nat
      BY <2>3, PosFacts DEF Shaped
    <3> HIDE DEF upTo, sl
    <3> QED
      BY <2>2, <2>3, <2>4, <3>1, <3>2, <3>3
  <2>7. ASSUME NEW x \in Nodes(sl) \cup {Header}, NEW i \in DOMAIN sl.span[x] \cap (1 .. sl.level)
        PROVE  sl.span[x][i] = goesTo(sl.forward[x][i]) - upTo(x)
    <3>1. x \in All(sl) /\ i \in Level(sl, x) /\ i <= sl.level
      BY <2>3, ShapeFacts DEF Shaped
    <3>2. sl.span[x][i] = GoesTo(sl, sl.forward[x][i]) - Pos(Nodes(sl), x)
      BY <2>2, <3>1 DEF IsSkipList, Measured
    <3> HIDE DEF upTo, goesTo, sl
    <3> QED
      BY <2>4, <2>5, <3>2
  <2> HIDE DEF upTo, goesTo, sl
  <2>8. /\ \A m \in Live(n) : /\ ZRank(n, m) = upTo(Key(n, m)) - 1
                              /\ ZRevRank(n, m) = Cardinality(keys) - upTo(Key(n, m))
        /\ \A x \in Nodes(sl) \cup {Header} : \A i \in DOMAIN sl.span[x] \cap (1 .. sl.level) :
             sl.span[x][i] = goesTo(sl.forward[x][i]) - upTo(x)
    BY <2>6, <2>7
  <2> QED
    BY <2>8, Zenon DEF sl, keys, upTo, goesTo
<1>2. IInv => Types
  BY DEF IInv
<1> QED
  BY <1>1, <1>2, Invariance, ListsInvariance, PTL

(* Every range, count and rank query answers what the member map says      *)
(* (sorted_set.go:121, skiplist.go:162).                                   *)
THEOREM QueriesAgreeHolds == Spec => []QueriesAgree
<1>1. ASSUME Types, Lists PROVE QueriesAgree
  <2>1. ASSUME NEW n \in Node
        PROVE  /\ \A min \in Score : \A max \in {x \in Score : x >= min} :
                    LET shown == InOrder({x \in Keys(n) : x[1] \in min .. max})
                    IN  /\ \A limit \in Limit :
                             /\ ZRange(n, min, max, limit) = Prefix(shown, limit)
                             /\ ZRevRange(n, max, min, limit) = Prefix(Reversed(shown), limit)
                        /\ Count(list[n], min, max) = Len(shown)
               /\ \A start, stop \in Limit \cup {0} :
                    LET all == InOrder(Keys(n))
                    IN  ZRangeByRank(n, start, stop) =
                          SubSeq(all, start + 1, IF stop < Len(all) THEN stop + 1 ELSE Len(all))
               /\ ZCard(n) = list[n].length
    <3>1. Holds(list[n], members[n])
      BY <1>1 DEF Lists
    <3>2. Score \subseteq Nat /\ Limit \subseteq Nat
      BY SortedSetAssumption
    <3>3. \A min \in Score : \A max \in {x \in Score : x >= min} :
            min \in Nat /\ max \in Nat /\ min <= max
      BY <3>2
    <3>4. ASSUME NEW min \in Score, NEW max \in {x \in Score : x >= min}
          PROVE  LET shown == InOrder({x \in Keys(n) : x[1] \in min .. max})
                 IN  /\ \A limit \in Limit :
                          /\ ZRange(n, min, max, limit) = Prefix(shown, limit)
                          /\ ZRevRange(n, max, min, limit) = Prefix(Reversed(shown), limit)
                     /\ Count(list[n], min, max) = Len(shown)
      <4> DEFINE shown == InOrder({x \in Keys(n) : x[1] \in min .. max})
      <4>1. min \in Nat /\ max \in Nat /\ min <= max
        BY <3>3
      <4>2. /\ \A limit \in Nat :
                 /\ ZRange(n, min, max, limit) = Prefix(shown, limit)
                 /\ ZRevRange(n, max, min, limit) = Prefix(Reversed(shown), limit)
            /\ Count(list[n], min, max) = Len(shown)
        BY <3>1, <4>1, ScoreQueries
      <4> HIDE DEF shown
      <4>3. /\ \A limit \in Limit :
                 /\ ZRange(n, min, max, limit) = Prefix(shown, limit)
                 /\ ZRevRange(n, max, min, limit) = Prefix(Reversed(shown), limit)
            /\ Count(list[n], min, max) = Len(shown)
        BY <3>2, <4>2
      <4> QED
        BY <4>3 DEF shown
    <3>5. ASSUME NEW start \in Limit \cup {0}, NEW stop \in Limit \cup {0}
          PROVE  LET all == InOrder(Keys(n))
                 IN  ZRangeByRank(n, start, stop) =
                       SubSeq(all, start + 1, IF stop < Len(all) THEN stop + 1 ELSE Len(all))
      <4>1. start \in Nat /\ stop \in Nat
        BY <3>2
      <4> QED
        BY <3>1, <4>1, RankQueries
    <3>6. ZCard(n) = list[n].length
      BY <3>1, CountsAgree
    <3> QED
      BY <3>4, <3>5, <3>6, Zenon
  <2> QED
    BY <2>1, Zenon DEF QueriesAgree
<1>2. IInv => Types
  BY DEF IInv
<1> QED
  BY <1>1, <1>2, Invariance, ListsInvariance, PTL
=============================================================================
