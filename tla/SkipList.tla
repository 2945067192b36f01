------------------------------ MODULE SkipList ------------------------------
(***************************************************************************)
(* The skip list under a sorted set: a value, and the operations on it.    *)
(* A node is the pair of a score and a member, as the list orders them.    *)
(* forward[x][i] and span[x][i] are x's pointer of level i (counted from   *)
(* 1) and the number of nodes it goes on by; a pointer to nothing spans    *)
(* what is left of the list.                                               *)
(***************************************************************************)
EXTENDS Naturals, Sequences

CONSTANT MAX_LEVEL \* levels of a node; what randomLevel may return is 1 .. MAX_LEVEL

ASSUME LevelAssumption == MAX_LEVEL \in Nat \ {0}

(* Scores and members of nodes are above 0.                                *)
Header == <<0, 0>>

Nil == <<>>

(* By score, then by member.                                               *)
less(x, y) == x[1] < y[1] \/ (x[1] = y[1] /\ x[2] < y[2])

NewSkipList ==
  [forward  |-> [x \in {Header} |-> [i \in 1 .. MAX_LEVEL |-> Nil]],
   span     |-> [x \in {Header} |-> [i \in 1 .. MAX_LEVEL |-> 0]],
   backward |-> [x \in {Header} |-> Nil],
   tail     |-> Nil,
   level    |-> 1,
   length   |-> 0]

Nodes(sl) == DOMAIN sl.forward \ {Header}

(* On level i: from each node as far as the next one is in before.  The    *)
(* node the loop ends at, and the sum of the spans.                        *)
Along(sl, before, i) ==
  LET walk[x \in {y \in DOMAIN sl.forward : i \in DOMAIN sl.forward[y]}] ==
        LET next == sl.forward[x][i]
        IN  IF next # Nil /\ next \in before
            THEN [node |-> walk[next].node, rank |-> walk[next].rank + sl.span[x][i]]
            ELSE [node |-> x, rank |-> 0]
  IN  walk

(* The descent: level by level from the top, the node the loop ends at and *)
(* its position; the header on levels not in use.                          *)
Start == [node |-> Header, rank |-> 0]

Descent(sl, before) ==
  LET path[i \in 1 .. sl.level + 1] ==
        IF i > sl.level THEN [j \in 1 .. MAX_LEVEL + 1 |-> Start]
        ELSE LET above == path[i + 1]
                 from  == above[i + 1]
                 end   == Along(sl, before, i)[from.node]
             IN  [above EXCEPT ![i] = [node |-> end.node, rank |-> from.rank + end.rank]]
  IN  path[1]

(* The first node that is not in before.                                    *)
Seek(sl, before) == sl.forward[Descent(sl, before)[1].node][1]

----------------------------------------------------------------------------
(* Insert, of a node of the given height.  What is there already stays.    *)
(* Levels above the new node's pass over one node more: grown.             *)
InsertGrowing(sl, key, height, grown) ==
  LET update   == Descent(sl, {x \in Nodes(sl) : less(x, key)})
      over(i)  == IF i <= sl.level THEN sl.span[update[i].node][i] ELSE sl.length
      next(i)  == sl.forward[update[i].node][i]
      ahead(i) == update[1].rank - update[i].rank
      top      == IF height > sl.level THEN height ELSE sl.level
      linked(x, i)   == IF x = update[i].node /\ i <= height THEN key ELSE sl.forward[x][i]
      measured(x, i) == IF x # update[i].node \/ i > top THEN sl.span[x][i]
                        ELSE IF i <= height THEN ahead(i) + 1
                        ELSE sl.span[x][i] + grown
      all      == DOMAIN sl.forward \cup {key}
  IN  IF next(1) = key THEN sl
      ELSE [forward  |-> [x \in all |-> IF x = key THEN [i \in 1 .. height |-> next(i)]
                                        ELSE [i \in DOMAIN sl.forward[x] |-> linked(x, i)]],
            span     |-> [x \in all |-> IF x = key THEN [i \in 1 .. height |-> over(i) - ahead(i)]
                                        ELSE [i \in DOMAIN sl.span[x] |-> measured(x, i)]],
            backward |-> [x \in all |-> IF x = key THEN update[1].node
                                        ELSE IF x = next(1) THEN key ELSE sl.backward[x]],
            tail     |-> IF next(1) = Nil THEN key ELSE sl.tail,
            level    |-> top,
            length   |-> sl.length + 1]

(* Mutant of Insert: the levels above keep their spans.                    *)
InsertNotAbove(sl, key, height) == InsertGrowing(sl, key, height, 0)

Insert(sl, key, height) == InsertGrowing(sl, key, height, 1)

(* Delete, of a node of that very score: any other is not found.           *)
DeleteEnding(sl, key, tail) ==
  LET update  == Descent(sl, {x \in Nodes(sl) : less(x, key)})
      next    == sl.forward[key][1]
      on(x, i)       == i <= sl.level /\ x = update[i].node
      linked(x, i)   == IF on(x, i) /\ sl.forward[x][i] = key THEN sl.forward[key][i]
                        ELSE sl.forward[x][i]
      measured(x, i) == IF ~on(x, i) THEN sl.span[x][i]
                        ELSE IF sl.forward[x][i] = key THEN sl.span[x][i] + sl.span[key][i] - 1
                        ELSE sl.span[x][i] - 1
      left    == DOMAIN sl.forward \ {key}
      forward == [x \in left |-> [i \in DOMAIN sl.forward[x] |-> linked(x, i)]]
      used    == {1} \cup {i \in 1 .. sl.level : forward[Header][i] # Nil}
  IN  IF sl.forward[update[1].node][1] # key THEN sl
      ELSE [forward  |-> forward,
            span     |-> [x \in left |-> [i \in DOMAIN sl.span[x] |-> measured(x, i)]],
            backward |-> [x \in left |-> IF x = next THEN sl.backward[key] ELSE sl.backward[x]],
            tail     |-> tail,
            level    |-> CHOOSE i \in used : \A j \in used : j <= i,
            length   |-> sl.length - 1]

(* Mutant of Delete: the tail is left alone.                               *)
DeleteKeepsTail(sl, key) == DeleteEnding(sl, key, sl.tail)

Delete(sl, key) ==
  DeleteEnding(sl, key, IF sl.forward[key][1] = Nil THEN sl.backward[key] ELSE sl.tail)

----------------------------------------------------------------------------
(* The nodes from x on.                                                    *)
From(sl, x) ==
  LET on[y \in Nodes(sl) \cup {Nil}] ==
        IF y = Nil THEN <<>> ELSE <<y>> \o on[sl.forward[y][1]]
  IN  on[x]

GetAll(sl) == From(sl, sl.forward[Header][1])

Prefix(s, limit) == SubSeq(s, 1, IF limit < Len(s) THEN limit ELSE Len(s))

(* The loop stops at the first node above max, or at the limit.            *)
RangeByScore(sl, min, max, limit) ==
  LET found == From(sl, Seek(sl, {x \in Nodes(sl) : x[1] < min}))
      past  == {i \in DOMAIN found : found[i][1] > max}
      stop  == IF past = {} THEN Len(found) ELSE (CHOOSE i \in past : \A j \in past : i <= j) - 1
  IN  Prefix(SubSeq(found, 1, stop), limit)

Count(sl, min, max) == Len(RangeByScore(sl, min, max, sl.length))

(* RangeDesc: from the tail, by the backward pointers.                     *)
RangeDesc(sl, min, max, limit) ==
  LET back[x \in Nodes(sl) \cup {Header, Nil}] ==
        IF x \in {Header, Nil} \/ x[1] < min THEN <<>>
        ELSE (IF x[1] > max THEN <<>> ELSE <<x>>) \o back[sl.backward[x]]
  IN  Prefix(back[sl.tail], limit)

RangeByRank(sl, start, stop) ==
  LET all == GetAll(sl) IN SubSeq(all, start + 1, IF stop < Len(all) THEN stop + 1 ELSE Len(all))

(* Rank: the spans passed by, where the descent ends at the key.           *)
Rank(sl, key) == Descent(sl, {x \in Nodes(sl) : x = key \/ less(x, key)})[1].rank - 1
=============================================================================
