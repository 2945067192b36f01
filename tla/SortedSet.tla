----------------------------- MODULE SortedSet ------------------------------
(***************************************************************************)
(* One sorted set, replicated: every node's member map with the records    *)
(* gossip compares, and the skip list that answers the queries.            *)
(*                                                                         *)
(* A call holds the set's lock throughout, so it is one step.  Nodes,      *)
(* members and scores are numbers, as the code compares all three.         *)
(***************************************************************************)
EXTENDS SkipList, FiniteSets

CONSTANTS
  Node, Member, Score,
  Limit,       \* limits and ranks that queries ask for
  Keeper,      \* the nodes that take snapshots, and restart
  MaxSends,    \* bound: states sent
  MaxRestores, \* bound: restarts, and restores of a snapshot
  MaxEvents    \* bound: writes, snapshots, states sent, restarts and restores

ASSUME SortedSetAssumption ==
  /\ Node \subseteq Nat \ {0} /\ Keeper \subseteq Node
  /\ Member \subseteq Nat \ {0} /\ IsFiniteSet(Member)
  /\ Score \subseteq Nat \ {0}
  /\ Limit \subseteq Nat
  /\ {MaxSends, MaxRestores, MaxEvents} \subseteq Nat

VARIABLES
  clock,     \* clock[n]: Timestamp of n's set
  members,   \* members[n]: MemberMap, of records
  list,      \* list[n]: Members, the skip list
  disk,      \* disk[n]: the set in n's latest snapshot
  msgs,      \* states under way
  calls, sends, restores,
  wrote,     \* history: wrote[m]: who wrote m, the last record, whether a score was lowered
  restarted, \* history: the nodes that have restarted
  reused     \* history: a node that restarted wrote again

bounded == <<calls, sends, restores>>
history == <<wrote, restarted, reused>>

vars == <<clock, members, list, disk, msgs, bounded, history>>

Absent == [score |-> 0, ts |-> 0, node |-> 0, tomb |-> TRUE]

Record == [score : Score, ts : Nat \ {0}, node : Node, tomb : BOOLEAN]

Nothing == [m \in Member |-> Absent]

Init ==
  /\ clock = [n \in Node |-> 0]
  /\ members = [n \in Node |-> Nothing]
  /\ list = [n \in Node |-> NewSkipList]
  /\ disk = [n \in Node |-> Nothing]
  /\ msgs = {}
  /\ calls = 0 /\ sends = 0 /\ restores = 0
  /\ wrote = [m \in Member |-> [by |-> {}, last |-> Absent, lowered |-> FALSE]]
  /\ restarted = {}
  /\ reused = FALSE

----------------------------------------------------------------------------
(* A write by n of a record of m.                                          *)
Write(n, m, record) ==
  /\ calls + sends + restores < MaxEvents
  /\ calls' = calls + 1
  /\ clock' = [clock EXCEPT ![n] = @ + 1]
  /\ members' = [members EXCEPT ![n][m] = record]
  /\ wrote' = [wrote EXCEPT ![m] =
                 [by      |-> @.by \cup {n},
                  last    |-> record,
                  lowered |-> @.lowered \/ record.score < @.last.score]]
  /\ reused' = (reused \/ n \in restarted)
  /\ UNCHANGED <<disk, msgs, sends, restores, restarted>>

(* Add, whatever the old record says; without is the list the new node     *)
(* goes into.                                                              *)
AddTo(n, m, score, height, without) ==
  /\ Write(n, m, [score |-> score, ts |-> clock[n] + 1, node |-> n, tomb |-> FALSE])
  /\ list' = [list EXCEPT ![n] = Insert(without, <<score, m>>, height)]

(* Mutant of Add: the node of the old score stays.                         *)
AddLeavesOld(n, m, score, height) == AddTo(n, m, score, height, list[n])

Add(n, m, score, height) ==
  AddTo(n, m, score, height,
        IF members[n][m].score = score THEN list[n]
        ELSE Delete(list[n], <<members[n][m].score, m>>))

RemoveAt(n, m, ts) ==
  /\ members[n][m] # Absent
  /\ Write(n, m, [score |-> members[n][m].score, ts |-> ts, node |-> n, tomb |-> TRUE])
  /\ list' = [list EXCEPT ![n] = Delete(@, <<members[n][m].score, m>>)]

(* Mutant of Remove: the tombstone keeps the stamp it found.               *)
RemoveUnstamped(n, m) == RemoveAt(n, m, members[n][m].ts)

(* Remove: a tombstone in place of the record, of the score it had.        *)
Remove(n, m) == RemoveAt(n, m, clock[n] + 1)

----------------------------------------------------------------------------
(* Mutant of Wins: of the same score, the older stamp wins.                *)
WinsOlder(a, b) ==
  \/ a.score > b.score
  \/ a.score = b.score /\ a.ts < b.ts
  \/ a.score = b.score /\ a.ts = b.ts /\ a.node > b.node

(* compareMembers: a > b.                                                  *)
Wins(a, b) ==
  \/ a.score > b.score
  \/ a.score = b.score /\ a.ts > b.ts
  \/ a.score = b.score /\ a.ts = b.ts /\ a.node > b.node

(* A winner's node goes from the skip list, and comes back with the peer's *)
(* score unless that is a tombstone.                                       *)
MergeMember(sl, m, mine, peer, height) ==
  IF ~Wins(peer, mine) THEN sl
  ELSE LET gone == Delete(sl, <<mine.score, m>>)
       IN  IF peer.tomb THEN gone ELSE Insert(gone, <<peer.score, m>>, height)

(* The skip list after a merge into mine.  (The order of the members is    *)
(* the map's, and makes no difference.)                                    *)
MergedList(sl, mine, peer, height) ==
  LET after[S \in SUBSET Member] ==
        IF S = {} THEN sl
        ELSE LET m == CHOOSE x \in S : TRUE
             IN  MergeMember(after[S \ {m}], m, mine[m], peer[m], height[m])
  IN  after[Member]

MergedMap(mine, peer) ==
  [m \in Member |-> IF Wins(peer[m], mine[m]) THEN peer[m] ELSE mine[m]]

(* MergeSnapshot: the records go through Merge in a set whose own clock is *)
(* 0, so that the clock never catches up with the peer's.                  *)
MergeSnapshot(n, peer) ==
  /\ members' = [members EXCEPT ![n] = MergedMap(@, peer)]
  /\ \E height \in [Member -> 1 .. MAX_LEVEL] :
       list' = [list EXCEPT ![n] = MergedList(@, members[n], peer, height)]
  /\ clock' = [clock EXCEPT ![n] = @ + 1]

(* GetState, on its way to a peer.                                         *)
Send(n, p) ==
  /\ n # p
  /\ sends < MaxSends /\ calls + sends + restores < MaxEvents
  /\ members[n] # Nothing
  /\ sends' = sends + 1
  /\ msgs' = msgs \cup {[to |-> p, members |-> members[n]]}
  /\ UNCHANGED <<clock, members, list, disk, calls, restores, history>>

Deliver(msg) ==
  /\ MergeSnapshot(msg.to, msg.members)
  /\ msgs' = msgs \ {msg}
  /\ UNCHANGED <<disk, bounded, history>>

(* (bound: a snapshot counts as a call; none is saved that nobody reads.)  *)
SaveSnapshot(n) ==
  /\ n \in Keeper
  /\ restores < MaxRestores /\ calls + sends + restores < MaxEvents
  /\ calls' = calls + 1
  /\ disk' = [disk EXCEPT ![n] = members[n]]
  /\ UNCHANGED <<clock, members, list, msgs, sends, restores, history>>

(* RestoreFromLatestSnapshot merges, into whatever the node holds.         *)
Restore(n) ==
  /\ restores < MaxRestores /\ calls + sends + restores < MaxEvents
  /\ restores' = restores + 1
  /\ disk[n] # Nothing
  /\ MergeSnapshot(n, disk[n])
  /\ UNCHANGED <<disk, msgs, calls, sends, history>>

(* A restart: only what the latest snapshot has comes back, by a merge     *)
(* into a new set.                                                         *)
Restart(n) ==
  /\ n \in Keeper
  /\ restores < MaxRestores /\ calls + sends + restores < MaxEvents
  /\ restores' = restores + 1
  /\ members' = [members EXCEPT ![n] = disk[n]]
  /\ \E height \in [Member -> 1 .. MAX_LEVEL] :
       list' = [list EXCEPT ![n] = MergedList(NewSkipList, Nothing, disk[n], height)]
  /\ clock' = [clock EXCEPT ![n] = IF disk[n] = Nothing THEN 0 ELSE 1]
  /\ restarted' = restarted \cup {n}
  /\ UNCHANGED <<disk, msgs, calls, sends, wrote, reused>>

Next ==
  \/ \E n \in Node :
       \/ \E m \in Member :
            \/ \E score \in Score, height \in 1 .. MAX_LEVEL : Add(n, m, score, height)
            \/ Remove(n, m)
       \/ \E p \in Node : Send(n, p)
       \/ SaveSnapshot(n)
       \/ Restore(n)
       \/ Restart(n)
  \/ \E msg \in msgs : Deliver(msg)

Spec == Init /\ [][Next]_vars

----------------------------------------------------------------------------
(* What a node answers.                                                    *)
Live(n) == {m \in Member : ~members[n][m].tomb}

Key(n, m) == <<members[n][m].score, m>>

ZRank(n, m) == Rank(list[n], Key(n, m))

ZRevRank(n, m) == list[n].length - ZRank(n, m) - 1

(* The nodes of the list that are not tombstones.                          *)
Answer(n, nodes) ==
  LET shown == {i \in DOMAIN nodes : ~members[n][nodes[i][2]].tomb}
  IN  [j \in 1 .. Cardinality(shown) |->
         nodes[CHOOSE i \in shown : Cardinality({k \in shown : k <= i}) = j]]

ZRange(n, min, max, limit) == Answer(n, RangeByScore(list[n], min, max, limit))

ZRevRange(n, max, min, limit) == Answer(n, RangeDesc(list[n], min, max, limit))

ZRangeByRank(n, start, stop) == Answer(n, RangeByRank(list[n], start, stop))

ZCard(n) == Cardinality(Live(n))

----------------------------------------------------------------------------
(* Every variable has values of its type.  (sorted_set.go)                 *)
TypeOK ==
  /\ clock \in [Node -> Nat]
  /\ \A n \in Node :
       /\ members[n] \in [Member -> Record \cup {Absent}]
       /\ disk[n] \in [Member -> Record \cup {Absent}]
       /\ Nodes(list[n]) \subseteq Score \X Member
       /\ list[n].level \in 1 .. MAX_LEVEL
       /\ list[n].length \in Nat
       /\ list[n].tail \in Nodes(list[n]) \cup {Nil, Header}
  /\ \A msg \in msgs : msg.to \in Node /\ msg.members \in [Member -> Record \cup {Absent}]

Keys(n) == {Key(n, m) : m \in Live(n)}

(* Some keys, in order.                                                    *)
InOrder(S) ==
  [i \in 1 .. Cardinality(S) |->
     CHOOSE x \in S : Cardinality({y \in S : y = x \/ less(y, x)}) = i]

Reversed(s) == [i \in DOMAIN s |-> s[Len(s) + 1 - i]]

(* Every query is answered from the skip list as the member map would have *)
(* it, after any adds, changed scores, removals and merges: no member is   *)
(* missing, twice there or left at an old score, forwards or backwards,    *)
(* and no limit is spent on what is not shown.                             *)
QueriesAgree ==
  \A n \in Node :
    LET keys == Keys(n)
        all  == InOrder(keys)
    IN  /\ \A min \in Score : \A max \in {x \in Score : x >= min} :
             LET shown == InOrder({x \in keys : x[1] \in min .. max})
             IN  /\ \A limit \in Limit :
                      /\ ZRange(n, min, max, limit) = Prefix(shown, limit)
                      /\ ZRevRange(n, max, min, limit) = Prefix(Reversed(shown), limit)
                 /\ Count(list[n], min, max) = Len(shown)
        /\ \A start, stop \in Limit \cup {0} :
             ZRangeByRank(n, start, stop) =
               SubSeq(all, start + 1, IF stop < Len(all) THEN stop + 1 ELSE Len(all))
        /\ ZCard(n) = list[n].length

(* Ranks, which are added up from spans, are positions: every span of      *)
(* every level is the distance its pointer goes, whatever the heights of   *)
(* the nodes inserted and deleted around it.                               *)
RanksArePositions ==
  \A n \in Node :
    LET sl      == list[n]
        keys    == Keys(n)
        upTo(x) == Cardinality({y \in keys : y = x \/ less(y, x)})
        goesTo(x) == IF x = Nil THEN sl.length ELSE upTo(x)
    IN  /\ \A m \in Live(n) : /\ ZRank(n, m) = upTo(Key(n, m)) - 1
                              /\ ZRevRank(n, m) = Cardinality(keys) - upTo(Key(n, m))
        /\ \A x \in Nodes(sl) \cup {Header} : \A i \in DOMAIN sl.span[x] \cap (1 .. sl.level) :
             sl.span[x][i] = goesTo(sl.forward[x][i]) - upTo(x)

(* The records of m in the mesh.                                           *)
Records(m) ==
  {members[n][m] : n \in Node} \cup {disk[n][m] : n \in Node} \cup {msg.members[m] : msg \in msgs}

(* Replicas that have each other's state agree: of two records of a member *)
(* anywhere, the one or the other wins, or they are the same.  (Not once a *)
(* node writes after a restart: its clock has started again, and stamps    *)
(* that are out come a second time.)                                       *)
TiesAreEqual ==
  ~reused =>
    \A m \in Member : \A a, b \in Records(m) : a # b => Wins(a, b) \/ Wins(b, a)

(* A node that alone writes a member, and never lowers its score, has the  *)
(* last word on it: gossip, late or not, and restored snapshots bring back *)
(* none of its older records, not even of a member it removed.  (With two  *)
(* writers, or a lowered score, they do.)                                  *)
LastWriteHolds ==
  \A m \in Member, n \in Node :
    wrote[m].by = {n} /\ ~wrote[m].lowered /\ n \notin restarted
      => members[n][m] = wrote[m].last
=============================================================================
