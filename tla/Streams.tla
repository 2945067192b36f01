------------------------------ MODULE Streams -------------------------------
(***************************************************************************)
(* One stream, replicated, and on each node a consumer group of it, which  *)
(* is not: the log with its retention, the merge of a peer's log, and      *)
(* consumers that read in several steps and acknowledge.                   *)
(*                                                                         *)
(* A call on a log or a group holds its lock, so it is one step; a read of *)
(* a group makes several.  Retention by size is left out: for entries of   *)
(* one size it is retention by number.                                     *)
(***************************************************************************)
EXTENDS Naturals, Sequences, FiniteSets, SequencesExt

CONSTANTS
  Node,        \* numbers, as entries are ordered by them last
  Keeper,      \* the nodes that take snapshots, and restart
  Grouped,     \* the nodes where a consumer group may be created
  Consumer,    \* names of consumers
  Request,     \* the goroutines that serve reads of a group
  Limit,       \* what a read may ask for
  MaxEntries,  \* entries a log keeps
  MaxAge,      \* milliseconds an entry is kept
  Skews,       \* by how much a node's clock may be ahead
  MaxTime,     \* bound: the time
  MaxAdds,     \* bound: entries added
  MaxReads,    \* bound: reads of groups
  MaxSends,    \* bound: states sent
  MaxRestarts  \* bound: restarts

ASSUME StreamsAssumption ==
  /\ Node \subseteq Nat /\ {Keeper, Grouped} \subseteq SUBSET Node
  /\ Limit \subseteq Nat \ {0} /\ Skews \subseteq Nat
  /\ MaxEntries \in Nat \ {0}
  /\ {MaxAge, MaxTime, MaxAdds, MaxReads, MaxSends, MaxRestarts} \subseteq Nat

VARIABLES
  now, skew,   \* the time, and every node's clock
  log,         \* log[n]: Entries
  sequence,    \* sequence[n]: LastSequence
  disk,        \* disk[n]: the log in n's latest snapshot
  group,       \* group[n]: whether n has the group
  offset,      \* offset[n][c]: Offsets
  pending,     \* pending[n][c]: how often an entry is in PendingLog for c
  call,        \* call[r]: what request r is doing
  msgs,        \* states under way
  adds, reads, sends, restarts,
  delivered,   \* history: delivered[n][c]: the entries c got in a response
  acked,       \* history: acked[n][c]: the entries c acknowledged
  moved        \* history: moved[n][c]: the entries a merge put before one c was given

clocks  == <<now, skew>>
logs    == <<log, sequence, disk>>
groups  == <<group, offset, pending>>
bounded == <<adds, reads, sends, restarts>>
history == <<delivered, acked, moved>>

vars == <<clocks, logs, groups, call, msgs, bounded, history>>

Entry == [ts : Nat, seq : Nat \ {0}, node : Node]

(* Mutant of ID: without the node.                                         *)
IDLocal(e) == <<e.ts, e.seq>>

(* An entry's ID: its stamp, its number and its node.                      *)
ID(e) == <<e.ts, e.seq, e.node>>

Beginning == <<>> \* the offset "0" of a new consumer
NotMember == <<0>>
Idle == [op |-> "idle"]

NoOffsets == [c \in Consumer |-> NotMember]
NoPending == [c \in Consumer |-> <<>>]

Clock(n) == now + skew[n]

Init ==
  /\ now = 0
  /\ skew \in [Node -> Skews]
  /\ log = [n \in Node |-> <<>>]
  /\ sequence = [n \in Node |-> 0]
  /\ disk = [n \in Node |-> <<>>]
  /\ group = [n \in Node |-> FALSE]
  /\ offset = [n \in Node |-> NoOffsets]
  /\ pending = [n \in Node |-> NoPending]
  /\ call = [r \in Request |-> Idle]
  /\ msgs = {}
  /\ adds = 0 /\ reads = 0 /\ sends = 0 /\ restarts = 0
  /\ delivered = [n \in Node |-> [c \in Consumer |-> {}]]
  /\ acked = [n \in Node |-> [c \in Consumer |-> {}]]
  /\ moved = [n \in Node |-> [c \in Consumer |-> {}]]

----------------------------------------------------------------------------
(* The elements of a list at positions I, in their order.                  *)
Picked(list, I) ==
  [k \in 1 .. Cardinality(I) |->
     list[CHOOSE i \in I : Cardinality({j \in I : j < i}) = k - 1]]

(* applyRetention at time t: what is too old goes, then the front of what  *)
(* is too many.                                                            *)
Young(entries, t) == Picked(entries, {i \in DOMAIN entries : t <= entries[i].ts + MaxAge})

Newest(s) == IF Len(s) <= MaxEntries THEN s ELSE SubSeq(s, Len(s) - MaxEntries + 1, Len(s))

applyRetention(entries, t) == Newest(Young(entries, t))

(* Add: at the end, wherever its stamp belongs.                            *)
XAdd(n) ==
  LET entry == [ts |-> Clock(n), seq |-> sequence[n] + 1, node |-> n]
  IN  /\ adds < MaxAdds
      /\ adds' = adds + 1
      /\ sequence' = [sequence EXCEPT ![n] = @ + 1]
      /\ log' = [log EXCEPT ![n] = applyRetention(Append(@, entry), Clock(n))]
      /\ UNCHANGED <<clocks, disk, groups, call, msgs, reads, sends, restarts, history>>

(* By stamp, number and node.                                              *)
Precedes(a, b) ==
  \/ a.ts < b.ts
  \/ a.ts = b.ts /\ a.seq < b.seq
  \/ a.ts = b.ts /\ a.seq = b.seq /\ a.node < b.node

(* The entries of S in that order.                                         *)
Sorted(S) ==
  [k \in 1 .. Cardinality(S) |->
     CHOOSE e \in S : Cardinality({f \in S : Precedes(f, e)}) = k - 1]

(* MergeSnapshot into a log at time t: the entries whose ID is new; the    *)
(* log is sorted and trimmed only when there are any.                      *)
Merged(mine, peer, t) ==
  LET new == {e \in ToSet(peer) : \A f \in ToSet(mine) : ID(f) # ID(e)}
  IN  IF new = {} THEN mine ELSE applyRetention(Sorted(ToSet(mine) \cup new), t)

(* Whether e is before f in a log.                                         *)
Ahead(entries, e, f) ==
  \E i, j \in DOMAIN entries : i < j /\ entries[i] = e /\ entries[j] = f

(* What c was given by n, or is about to be.                               *)
Given(n, c) ==
  delivered[n][c]
    \cup UNION {ToSet(call[r].got) : r \in
                  {q \in Request : call[q].op = "pend" /\ call[q].node = n /\ call[q].consumer = c}}

(* The entries that are before one of those given, and were not before.    *)
Moved(before, after, given) ==
  {e \in ToSet(after) : \E f \in given : Ahead(after, e, f) /\ ~Ahead(before, e, f)}

----------------------------------------------------------------------------
(* Gossip: the log as it is now, merged when it comes.                     *)
Send(n, p) ==
  /\ n # p
  /\ sends < MaxSends
  /\ log[n] # <<>>
  /\ sends' = sends + 1
  /\ msgs' = msgs \cup {[to |-> p, log |-> log[n]]}
  /\ UNCHANGED <<clocks, logs, groups, call, adds, reads, restarts, history>>

Deliver(msg) ==
  LET n     == msg.to
      after == Merged(log[n], msg.log, Clock(n))
  IN  /\ log' = [log EXCEPT ![n] = after]
      /\ moved' = [moved EXCEPT ![n] =
                     [c \in Consumer |-> @[c] \cup Moved(log[n], after, Given(n, c))]]
      /\ msgs' = msgs \ {msg}
      /\ UNCHANGED <<clocks, sequence, disk, groups, call, bounded, delivered, acked>>

Tick ==
  /\ now < MaxTime
  /\ now' = now + 1
  /\ UNCHANGED <<skew, logs, groups, call, msgs, bounded, history>>

(* (bound: a snapshot nobody will read is not saved.)                      *)
SaveSnapshot(n) ==
  /\ n \in Keeper
  /\ restarts < MaxRestarts
  /\ disk' = [disk EXCEPT ![n] = log[n]]
  /\ UNCHANGED <<clocks, log, sequence, groups, call, msgs, bounded, history>>

(* A restart: the log of the latest snapshot is merged into a new stream,  *)
(* which counts from 0; groups are in no snapshot, and requests are cut.   *)
Restart(n) ==
  /\ n \in Keeper
  /\ restarts < MaxRestarts
  /\ restarts' = restarts + 1
  /\ now < MaxTime
  /\ now' = now + 1
  /\ log' = [log EXCEPT ![n] = Merged(<<>>, disk[n], now' + skew[n])]
  /\ sequence' = [sequence EXCEPT ![n] = 0]
  /\ group' = [group EXCEPT ![n] = FALSE]
  /\ offset' = [offset EXCEPT ![n] = NoOffsets]
  /\ pending' = [pending EXCEPT ![n] = NoPending]
  /\ call' = [r \in Request |-> IF call[r] # Idle /\ call[r].node = n THEN Idle ELSE call[r]]
  /\ delivered' = [delivered EXCEPT ![n] = [c \in Consumer |-> {}]]
  /\ acked' = [acked EXCEPT ![n] = [c \in Consumer |-> {}]]
  /\ moved' = [moved EXCEPT ![n] = [c \in Consumer |-> {}]]
  /\ UNCHANGED <<skew, disk, msgs, adds, reads, sends>>

----------------------------------------------------------------------------
XGroupCreate(n) ==
  /\ n \in Grouped
  /\ ~group[n]
  /\ group' = [group EXCEPT ![n] = TRUE]
  /\ UNCHANGED <<clocks, logs, offset, pending, call, msgs, bounded, history>>

(* XReadGroup: the consumer is looked up, added if it is not there, its    *)
(* offset read, the log read from it, and every entry made pending.        *)
XReadGroup(r, n, c, limit) ==
  /\ call[r] = Idle
  /\ group[n]
  /\ reads < MaxReads
  /\ reads' = reads + 1
  /\ call' = [call EXCEPT ![r] = [op |-> IF offset[n][c] = NotMember THEN "join" ELSE "offset",
                                  node |-> n, consumer |-> c, limit |-> limit]]
  /\ UNCHANGED <<clocks, logs, groups, msgs, adds, sends, restarts, history>>

Join(r, start) ==
  /\ call[r].op = "join"
  /\ offset[call[r].node][call[r].consumer] = NotMember
  /\ offset' = [offset EXCEPT ![call[r].node][call[r].consumer] = start]
  /\ call' = [call EXCEPT ![r].op = "offset"]
  /\ UNCHANGED <<clocks, logs, group, pending, msgs, bounded, history>>

(* Mutant of AddConsumer: a new consumer starts at the end of the log.     *)
AddConsumerAtEnd(r) ==
  Join(r, LET entries == log[call[r].node]
          IN  IF entries = <<>> THEN Beginning ELSE ID(Last(entries)))

AddConsumer(r) == Join(r, Beginning)

(* Another read of the same consumer was first: this one fails.            *)
AddConsumerExists(r) ==
  /\ call[r].op = "join"
  /\ offset[call[r].node][call[r].consumer] # NotMember
  /\ call' = [call EXCEPT ![r] = Idle]
  /\ UNCHANGED <<clocks, logs, groups, msgs, bounded, history>>

GetOffset(r) ==
  LET n == call[r].node
      c == call[r].consumer
  IN  /\ call[r].op = "offset"
      /\ call' = [call EXCEPT ![r] = [op |-> "range", node |-> n, consumer |-> c,
                                      limit |-> call[r].limit, offset |-> offset[n][c]]]
      /\ UNCHANGED <<clocks, logs, groups, msgs, bounded, history>>

(* What Range returns: the entries after the one of that ID, or from the   *)
(* beginning when there is none, up to the limit.                          *)
RangeFrom(entries, start, limit) ==
  LET at   == {i \in DOMAIN entries : ID(entries[i]) = start}
      from == IF at = {} THEN 1 ELSE (CHOOSE i \in at : TRUE) + 1
  IN  SubSeq(entries, from, IF from + limit - 1 < Len(entries) THEN from + limit - 1
                            ELSE Len(entries))

ReadRange(r) ==
  LET n   == call[r].node
      got == RangeFrom(log[n], call[r].offset, call[r].limit)
  IN  /\ call[r].op = "range"
      /\ call' = [call EXCEPT ![r] = [op |-> "pend", node |-> n, consumer |-> call[r].consumer,
                                      got |-> got, todo |-> got]]
      /\ UNCHANGED <<clocks, logs, groups, msgs, bounded, history>>

AddPending(r) ==
  LET n == call[r].node
      c == call[r].consumer
  IN  /\ call[r].op = "pend"
      /\ call[r].todo # <<>>
      /\ pending' = [pending EXCEPT ![n][c] = Append(@, ID(Head(call[r].todo)))]
      /\ call' = [call EXCEPT ![r].todo = Tail(@)]
      /\ UNCHANGED <<clocks, logs, group, offset, msgs, bounded, history>>

Returned(r) ==
  /\ call[r].op = "pend"
  /\ call[r].todo = <<>>
  /\ call' = [call EXCEPT ![r] = Idle]
  /\ delivered' = [delivered EXCEPT ![call[r].node][call[r].consumer] =
                     @ \cup ToSet(call[r].got)]
  /\ UNCHANGED <<clocks, logs, groups, msgs, bounded, acked, moved>>

(* UpdateOffset: of an entry the consumer was given; the offset is that,   *)
(* wherever it was before.                                                 *)
Acknowledge(n, c, e, left) ==
  /\ group[n]
  /\ offset[n][c] # NotMember
  /\ e \in delivered[n][c]
  /\ offset' = [offset EXCEPT ![n][c] = ID(e)]
  /\ pending' = [pending EXCEPT ![n][c] = left]
  /\ acked' = [acked EXCEPT ![n][c] = @ \cup {e}]
  /\ UNCHANGED <<clocks, logs, group, call, msgs, bounded, delivered, moved>>

(* Mutant of XAck: all that is pending for the consumer goes.              *)
XAckAll(n, c, e) == Acknowledge(n, c, e, <<>>)

XAck(n, c, e) ==
  Acknowledge(n, c, e,
    Picked(pending[n][c], {i \in DOMAIN pending[n][c] : pending[n][c][i] # ID(e)}))

Next ==
  \/ \E n \in Node :
       \/ XAdd(n)
       \/ \E p \in Node : Send(n, p)
       \/ SaveSnapshot(n)
       \/ Restart(n)
       \/ XGroupCreate(n)
       \/ \E c \in Consumer :
            \/ \E r \in Request, limit \in Limit : XReadGroup(r, n, c, limit)
            \/ \E e \in delivered[n][c] : XAck(n, c, e)
  \/ \E r \in Request :
       \/ AddConsumer(r) \/ AddConsumerExists(r) \/ GetOffset(r)
       \/ ReadRange(r) \/ AddPending(r) \/ Returned(r)
  \/ \E msg \in msgs : Deliver(msg)
  \/ Tick

Spec == Init /\ [][Next]_vars

----------------------------------------------------------------------------
(* Every variable has values of its type, and no entry is in a log twice.  *)
(* (entry.go, consumer_group.go)                                           *)
TypeOK ==
  /\ now \in 0 .. MaxTime
  /\ \A n \in Node :
       /\ log[n] \in Seq(Entry)
       /\ Len(log[n]) <= MaxEntries
       /\ Cardinality(ToSet(log[n])) = Len(log[n])
       /\ sequence[n] \in Nat
       /\ \A c \in Consumer :
            /\ offset[n][c] \in {Beginning, NotMember} \cup (Nat \X Nat \X Node)
            /\ pending[n][c] # <<>> => group[n] /\ offset[n][c] # NotMember
            /\ acked[n][c] \subseteq delivered[n][c]
  /\ \A r \in Request : call[r] # Idle => group[call[r].node]

(* Two nodes that have each other's log have the same entries, of those    *)
(* neither finds too old: the newest of all that either had, as many as a  *)
(* log may keep, whatever order they came in and whatever each had dropped *)
(* before; two entries never pass for one.                                 *)
LogsAgree ==
  \A n, p \in Node :
    LET one   == Merged(log[n], log[p], Clock(n))
        other == Merged(log[p], one, Clock(p))
        all   == ToSet(log[n]) \cup ToSet(log[p])
        Fresh(e) == \A q \in {n, p} : Clock(q) <= e.ts + MaxAge
        newest   == {e \in all : Fresh(e) /\ Cardinality({f \in all : Precedes(e, f)}) < MaxEntries}
    IN  /\ {e \in ToSet(one) : Fresh(e)} = newest
        /\ {e \in ToSet(other) : Fresh(e)} = newest

(* A consumer that acknowledges only what it was given has been given all  *)
(* that its offset is past, gossiped or added here, whatever of its reads  *)
(* and acknowledgements interleave and whatever retention drops, but for   *)
(* entries that a merge put before one it had been given.                  *)
NothingSkipped ==
  \A n \in Node, c \in Consumer :
    \A i, j \in DOMAIN log[n] :
      i <= j /\ offset[n][c] = ID(log[n][j])
        => log[n][i] \in delivered[n][c] \cup moved[n][c]

(* What a consumer was given and never acknowledged is pending for it,     *)
(* though another of its requests acknowledges other entries, or the same  *)
(* again, in the middle of a read.                                         *)
NothingForgotten ==
  \A n \in Node, c \in Consumer :
    \A e \in delivered[n][c] \ acked[n][c] : ID(e) \in ToSet(pending[n][c])
=============================================================================
