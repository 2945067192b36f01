----------------------------- MODULE CacheMesh -----------------------------
(***************************************************************************)
(* One key of the cache on every node of a mesh: Set and CommitTransaction, *)
(* the merge of gossip by version, expiry and its cleanup, and what the     *)
(* write-ahead log and the snapshots bring back after a kill.               *)
(*                                                                          *)
(* A version is a wall-clock time and the name of the writer.  Clocks of    *)
(* different nodes are unrelated; each one increases and is never set back. *)
(* Set reads its clock twice: for the version it keeps and gossips, and     *)
(* inside LogOperation for the version in the log, which a restart brings   *)
(* back.  The steps of CreateSnapshot and the races between them are the    *)
(* subject of module Durability; here a snapshot is one step.               *)
(***************************************************************************)
EXTENDS Naturals, FiniteSets

CONSTANTS
  Node,         \* the nodes: positive numbers, in the order of the nodes' names
  Ttls,         \* times to live clients ask for; 0 is no expiry
  MaxTime,      \* bound: the last reading of every clock
  MaxWrites,    \* bound: writes, over all nodes
  MaxRestarts,  \* bound: kills, over all nodes
  MaxInFlight   \* bound: states in flight between nodes at a time

ASSUME NodeAssumption == IsFiniteSet(Node) /\ Node \subseteq Nat \ {0}

ASSUME TtlsAssumption == Ttls \subseteq Nat

ASSUME BoundsAssumption == {MaxTime, MaxWrites, MaxRestarts, MaxInFlight} \subseteq Nat

VARIABLES
  clock,    \* clock[n]: what time.Now() has reached at node n
  cache,    \* cache[n]: node n's entry of the key
  log,      \* log[n]: the last "set" entry logged after node n's last snapshot
  snap,     \* snap[n]: the entry in node n's last snapshot
  msgs,     \* states copied by GetState and not yet merged
  restarts, \* kills so far
  written   \* history: the writes, with both times they were stamped with

vars == <<clock, cache, log, snap, msgs, restarts, written>>

(* A value is known by its writer and the time of its Set.                  *)
Entry == [value : Nat, ts : Nat, node : Node \cup {0}, expires : Nat]

Absent == [value |-> 0, ts |-> 0, node |-> 0, expires |-> 0]

Write == [node : Node, ts : Nat, logged : Nat, expires : Nat]

Message == [from : Node, to : Node, entry : Entry]

TypeOK ==
  /\ clock \in [Node -> Nat]
  /\ cache \in [Node -> Entry]
  /\ log \in [Node -> Entry]
  /\ snap \in [Node -> Entry]
  /\ msgs \subseteq Message
  /\ restarts \in Nat
  /\ written \subseteq Write

----------------------------------------------------------------------------
(* Mutant of cacheEntryLess: no tie-break.                                  *)
TimestampLess(a, b) == a.ts < b.ts

cacheEntryLess(a, b) == a.ts < b.ts \/ (a.ts = b.ts /\ a.node < b.node)

Expired(n, e) == e.expires > 0 /\ clock[n] > e.expires

(* recoverFromDisk: "set" entries are replayed in their order on top of the *)
(* snapshot, so the last one decides, whatever its version.                 *)
Recovered(n) == IF log[n] = Absent THEN snap[n] ELSE log[n]

Init ==
  /\ clock = [n \in Node |-> 0]
  /\ cache = [n \in Node |-> Absent]
  /\ log = [n \in Node |-> Absent]
  /\ snap = [n \in Node |-> Absent]
  /\ msgs = {}
  /\ restarts = 0
  /\ written = {}

Tick(n) ==
  /\ clock[n] < MaxTime
  /\ clock' = [clock EXCEPT ![n] = @ + 1]
  /\ UNCHANGED <<cache, log, snap, msgs, restarts, written>>

(* Set applies unconditionally, also over an entry of a peer with a faster  *)
(* clock.                                                                   *)
(*                                                                          *)
(* Mutant of Set: the entry does not name its writer.                       *)
SetAnonymous(n, ttl, ts, logged) ==
  LET expires == IF ttl = 0 THEN 0 ELSE ts + ttl
      entry   == [value |-> ts, ts |-> ts, expires |-> expires]
  IN  /\ clock[n] < ts
      /\ Cardinality(written) < MaxWrites
      /\ clock' = [clock EXCEPT ![n] = logged]
      /\ cache' = [cache EXCEPT ![n] = entry]
      /\ log' = [log EXCEPT ![n] = entry]
      /\ written' = written \cup {[node |-> n, ts |-> ts, logged |-> logged, expires |-> expires]}
      /\ UNCHANGED <<snap, msgs, restarts>>

Set(n, ttl, ts, logged) ==
  LET expires == IF ttl = 0 THEN 0 ELSE ts + ttl
      entry   == [value |-> ts, ts |-> ts, node |-> n, expires |-> expires]
  IN  /\ clock[n] < ts
      /\ Cardinality(written) < MaxWrites
      /\ clock' = [clock EXCEPT ![n] = logged]
      /\ cache' = [cache EXCEPT ![n] = entry]
      /\ log' = [log EXCEPT ![n] = [entry EXCEPT !.ts = logged]]
      /\ written' = written \cup {[node |-> n, ts |-> ts, logged |-> logged, expires |-> expires]}
      /\ UNCHANGED <<snap, msgs, restarts>>

(* A transaction's write has no expiry and hands its version to the log.    *)
CommitTransaction(n, ts) == Set(n, 0, ts, ts)

(* backgroundCleanup deletes an expired entry; nothing is left in its place *)
(* and nothing is logged.                                                   *)
Expire(n) ==
  /\ Expired(n, cache[n])
  /\ cache' = [cache EXCEPT ![n] = Absent]
  /\ UNCHANGED <<clock, log, snap, msgs, restarts, written>>

----------------------------------------------------------------------------
(* GetState at m, for n to merge.                                           *)
Send(m, n) ==
  /\ m # n
  /\ cache[m] # Absent
  /\ Cardinality(msgs) < MaxInFlight
  /\ msgs' = msgs \cup {[from |-> m, to |-> n, entry |-> cache[m]]}
  /\ UNCHANGED <<clock, cache, log, snap, restarts, written>>

(* Mutants of MergeState: the peer's entry is always adopted; the adopted   *)
(* entry is not logged; it loses its expiry.                                *)
MergeStateAlways(n, peer) ==
  /\ cache' = [cache EXCEPT ![n] = peer]
  /\ log' = [log EXCEPT ![n] = peer]

MergeStateUnlogged(n, peer) ==
  /\ cache' = [cache EXCEPT ![n] = IF cacheEntryLess(@, peer) THEN peer ELSE @]
  /\ UNCHANGED log

MergeStateForever(n, peer) ==
  LET entry == [peer EXCEPT !.expires = 0]
  IN  /\ cache' = [cache EXCEPT ![n] = IF cacheEntryLess(@, peer) THEN entry ELSE @]
      /\ log' = [log EXCEPT ![n] = IF cacheEntryLess(cache[n], peer) THEN entry ELSE @]

(* MergeState: a strictly newer entry is adopted, expired or not, and       *)
(* logged with the version its writer gave it.                              *)
MergeState(n, peer) ==
  /\ cache' = [cache EXCEPT ![n] = IF cacheEntryLess(@, peer) THEN peer ELSE @]
  /\ log' = [log EXCEPT ![n] = IF cacheEntryLess(cache[n], peer) THEN peer ELSE @]

Deliver(m, n) ==
  \E msg \in msgs :
    /\ msg.from = m /\ msg.to = n
    /\ msgs' = msgs \ {msg}
    /\ MergeState(n, msg.entry)
    /\ UNCHANGED <<clock, snap, restarts, written>>

Lose(msg) ==
  /\ msgs' = msgs \ {msg}
  /\ UNCHANGED <<clock, cache, log, snap, restarts, written>>

----------------------------------------------------------------------------
(* CreateSnapshot, undisturbed: the log before it is never read again.      *)
Snapshot(n) ==
  /\ snap' = [snap EXCEPT ![n] = cache[n]]
  /\ log' = [log EXCEPT ![n] = Absent]
  /\ UNCHANGED <<clock, cache, msgs, restarts, written>>

(* A kill and the start of the next process.                                *)
Restart(n) ==
  /\ restarts < MaxRestarts
  /\ restarts' = restarts + 1
  /\ cache' = [cache EXCEPT ![n] = Recovered(n)]
  /\ UNCHANGED <<clock, log, snap, msgs, written>>

Next ==
  \/ \E n \in Node :
       \/ Tick(n)
       \/ \E ttl \in Ttls : \E ts \in 1 .. MaxTime : \E logged \in ts .. MaxTime :
            Set(n, ttl, ts, logged)
       \/ \E ts \in 1 .. MaxTime : CommitTransaction(n, ts)
       \/ Expire(n)
       \/ Snapshot(n)
       \/ Restart(n)
  \/ \E m, n \in Node : Send(m, n) \/ Deliver(m, n)
  \/ \E msg \in msgs : Lose(msg)

Spec == Init /\ [][Next]_vars

(* Every node pulls from random peers for ever, as in module RateLimiter.   *)
GossipFairness ==
  \A m, n \in Node : SF_vars(Send(m, n)) /\ SF_vars(Deliver(m, n))

FairSpec == Spec /\ GossipFairness

----------------------------------------------------------------------------
(* A version names one value: entries of the same version, in any memory,   *)
(* file or state in flight, have the same value and expiry, although        *)
(* clocks of different nodes may show the same time and a restart gives an  *)
(* entry a second version.  Otherwise replicas that see no need to merge    *)
(* would differ for ever.                                                   *)
Entries ==
  {cache[n] : n \in Node} \cup {log[n] : n \in Node} \cup {snap[n] : n \in Node}
    \cup {msg.entry : msg \in msgs}

VersionNamesValue ==
  \A a, b \in Entries : a.ts = b.ts /\ a.node = b.node => a = b

(* The last write wins: a write without expiry that was made, by the        *)
(* clocks, after all others were logged is kept by the node that made it,   *)
(* in memory and on disk, whatever older states arrive there, whichever     *)
(* entries expire elsewhere and whoever is killed in between.               *)
Undisputed(w) ==
  w.expires = 0 /\ \A o \in written \ {w} : o.logged < w.ts

LastWriteKept ==
  \A w \in written : Undisputed(w) =>
    \A e \in {cache[w.node], Recovered(w.node)} : e.node = w.node /\ e.value = w.ts

(* A restart never goes back: what a node comes up with is not older than   *)
(* what it had, also when it had that from a peer, and also when what it    *)
(* had was written with a lower version over a higher one.                  *)
RestartNeverOlder ==
  [][\A n \in Node : restarts' # restarts => ~cacheEntryLess(cache'[n], cache[n])]_vars

(* Replicas converge: where nothing expires, all nodes end up with the same *)
(* entry, of the same version, and keep it.                                 *)
Agreement ==
  (\A w \in written : w.expires = 0) => \A m, n \in Node : cache[m] = cache[n]

Convergence == <>[]Agreement

(* docs/architecture.md:63 says that nodes "converge to whichever write     *)
(* actually happened later, on every node, regardless of gossip order".     *)
(* Then, where nothing expires, the newest entry of the mesh changes by a   *)
(* write and by nothing else.                                               *)
Newest == CHOOSE e \in {cache[n] : n \in Node} :
            \A n \in Node : ~cacheEntryLess(e, cache[n])

WinnerOnlyByWrite ==
  [][written' = written => Newest'.value = Newest.value /\ Newest'.node = Newest.node]_vars
=============================================================================
