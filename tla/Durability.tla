----------------------------- MODULE Durability -----------------------------
(***************************************************************************)
(* The write-ahead log and the snapshots of one node: what Consume, Seen    *)
(* and Set leave on disk, what CreateSnapshot and RotateWAL replace there,  *)
(* and what a new process makes of it after a kill.                         *)
(*                                                                          *)
(* Two locks shape the interleavings.  A write holds MeshStore.mu across    *)
(* its change and its LogOperation, so it is one step, and CreateSnapshot   *)
(* copies the state under the same lock.  The file is stamped and written   *)
(* under PersistenceEngine.mu alone, so writes do land between the copy and *)
(* the stamp, and between the file and the rotation of the log; and the     *)
(* automatic snapshot and a requested one overlap freely.                   *)
(*                                                                          *)
(* One rate-limit key, one cache key and a set of nonces stand for all.     *)
(***************************************************************************)
EXTENDS Naturals, FiniteSets

CONSTANTS
  Item,          \* nonces
  Limit,         \* the limit of the rate-limit key
  Snapshotter,   \* goroutines in CreateSnapshot: autoSnapshotLoop, HTTP handlers
  MaxWrites,     \* bound: writes in a behaviour
  MaxSnapshots,  \* bound: calls of CreateSnapshot
  MaxCrashes,    \* bound: kills
  MaxFaults      \* bound: disk errors

ASSUME BoundsAssumption ==
  {Limit, MaxWrites, MaxSnapshots, MaxCrashes, MaxFaults} \subseteq Nat

VARIABLES
  up,        \* FALSE once NewMeshStore has failed: the process does not come up
  live,      \* the state in memory
  wal,       \* the entries of wal.log
  walOpen,   \* whether walFile is an open file
  snap,      \* the newest complete snapshot file
  torn,      \* whether an incomplete file is newer than it
  task,      \* task[s]: where s stands in CreateSnapshot, and its copy
  loaded,    \* snapshots RestoreFromLatestSnapshot has read and not yet applied
  clock,     \* time.Now().UnixNano(): strictly increasing, never set back
  used,      \* how much of each bound is used up
  consumed,  \* history: the Consume calls answered OK
  owed       \* history: what the clients were promised, see Promise

disk  == <<wal, walOpen, snap, torn>>
ghost == <<consumed, owed>>
vars  == <<up, live, wal, walOpen, snap, torn, task, loaded, clock, used, consumed, owed>>

(* The three primitives: the node's own slot of the GCounter, the GSet, and *)
(* the cached value, identified by the clock at which it was Set.           *)
State == [count : Nat, seen : SUBSET Item, entry : Nat]
Empty == [count |-> 0, seen |-> {}, entry |-> 0]

Entry == [ts : Nat, op : {"consume", "set"}] \cup [ts : Nat, op : {"seen"}, item : Item]

Snapshot   == [ts : Nat, state : State]
NoSnapshot == [ts |-> 0, state |-> Empty]

Idle == [pc |-> "idle", ts |-> 0, copy |-> Empty]

TypeOK ==
  /\ up \in BOOLEAN
  /\ live \in State
  /\ wal \in SUBSET Entry
  /\ walOpen \in BOOLEAN
  /\ snap \in Snapshot
  /\ torn \in BOOLEAN
  /\ task \in [Snapshotter ->
                 [pc : {"idle", "copied", "writing", "written"}, ts : Nat, copy : State]]
  /\ loaded \subseteq State
  /\ clock \in Nat
  /\ used \in [writes : Nat, snapshots : Nat, crashes : Nat, faults : Nat]
  /\ consumed \in Nat
  /\ owed \in State

(* a holds at least what b holds; what both hold.                           *)
AtLeast(a, b) == a.count >= b.count /\ b.seen \subseteq a.seen /\ a.entry >= b.entry

Lesser(a, b) == IF a < b THEN a ELSE b

Meet(a, b) ==
  [count |-> Lesser(a.count, b.count),
   seen  |-> a.seen \cap b.seen,
   entry |-> Lesser(a.entry, b.entry)]

----------------------------------------------------------------------------
(* Mutant of ReplayWAL: replays the whole log, whatever the cutoff.         *)
ReplayWALAll(log, afterTimestamp) == log

ReplayWAL(log, afterTimestamp) == {e \in log : e.ts > afterTimestamp}

(* Applying log entries in their order: counts add up, nonces join the set, *)
(* the last Set wins.                                                       *)
Sets(entries) == {e.ts : e \in {f \in entries : f.op = "set"}}

Newest(entries) == CHOOSE t \in Sets(entries) : \A u \in Sets(entries) : u <= t

Replay(st, entries) ==
  [count |-> st.count + Cardinality({e \in entries : e.op = "consume"}),
   seen  |-> st.seen \cup {e.item : e \in {f \in entries : f.op = "seen"}},
   entry |-> IF Sets(entries) = {} THEN st.entry ELSE Newest(entries)]

(* What recoverFromDisk would make of the disk as it is now, an incomplete  *)
(* newer file set aside.                                                    *)
Recovered == Replay(snap.state, ReplayWAL(wal, snap.ts))

----------------------------------------------------------------------------
Init ==
  /\ up = TRUE
  /\ live = Empty
  /\ wal = {}
  /\ walOpen = TRUE
  /\ snap = NoSnapshot
  /\ torn = FALSE
  /\ task = [s \in Snapshotter |-> Idle]
  /\ loaded = {}
  /\ clock = 0
  /\ used = [writes |-> 0, snapshots |-> 0, crashes |-> 0, faults |-> 0]
  /\ consumed = 0
  /\ owed = Empty

(* PersistenceEngine.mu is free: no snapshot file is being written.         *)
EngineFree == \A s \in Snapshotter : task[s].pc # "writing"

(* No call of CreateSnapshot is between its copy and the end of RotateWAL.  *)
Quiet == \A s \in Snapshotter : task[s].pc = "idle"

(* A client may rely on a write that was logged while no snapshot was under *)
(* way, until a RestoreFromLatestSnapshot takes it back.                    *)
Promise(st) == owed' = IF Quiet /\ walOpen THEN st ELSE owed

(* LogOperation.  Its error, when walFile is closed, is ignored by every    *)
(* caller, and the client is answered OK.                                   *)
LogOperation(e) ==
  /\ EngineFree
  /\ clock' = e.ts
  /\ wal' = IF walOpen THEN wal \cup {e} ELSE wal
  /\ UNCHANGED <<walOpen, snap, torn>>

Write(e) ==
  /\ up
  /\ used.writes < MaxWrites
  /\ used' = [used EXCEPT !.writes = @ + 1]
  /\ LogOperation(e)
  /\ UNCHANGED <<up, task, loaded>>

Consume ==
  /\ live.count < Limit
  /\ Write([ts |-> clock + 1, op |-> "consume"])
  /\ live' = [live EXCEPT !.count = @ + 1]
  /\ consumed' = consumed + 1
  /\ Promise([owed EXCEPT !.count = @ + 1])

(* Mutant of Seen: the log entry does not name the nonce.                   *)
SeenUnnamed(i) ==
  /\ i \notin live.seen
  /\ Write([ts |-> clock + 1, op |-> "seen"])
  /\ live' = [live EXCEPT !.seen = @ \cup {i}]
  /\ Promise([owed EXCEPT !.seen = @ \cup {i}])
  /\ UNCHANGED consumed

Seen(i) ==
  /\ i \notin live.seen
  /\ Write([ts |-> clock + 1, op |-> "seen", item |-> i])
  /\ live' = [live EXCEPT !.seen = @ \cup {i}]
  /\ Promise([owed EXCEPT !.seen = @ \cup {i}])
  /\ UNCHANGED consumed

Set ==
  /\ Write([ts |-> clock + 1, op |-> "set"])
  /\ live' = [live EXCEPT !.entry = clock + 1]
  /\ Promise([owed EXCEPT !.entry = clock + 1])
  /\ UNCHANGED consumed

----------------------------------------------------------------------------
(* CreateSnapshot, from the copy under MeshStore.mu ...                     *)
Copy(s) ==
  /\ up
  /\ task[s].pc = "idle"
  /\ used.snapshots < MaxSnapshots
  /\ used' = [used EXCEPT !.snapshots = @ + 1]
  /\ task' = [task EXCEPT ![s] = [pc |-> "copied", ts |-> 0, copy |-> live]]
  /\ UNCHANGED <<up, live, disk, loaded, clock, ghost>>

(* ... to the stamp and the creation of the file, which has the newest name *)
(* from now on and is incomplete until WriteFile returns ...                *)
Stamp(s) ==
  /\ up
  /\ task[s].pc = "copied"
  /\ EngineFree
  /\ clock' = clock + 1
  /\ task' = [task EXCEPT ![s] = [pc |-> "writing", ts |-> clock + 1, copy |-> @.copy]]
  /\ torn' = TRUE
  /\ UNCHANGED <<up, live, wal, walOpen, snap, loaded, used, ghost>>

WriteFile(s) ==
  /\ up
  /\ task[s].pc = "writing"
  /\ snap' = [ts |-> task[s].ts, state |-> task[s].copy]
  /\ torn' = FALSE
  /\ task' = [task EXCEPT ![s].pc = "written"]
  /\ UNCHANGED <<up, live, wal, walOpen, loaded, clock, used, ghost>>

(* ... which may fail, on a full disk, and leave the incomplete file behind *)
WriteFileFails(s) ==
  /\ up
  /\ task[s].pc = "writing"
  /\ used.faults < MaxFaults
  /\ used' = [used EXCEPT !.faults = @ + 1]
  /\ task' = [task EXCEPT ![s] = Idle]
  /\ UNCHANGED <<up, live, disk, loaded, clock, ghost>>

(* Mutant of RotateWAL: runs before the snapshot is written.                *)
RotateWALEarly(s) ==
  /\ up
  /\ task[s].pc = "copied"
  /\ EngineFree
  /\ wal' = {}
  /\ walOpen' = TRUE
  /\ UNCHANGED <<up, live, snap, torn, task, loaded, clock, used, ghost>>

(* ... and the rotation: wal.log becomes an archive nobody ever reads.      *)
RotateWAL(s) ==
  /\ up
  /\ task[s].pc = "written"
  /\ EngineFree
  /\ wal' = {}
  /\ walOpen' = TRUE
  /\ task' = [task EXCEPT ![s] = Idle]
  /\ UNCHANGED <<up, live, snap, torn, loaded, clock, used, ghost>>

(* Rotation closes the log first.  When the rename or the opening of the    *)
(* new log fails, it stays closed, with or without its entries.             *)
RotateWALFails(s) ==
  /\ up
  /\ task[s].pc = "written"
  /\ EngineFree
  /\ used.faults < MaxFaults
  /\ used' = [used EXCEPT !.faults = @ + 1]
  /\ wal' \in {wal, {}}
  /\ walOpen' = FALSE
  /\ task' = [task EXCEPT ![s] = Idle]
  /\ UNCHANGED <<up, live, snap, torn, loaded, clock, ghost>>

----------------------------------------------------------------------------
(* RestoreFromLatestSnapshot: reads the newest file under the engine's      *)
(* lock, which is an error when there is none or it is incomplete ...       *)
LoadLatestSnapshot ==
  /\ up
  /\ EngineFree
  /\ ~torn /\ snap # NoSnapshot
  /\ loaded' = loaded \cup {snap.state}
  /\ UNCHANGED <<up, live, disk, task, clock, used, ghost>>

(* ... and applies it later, under the store's lock.  The log keeps the     *)
(* entries of the writes this takes back.  Several handlers may have read   *)
(* the same snapshot.                                                       *)
ApplySnapshot ==
  /\ up
  /\ \E st \in loaded :
       /\ live' = st
       /\ owed' = Meet(owed, st)
       /\ loaded' \in {loaded, loaded \ {st}}
  /\ UNCHANGED <<up, disk, task, clock, used, consumed>>

(* A kill and the start of the next process: NewMeshStore opens the log and *)
(* runs recoverFromDisk, which fails when the newest file is incomplete.    *)
Crash ==
  /\ up
  /\ used.crashes < MaxCrashes
  /\ used' = [used EXCEPT !.crashes = @ + 1]
  /\ up' = ~torn
  /\ live' = IF torn THEN Empty ELSE Recovered
  /\ walOpen' = TRUE
  /\ task' = [s \in Snapshotter |-> Idle]
  /\ loaded' = {}
  /\ UNCHANGED <<wal, snap, torn, clock, ghost>>

----------------------------------------------------------------------------
Next ==
  \/ Consume
  \/ \E i \in Item : Seen(i)
  \/ Set
  \/ \E s \in Snapshotter :
       \/ Copy(s)
       \/ Stamp(s)
       \/ WriteFile(s)
       \/ WriteFileFails(s)
       \/ RotateWAL(s)
       \/ RotateWALFails(s)
  \/ LoadLatestSnapshot
  \/ ApplySnapshot
  \/ Crash

Spec == Init /\ [][Next]_vars

----------------------------------------------------------------------------
(* Durability: what was logged outside snapshots is never lost, from memory *)
(* or from disk: not by overlapping snapshots of which the older copy is    *)
(* stamped last, not by a rotation, not by a file left incomplete (the      *)
(* complete one before it and the log still hold everything), and not by a  *)
(* chain of crashes and restores in between.                                *)
Durable == AtLeast(Recovered, owed) /\ (up => AtLeast(live, owed))

(* Recovery applies no entry twice: "there is no already applied state to   *)
(* double-apply on top of" (recoverFromDisk).  An entry the snapshot has    *)
(* and the log still has, since the process died before RotateWAL, counts   *)
(* once, so no client is refused for consumes nobody made.                  *)
NoDoubleApply == live.count <= consumed /\ Recovered.count <= consumed

(* store/mesh_store.go:888: "Recovery only ever replays WAL entries after   *)
(* the latest snapshot's timestamp anyway, so this is purely a cleanup      *)
(* step, not a correctness one".  Then emptying the log never changes what  *)
(* recovery would give.                                                     *)
RotationIsCleanup == [][wal # {} /\ wal' = {} => Recovered' = Recovered]_vars
=============================================================================
