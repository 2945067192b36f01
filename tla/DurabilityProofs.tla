-------------------------- MODULE DurabilityProofs --------------------------
(***************************************************************************)
(* Durability of the log and the snapshots, for every number of concurrent  *)
(* snapshots, writes, crashes and disk errors.  Durable is not inductive:   *)
(* a rotation empties the log, so the newest snapshot alone has to hold     *)
(* what is owed whenever a rotation is due, hence every copy under way has  *)
(* to hold it from the moment it is taken; and a Set that was replayed has  *)
(* to be the newest, so the log has to be younger than the snapshot's       *)
(* state.                                                                   *)
(***************************************************************************)
EXTENDS Durability, FiniteSetTheorems, WellFoundedInduction, TLAPS

(* Nothing is younger than the clock, and nothing in a snapshot is younger  *)
(* than its stamp.                                                          *)
Clocked ==
  /\ snap.ts <= clock /\ snap.state.entry <= snap.ts
  /\ live.entry <= clock
  /\ \A e \in wal : e.ts <= clock
  /\ \A st \in loaded : st.entry <= clock
  /\ \A s \in Snapshotter :
       /\ task[s].copy.entry <= clock
       /\ task[s].pc = "writing" => task[s].copy.entry <= task[s].ts /\ task[s].ts <= clock

(* Who holds what is owed.                                                  *)
Held ==
  /\ Durable
  /\ \A s \in Snapshotter :
       /\ task[s].pc # "idle" => AtLeast(task[s].copy, owed)
       /\ task[s].pc = "written" => AtLeast(snap.state, owed)

IInv == TypeOK /\ IsFiniteSet(wal) /\ Clocked /\ Held

----------------------------------------------------------------------------
(* A bounded, nonempty set of numbers has a largest element.                *)
LEMMA LargestExists ==
  ASSUME NEW S \in SUBSET Nat, S # {}, NEW c \in Nat, \A u \in S : u <= c
  PROVE  \E t \in S : \A u \in S : u <= t
<1> DEFINE Bounds == {n \in Nat : \A u \in S : u <= n}
           Less == {ss \in Nat \X Nat : ss[1] < ss[2]}
<1>1. Bounds \subseteq Nat /\ Bounds # {}
  OBVIOUS
<1>2. PICK t \in Bounds : \A b \in Bounds : <<b, t>> \notin Less
  <2>1. IsWellFoundedOn(Less, Nat)
    BY NatLessThanWellFounded, Zenon DEF OpToRel
  <2> HIDE DEF Bounds, Less
  <2> QED
    BY <1>1, <2>1, WFMin
<1>3. t \in S
  <2> SUFFICES ASSUME t \notin S
               PROVE  FALSE
    OBVIOUS
  <2>1. t \in Nat /\ \A u \in S : u \in Nat /\ u < t
    OBVIOUS
  <2>4. t > 0
    <3>1. PICK u \in S : TRUE
      OBVIOUS
    <3> QED
      BY <2>1, <3>1
  <2>2. t - 1 \in Nat /\ \A u \in S : u <= t - 1
    BY <2>1, <2>4
  <2>3. <<t - 1, t>> \in Less
    BY <2>1, <2>2
  <2> QED
    BY <1>2, <2>2, <2>3
<1> QED
  BY <1>3

LEMMA EntryFacts ==
  ASSUME NEW e \in Entry
  PROVE  /\ e.ts \in Nat
         /\ e.op = "seen" => e.item \in Item
BY DEF Entry

(* Replaying entries younger than a state's entry, and not younger than c,  *)
(* gives a state that holds at least as much and is not younger than c.     *)
LEMMA ReplayFacts ==
  ASSUME NEW st \in State, NEW E \in SUBSET Entry, IsFiniteSet(E), NEW c \in Nat,
         st.entry <= c, \A e \in E : st.entry <= e.ts /\ e.ts <= c
  PROVE  /\ Replay(st, E) \in State
         /\ AtLeast(Replay(st, E), st)
         /\ Replay(st, E).entry <= c
<1> DEFINE C == {e \in E : e.op = "consume"}
           N == {e.item : e \in {f \in E : f.op = "seen"}}
           L == Replay(st, E).entry
<1>1. Cardinality(C) \in Nat
  BY FS_Subset, FS_CardinalityType
<1>2. N \in SUBSET Item
  BY EntryFacts
<1>3. L \in Nat /\ st.entry <= L /\ L <= c
  <2>1. CASE Sets(E) = {}
    BY <2>1 DEF Replay, State
  <2>2. CASE Sets(E) # {}
    <3>1. Sets(E) \in SUBSET Nat /\ \A u \in Sets(E) : u <= c /\ st.entry <= u
      BY EntryFacts DEF Sets
    <3>2. \E t \in Sets(E) : \A u \in Sets(E) : u <= t
      BY <2>2, <3>1, LargestExists
    <3>3. L \in Sets(E)
      BY <2>2, <3>2 DEF Replay, Newest
    <3> QED
      BY <3>1, <3>3
  <2> QED
    BY <2>1, <2>2
<1>4. Replay(st, E) = [count |-> st.count + Cardinality(C), seen |-> st.seen \cup N, entry |-> L]
  BY DEF Replay
<1>5. st.count \in Nat /\ st.seen \in SUBSET Item
  BY DEF State
<1> HIDE DEF C, N, L
<1>6. Replay(st, E).entry = L
  BY <1>4
<1> QED
  BY <1>1, <1>2, <1>3, <1>4, <1>5, <1>6 DEF State, AtLeast

(* Replaying one more entry, younger than all others, adds what it logged.  *)
LEMMA ReplayOneMore ==
  ASSUME NEW st \in State, NEW E \in SUBSET Entry, IsFiniteSet(E), NEW c \in Nat,
         st.entry <= c, \A e \in E : st.entry <= e.ts /\ e.ts <= c,
         NEW e \in Entry, c < e.ts
  PROVE  LET old == Replay(st, E)
             new == Replay(st, E \cup {e})
         IN  /\ new.count = IF e.op = "consume" THEN old.count + 1 ELSE old.count
             /\ new.seen = IF e.op = "seen" THEN old.seen \cup {e.item} ELSE old.seen
             /\ new.entry = IF e.op = "set" THEN e.ts ELSE old.entry
<1> DEFINE old == Replay(st, E)
           new == Replay(st, E \cup {e})
           C == {f \in E : f.op = "consume"}
           C2 == {f \in E \cup {e} : f.op = "consume"}
           N == {f.item : f \in {g \in E : g.op = "seen"}}
           N2 == {f.item : f \in {g \in E \cup {e} : g.op = "seen"}}
<1>1. e \notin E /\ e.ts \in Nat
  BY EntryFacts
<1>2. IsFiniteSet(C) /\ Cardinality(C) \in Nat
  BY FS_Subset, FS_CardinalityType
<1>3. st.count \in Nat
  BY DEF State
<1>4. old = [count |-> st.count + Cardinality(C), seen |-> st.seen \cup N,
             entry |-> IF Sets(E) = {} THEN st.entry ELSE Newest(E)]
  BY DEF Replay
<1>5. new = [count |-> st.count + Cardinality(C2), seen |-> st.seen \cup N2,
             entry |-> IF Sets(E \cup {e}) = {} THEN st.entry ELSE Newest(E \cup {e})]
  BY DEF Replay
<1>6. e.op \in {"consume", "seen", "set"}
  BY DEF Entry
<1>7. /\ e.op = "consume" => Cardinality(C2) = Cardinality(C) + 1
      /\ e.op # "consume" => C2 = C
  <2>1. e \notin C
    BY <1>1
  <2>2. e.op = "consume" => C2 = C \cup {e}
    OBVIOUS
  <2>3. e.op # "consume" => C2 = C
    OBVIOUS
  <2> QED
    BY <1>2, <2>1, <2>2, <2>3, FS_AddElement
<1>8. /\ e.op = "seen" => N2 = N \cup {e.item}
      /\ e.op # "seen" => N2 = N
  OBVIOUS
<1>9. /\ e.op = "set" => Sets(E \cup {e}) = Sets(E) \cup {e.ts} /\ Newest(E \cup {e}) = e.ts
      /\ e.op # "set" => Sets(E \cup {e}) = Sets(E) /\ Newest(E \cup {e}) = Newest(E)
  <2>1. e.op # "set" => Sets(E \cup {e}) = Sets(E)
    BY DEF Sets
  <2>2. e.op = "set" => Sets(E \cup {e}) = Sets(E) \cup {e.ts}
    BY DEF Sets
  <2>3. \A u \in Sets(E) : u \in Nat /\ u < e.ts
    BY <1>1, EntryFacts DEF Sets
  <2>4. ASSUME NEW t \in Sets(E) \cup {e.ts}, \A u \in Sets(E) \cup {e.ts} : u <= t
        PROVE  t = e.ts
    BY <1>1, <2>3, <2>4
  <2>5. \E t \in Sets(E) \cup {e.ts} : \A u \in Sets(E) \cup {e.ts} : u <= t
    BY <1>1, <2>3
  <2>6. (CHOOSE t \in Sets(E) \cup {e.ts} : \A u \in Sets(E) \cup {e.ts} : u <= t) = e.ts
    BY <2>4, <2>5
  <2> QED
    BY <2>1, <2>2, <2>6 DEF Newest
<1> HIDE DEF old, new, C, C2, N, N2
<1>10. new.count = IF e.op = "consume" THEN old.count + 1 ELSE old.count
  BY <1>2, <1>3, <1>7, <1>4, <1>5
<1>11. new.seen = IF e.op = "seen" THEN old.seen \cup {e.item} ELSE old.seen
  BY <1>8, <1>4, <1>5
<1>12. new.entry = IF e.op = "set" THEN e.ts ELSE old.entry
  BY <1>9, <1>4, <1>5
<1> QED
  BY <1>10, <1>11, <1>12 DEF old, new

(* What recovery makes of a snapshot and a log, if the clock reads c.       *)
LEMMA RecoveryFacts ==
  ASSUME NEW st \in State, NEW log \in SUBSET Entry, IsFiniteSet(log),
         NEW ts \in Nat, NEW c \in Nat,
         st.entry <= ts, ts <= c, \A e \in log : e.ts <= c
  PROVE  /\ Replay(st, ReplayWAL(log, ts)) \in State
         /\ AtLeast(Replay(st, ReplayWAL(log, ts)), st)
         /\ Replay(st, ReplayWAL(log, ts)).entry <= c
<1> DEFINE E == ReplayWAL(log, ts)
<1>1. st.entry \in Nat
  BY DEF State
<1>2. E \in SUBSET Entry /\ IsFiniteSet(E)
  BY FS_Subset DEF ReplayWAL
<1>3. \A e \in E : st.entry <= e.ts /\ e.ts <= c
  BY <1>1, EntryFacts DEF ReplayWAL
<1> HIDE DEF E
<1>4. /\ Replay(st, E) \in State
      /\ AtLeast(Replay(st, E), st)
      /\ Replay(st, E).entry <= c
  BY <1>1, <1>2, <1>3, ReplayFacts
<1> QED
  BY <1>4 DEF E

LEMMA AtLeastTransitive ==
  ASSUME NEW a \in State, NEW b \in State, NEW c \in State, AtLeast(a, b), AtLeast(b, c)
  PROVE  AtLeast(a, c)
BY DEF AtLeast, State

LEMMA AtLeastReflexive ==
  ASSUME NEW a \in State
  PROVE  AtLeast(a, a)
BY DEF AtLeast, State

LEMMA MeetIsLower ==
  ASSUME NEW a \in State, NEW b \in State
  PROVE  Meet(a, b) \in State /\ AtLeast(a, Meet(a, b)) /\ AtLeast(b, Meet(a, b))
<1>1. Lesser(a.count, b.count) \in Nat /\ Lesser(a.entry, b.entry) \in Nat
  BY DEF Lesser, State
<1> QED
  BY <1>1 DEF Meet, Lesser, AtLeast, State

(* The state new is the state old after the write that e logs.              *)
Extends(new, old, e) ==
  /\ new \in State
  /\ new.count = IF e.op = "consume" THEN old.count + 1 ELSE old.count
  /\ new.seen = IF e.op = "seen" THEN old.seen \cup {e.item} ELSE old.seen
  /\ new.entry = IF e.op = "set" THEN e.ts ELSE old.entry

LEMMA ExtendsHolds ==
  ASSUME NEW a \in State, NEW b \in State, NEW e \in Entry, NEW a2, NEW b2,
         Extends(a2, a, e), AtLeast(a, b), a.entry < e.ts
  PROVE  /\ AtLeast(a2, b)
         /\ Extends(b2, b, e) => AtLeast(a2, b2)
BY EntryFacts DEF Extends, AtLeast, State

----------------------------------------------------------------------------
LEMMA InitIInv == Init => IInv
<1> SUFFICES ASSUME Init
             PROVE  IInv
  OBVIOUS
<1>1. Empty \in State /\ Empty.entry = 0
  BY DEF Empty, State
<1>2. TypeOK
  BY <1>1 DEF Init, TypeOK, Idle, NoSnapshot, Snapshot
<1>3. IsFiniteSet(wal)
  BY FS_EmptySet DEF Init
<1>4. Clocked
  BY <1>1 DEF Init, Clocked, Idle, NoSnapshot
<1>5. AtLeast(Recovered, Empty)
  <2>1. /\ snap.state = Empty /\ snap.ts = 0 /\ wal = {} /\ 0 \in Nat /\ 0 <= 0
    BY DEF Init, NoSnapshot
  <2> QED
    BY <1>1, <1>3, <2>1, RecoveryFacts DEF Recovered
<1>6. Held
  BY <1>1, <1>5, AtLeastReflexive DEF Init, Held, Durable, Idle
<1> QED
  BY <1>2, <1>3, <1>4, <1>6 DEF IInv

LEMMA RecoveredFacts ==
  ASSUME IInv
  PROVE  /\ Recovered \in State
         /\ AtLeast(Recovered, snap.state)
         /\ Recovered.entry <= clock
<1>1. /\ snap.state \in State /\ snap.ts \in Nat /\ wal \in SUBSET Entry /\ clock \in Nat
  BY DEF IInv, TypeOK, Snapshot
<1> QED
  BY <1>1, RecoveryFacts DEF IInv, Clocked, Recovered

(* What a write adds to the log, recovery adds to the state; with the log   *)
(* closed, nothing.                                                         *)
LEMMA WriteExtendsRecovered ==
  ASSUME IInv, NEW e \in Entry, e.ts = clock + 1, Write(e)
  PROVE  \/ ~walOpen /\ Recovered' = Recovered
         \/ Extends(Recovered', Recovered, e)
<1>1. /\ clock \in Nat /\ clock' = clock + 1
      /\ wal' = IF walOpen THEN wal \cup {e} ELSE wal
      /\ UNCHANGED snap
  BY DEF Write, LogOperation, IInv, TypeOK
<1>2. snap.state \in State /\ snap.ts \in Nat /\ wal \in SUBSET Entry
  BY DEF IInv, TypeOK, Snapshot
<1>3. IsFiniteSet(wal') /\ wal' \in SUBSET Entry /\ \A f \in wal' : f.ts <= clock'
  BY <1>1, <1>2, FS_AddElement, EntryFacts DEF IInv, Clocked
<1>4. CASE ~walOpen
  BY <1>1, <1>4 DEF Recovered
<1>5. CASE walOpen
  <2> DEFINE E == ReplayWAL(wal, snap.ts)
  <2>1. ReplayWAL(wal', snap'.ts) = E \cup {e}
    BY <1>1, <1>2, <1>5 DEF ReplayWAL, IInv, Clocked
  <2>2. E \in SUBSET Entry /\ IsFiniteSet(E)
    BY <1>2, FS_Subset DEF ReplayWAL, IInv
  <2>3. /\ snap.state.entry <= clock
        /\ \A f \in E : snap.state.entry <= f.ts /\ f.ts <= clock
    BY <1>1, <1>2, EntryFacts DEF IInv, Clocked, ReplayWAL, State
  <2>4. snap.state \in State /\ clock \in Nat /\ clock < e.ts
    BY <1>1, <1>2
  <2> HIDE DEF E
  <2>5. /\ Replay(snap.state, E \cup {e}).count
             = IF e.op = "consume" THEN Replay(snap.state, E).count + 1
               ELSE Replay(snap.state, E).count
        /\ Replay(snap.state, E \cup {e}).seen
             = IF e.op = "seen" THEN Replay(snap.state, E).seen \cup {e.item}
               ELSE Replay(snap.state, E).seen
        /\ Replay(snap.state, E \cup {e}).entry
             = IF e.op = "set" THEN e.ts ELSE Replay(snap.state, E).entry
    BY <2>2, <2>3, <2>4, ReplayOneMore
  <2>6. /\ Recovered = Replay(snap.state, E)
        /\ Recovered' = Replay(snap.state, E \cup {e})
    BY <1>1, <2>1 DEF Recovered, E
  <2>7. Recovered' \in State
    <3>1. snap.state.entry <= snap.ts /\ snap.ts <= clock' /\ clock' \in Nat
      BY <1>1, <1>2 DEF IInv, Clocked
    <3>2. Recovered' = Replay(snap.state, ReplayWAL(wal', snap.ts))
      BY <1>1 DEF Recovered
    <3> QED
      BY <1>2, <1>3, <3>1, <3>2, RecoveryFacts
  <2> QED
    BY <2>5, <2>6, <2>7 DEF Extends
<1> QED
  BY <1>4, <1>5

(* A write, which clients may rely on only if no snapshot is under way.     *)
LEMMA WriteKeepsIInv ==
  ASSUME IInv, NEW e \in Entry, e.ts = clock + 1, Write(e),
         Extends(live', live, e), consumed' \in Nat,
         owed' = owed \/ (Quiet /\ walOpen /\ Extends(owed', owed, e))
  PROVE  IInv'
<1>1. /\ clock \in Nat /\ clock' = clock + 1 /\ e.ts = clock' /\ up
      /\ wal' = IF walOpen THEN wal \cup {e} ELSE wal
      /\ UNCHANGED <<up, walOpen, snap, torn, task, loaded>>
      /\ used' \in [writes : Nat, snapshots : Nat, crashes : Nat, faults : Nat]
  BY DEF Write, LogOperation, IInv, TypeOK
<1>2. /\ live \in State /\ owed \in State /\ live' \in State /\ owed' \in State
      /\ snap.state \in State /\ snap.ts \in Nat /\ wal \in SUBSET Entry
  BY DEF IInv, TypeOK, Extends, Snapshot
<1>3. IsFiniteSet(wal')
  BY <1>1, FS_AddElement DEF IInv
<1>4. TypeOK'
  BY <1>1, <1>2 DEF IInv, TypeOK
<1>5. live.entry \in Nat /\ live.entry <= clock /\ live'.entry <= clock'
  BY <1>1, <1>2 DEF Extends, IInv, Clocked, State
<1>6. Clocked'
  <2>1. \A f \in wal' : f.ts <= clock'
    BY <1>1, EntryFacts, <1>2 DEF IInv, Clocked
  <2>2. /\ snap'.ts <= clock' /\ snap'.state.entry <= snap'.ts
        /\ \A st \in loaded' : st.entry <= clock'
    BY <1>1, <1>2 DEF IInv, Clocked, TypeOK, State
  <2>3. \A s \in Snapshotter :
          /\ task'[s].copy.entry <= clock'
          /\ task'[s].pc = "writing" => task'[s].copy.entry <= task'[s].ts /\ task'[s].ts <= clock'
    <3> SUFFICES ASSUME NEW s \in Snapshotter
                 PROVE  /\ task[s].copy.entry <= clock + 1
                        /\ task[s].pc = "writing"
                             => task[s].copy.entry <= task[s].ts /\ task[s].ts <= clock + 1
      BY <1>1
    <3>1. task[s].copy.entry \in Nat /\ task[s].ts \in Nat
      BY DEF IInv, TypeOK, State
    <3> QED
      BY <1>1, <3>1 DEF IInv, Clocked
  <2> QED
    BY <1>5, <2>1, <2>2, <2>3 DEF Clocked
<1>7. \/ ~walOpen /\ Recovered' = Recovered
      \/ Extends(Recovered', Recovered, e)
  BY WriteExtendsRecovered
<1>8. Durable'
  <2>1. AtLeast(live', owed')
    BY <1>1, <1>2, <1>5, ExtendsHolds DEF IInv, Held, Durable
  <2>2. AtLeast(Recovered', owed')
    <3>1. Recovered \in State /\ Recovered.entry < e.ts /\ AtLeast(Recovered, owed)
      <4>1. Recovered \in State /\ Recovered.entry <= clock
        BY RecoveredFacts
      <4>2. Recovered.entry \in Nat
        BY <4>1 DEF State
      <4> QED
        BY <1>1, <4>1, <4>2 DEF IInv, Held, Durable
    <3>2. CASE Extends(Recovered', Recovered, e)
      BY <1>2, <3>1, <3>2, ExtendsHolds
    <3>3. CASE ~walOpen /\ Recovered' = Recovered
      BY <3>1, <3>3
    <3> QED
      BY <1>7, <3>2, <3>3
  <2> QED
    BY <2>1, <2>2 DEF Durable
<1>9. Held'
  <2>1. CASE owed' = owed
    BY <1>1, <1>8, <2>1 DEF IInv, Held
  <2>2. CASE Quiet
    BY <1>1, <1>8, <2>2 DEF Held, Quiet
  <2> QED
    BY <2>1, <2>2
<1> QED
  BY <1>3, <1>4, <1>6, <1>9 DEF IInv

LEMMA ConsumeKeepsIInv ==
  ASSUME IInv, Consume
  PROVE  IInv'
<1> DEFINE e == [ts |-> clock + 1, op |-> "consume"]
<1>1. /\ clock \in Nat /\ live \in State /\ owed \in State /\ consumed \in Nat
  BY DEF IInv, TypeOK
<1>2. e \in Entry /\ e.ts = clock + 1 /\ Write(e)
  BY <1>1 DEF Entry, Consume
<1>3. Extends(live', live, e) /\ consumed' \in Nat
  BY <1>1 DEF Consume, Extends, State
<1>4. owed' = owed \/ (Quiet /\ walOpen /\ Extends(owed', owed, e))
  BY <1>1 DEF Consume, Promise, Extends, State
<1> HIDE DEF e
<1> QED
  BY <1>2, <1>3, <1>4, WriteKeepsIInv

LEMMA SeenKeepsIInv ==
  ASSUME IInv, NEW i \in Item, Seen(i)
  PROVE  IInv'
<1> DEFINE e == [ts |-> clock + 1, op |-> "seen", item |-> i]
<1>1. /\ clock \in Nat /\ live \in State /\ owed \in State /\ consumed \in Nat
  BY DEF IInv, TypeOK
<1>2. e \in Entry /\ e.ts = clock + 1 /\ Write(e)
  BY <1>1 DEF Entry, Seen
<1>3. Extends(live', live, e) /\ consumed' \in Nat
  BY <1>1 DEF Seen, Extends, State
<1>4. owed' = owed \/ (Quiet /\ walOpen /\ Extends(owed', owed, e))
  BY <1>1 DEF Seen, Promise, Extends, State
<1> HIDE DEF e
<1> QED
  BY <1>2, <1>3, <1>4, WriteKeepsIInv

LEMMA SetKeepsIInv ==
  ASSUME IInv, Set
  PROVE  IInv'
<1> DEFINE e == [ts |-> clock + 1, op |-> "set"]
<1>1. /\ clock \in Nat /\ live \in State /\ owed \in State /\ consumed \in Nat
  BY DEF IInv, TypeOK
<1>2. e \in Entry /\ e.ts = clock + 1 /\ Write(e)
  BY <1>1 DEF Entry, Set
<1>3. Extends(live', live, e) /\ consumed' \in Nat
  BY <1>1 DEF Set, Extends, State
<1>4. owed' = owed \/ (Quiet /\ walOpen /\ Extends(owed', owed, e))
  BY <1>1 DEF Set, Promise, Extends, State
<1> HIDE DEF e
<1> QED
  BY <1>2, <1>3, <1>4, WriteKeepsIInv

----------------------------------------------------------------------------
LEMMA CopyKeepsIInv ==
  ASSUME IInv, NEW s \in Snapshotter, Copy(s)
  PROVE  IInv'
<1>1. /\ task' = [task EXCEPT ![s] = [pc |-> "copied", ts |-> 0, copy |-> live]]
      /\ live \in State /\ up /\ task[s].pc = "idle"
      /\ UNCHANGED <<up, live, wal, walOpen, snap, torn, loaded, clock, consumed, owed>>
      /\ used' \in [writes : Nat, snapshots : Nat, crashes : Nat, faults : Nat]
  BY DEF Copy, disk, ghost, IInv, TypeOK
<1>2. TypeOK'
  BY <1>1 DEF IInv, TypeOK
<1>3. Clocked'
  BY <1>1 DEF IInv, TypeOK, Clocked
<1>4. Recovered' = Recovered
  BY <1>1 DEF Recovered
<1>5. Held'
  BY <1>1, <1>4 DEF IInv, TypeOK, Held, Durable
<1> QED
  BY <1>1, <1>2, <1>3, <1>5 DEF IInv

LEMMA StampKeepsIInv ==
  ASSUME IInv, NEW s \in Snapshotter, Stamp(s)
  PROVE  IInv'
<1>1. /\ task' = [task EXCEPT ![s] = [pc |-> "writing", ts |-> clock + 1, copy |-> task[s].copy]]
      /\ task[s].pc = "copied" /\ task[s].copy \in State
      /\ clock \in Nat /\ clock' = clock + 1 /\ torn' = TRUE
      /\ UNCHANGED <<up, live, wal, walOpen, snap, loaded, used, consumed, owed>>
  BY DEF Stamp, ghost, IInv, TypeOK
<1>2. TypeOK'
  BY <1>1 DEF IInv, TypeOK
<1>3. Clocked'
  <2>1. \A e \in wal' : e.ts <= clock'
    BY <1>1, EntryFacts DEF IInv, TypeOK, Clocked
  <2>2. /\ snap'.ts <= clock' /\ snap'.state.entry <= snap'.ts /\ live'.entry <= clock'
        /\ \A st \in loaded' : st.entry <= clock'
    BY <1>1 DEF IInv, TypeOK, Clocked, State, Snapshot
  <2>3. \A t \in Snapshotter : task[t].copy.entry \in Nat /\ task[t].ts \in Nat
    BY DEF IInv, TypeOK, State
  <2>4. \A t \in Snapshotter :
          /\ task'[t].copy.entry <= clock'
          /\ task'[t].pc = "writing" => task'[t].copy.entry <= task'[t].ts /\ task'[t].ts <= clock'
    <3> TAKE t \in Snapshotter
    <3>1. CASE t = s
      BY <1>1, <2>3, <3>1 DEF IInv, TypeOK, Clocked
    <3>2. CASE t # s
      BY <1>1, <2>3, <3>2 DEF IInv, TypeOK, Clocked
    <3> QED
      BY <3>1, <3>2
  <2> QED
    BY <2>1, <2>2, <2>4 DEF Clocked
<1>4. Recovered' = Recovered
  BY <1>1 DEF Recovered
<1>5. Held'
  BY <1>1, <1>4 DEF IInv, TypeOK, Held, Durable
<1> QED
  BY <1>1, <1>2, <1>3, <1>5 DEF IInv

(* The snapshot that becomes the newest holds what is owed, whichever copy  *)
(* it was made from and whatever the log does.                              *)
LEMMA WriteFileKeepsIInv ==
  ASSUME IInv, NEW s \in Snapshotter, WriteFile(s)
  PROVE  IInv'
<1>1. /\ task' = [task EXCEPT ![s] = [pc |-> "written", ts |-> task[s].ts, copy |-> task[s].copy]]
      /\ task[s].pc = "writing" /\ task[s].copy \in State /\ task[s].ts \in Nat
      /\ snap' = [ts |-> task[s].ts, state |-> task[s].copy] /\ torn' = FALSE
      /\ UNCHANGED <<up, live, wal, walOpen, loaded, clock, used, consumed, owed>>
  <2>1. task[s] \in [pc : {"idle", "copied", "writing", "written"}, ts : Nat, copy : State]
    BY DEF IInv, TypeOK
  <2>2. [task[s] EXCEPT !.pc = "written"]
          = [pc |-> "written", ts |-> task[s].ts, copy |-> task[s].copy]
    BY <2>1
  <2>3. task' = [task EXCEPT ![s] = [task[s] EXCEPT !.pc = "written"]]
    BY DEF WriteFile, IInv, TypeOK
  <2> QED
    BY <2>1, <2>2, <2>3 DEF WriteFile, ghost
<1>2. TypeOK'
  BY <1>1 DEF IInv, TypeOK, Snapshot
<1>3. Clocked'
  BY <1>1 DEF IInv, TypeOK, Clocked
<1>4. AtLeast(task[s].copy, owed) /\ owed \in State
  BY <1>1 DEF IInv, TypeOK, Held
<1>5. AtLeast(Recovered', owed)
  <2>1. /\ task[s].copy.entry <= task[s].ts /\ task[s].ts <= clock /\ clock \in Nat
        /\ wal \in SUBSET Entry /\ IsFiniteSet(wal) /\ \A e \in wal : e.ts <= clock
    BY <1>1 DEF IInv, TypeOK, Clocked
  <2>2. Recovered' = Replay(task[s].copy, ReplayWAL(wal, task[s].ts))
    BY <1>1 DEF Recovered
  <2>3. Recovered' \in State /\ AtLeast(Recovered', task[s].copy)
    BY <1>1, <2>1, <2>2, RecoveryFacts
  <2> QED
    BY <1>1, <1>4, <2>3, AtLeastTransitive
<1>6. Held'
  BY <1>1, <1>4, <1>5 DEF IInv, TypeOK, Held, Durable
<1> QED
  BY <1>1, <1>2, <1>3, <1>6 DEF IInv

LEMMA WriteFileFailsKeepsIInv ==
  ASSUME IInv, NEW s \in Snapshotter, WriteFileFails(s)
  PROVE  IInv'
<1>1. /\ task' = [task EXCEPT ![s] = Idle]
      /\ UNCHANGED <<up, live, wal, walOpen, snap, torn, loaded, clock, consumed, owed>>
      /\ used' \in [writes : Nat, snapshots : Nat, crashes : Nat, faults : Nat]
  BY DEF WriteFileFails, disk, ghost, IInv, TypeOK
<1>2. /\ Idle \in [pc : {"idle", "copied", "writing", "written"}, ts : Nat, copy : State]
      /\ Idle.pc = "idle" /\ Idle.copy.entry = 0 /\ clock \in Nat
  BY DEF Idle, Empty, State, IInv, TypeOK
<1>3. TypeOK'
  BY <1>1, <1>2 DEF IInv, TypeOK
<1>4. Clocked'
  BY <1>1, <1>2 DEF IInv, TypeOK, Clocked
<1>5. Recovered' = Recovered
  BY <1>1 DEF Recovered
<1>6. Held'
  BY <1>1, <1>2, <1>5 DEF IInv, TypeOK, Held, Durable
<1> QED
  BY <1>1, <1>3, <1>4, <1>6 DEF IInv

(* A rotation, successful or not, after a snapshot that holds what is owed. *)
LEMMA RotationKeepsIInv ==
  ASSUME IInv, NEW s \in Snapshotter, RotateWAL(s) \/ RotateWALFails(s)
  PROVE  IInv'
<1>1. /\ task' = [task EXCEPT ![s] = Idle] /\ task[s].pc = "written"
      /\ wal' \in {wal, {}} /\ walOpen' \in BOOLEAN
      /\ UNCHANGED <<up, live, snap, torn, loaded, clock, consumed, owed>>
      /\ used' \in [writes : Nat, snapshots : Nat, crashes : Nat, faults : Nat]
  <2>1. CASE RotateWAL(s)
    BY <2>1 DEF RotateWAL, ghost, IInv, TypeOK
  <2>2. CASE RotateWALFails(s)
    <3>1. /\ used' \in [writes : Nat, snapshots : Nat, crashes : Nat, faults : Nat]
          /\ walOpen' = FALSE
      BY <2>2 DEF RotateWALFails, IInv, TypeOK
    <3> QED
      BY <2>2, <3>1 DEF RotateWALFails, ghost
  <2> QED
    BY <2>1, <2>2
<1>2. /\ Idle \in [pc : {"idle", "copied", "writing", "written"}, ts : Nat, copy : State]
      /\ Idle.pc = "idle" /\ Idle.copy.entry = 0 /\ clock \in Nat
  BY DEF Idle, Empty, State, IInv, TypeOK
<1>3. TypeOK' /\ IsFiniteSet(wal')
  BY <1>1, <1>2, FS_EmptySet DEF IInv, TypeOK
<1>4. Clocked'
  BY <1>1, <1>2 DEF IInv, TypeOK, Clocked
<1>5. AtLeast(Recovered', owed)
  <2>1. /\ snap.state \in State /\ snap.ts \in Nat /\ snap.state.entry <= snap.ts
        /\ snap.ts <= clock /\ owed \in State
        /\ wal' \in SUBSET Entry /\ \A e \in wal' : e.ts <= clock
        /\ AtLeast(snap.state, owed)
    BY <1>1 DEF IInv, TypeOK, Clocked, Held, Snapshot
  <2>2. Recovered' = Replay(snap.state, ReplayWAL(wal', snap.ts))
    BY <1>1 DEF Recovered
  <2>3. Recovered' \in State /\ AtLeast(Recovered', snap.state)
    BY <1>2, <1>3, <2>1, <2>2, RecoveryFacts
  <2> QED
    BY <2>1, <2>3, AtLeastTransitive
<1>6. Held'
  BY <1>1, <1>2, <1>5 DEF IInv, TypeOK, Held, Durable
<1> QED
  BY <1>3, <1>4, <1>6 DEF IInv

----------------------------------------------------------------------------
LEMMA LoadKeepsIInv ==
  ASSUME IInv, LoadLatestSnapshot
  PROVE  IInv'
<1>1. /\ loaded' = loaded \cup {snap.state}
      /\ UNCHANGED <<up, live, wal, walOpen, snap, torn, task, clock, used, consumed, owed>>
  BY DEF LoadLatestSnapshot, disk, ghost
<1>2. TypeOK'
  BY <1>1 DEF IInv, TypeOK, Snapshot
<1>3. Clocked'
  BY <1>1 DEF IInv, TypeOK, Clocked, Snapshot, State
<1>4. Recovered' = Recovered
  BY <1>1 DEF Recovered
<1>5. Held'
  BY <1>1, <1>4 DEF IInv, Held, Durable
<1> QED
  BY <1>1, <1>2, <1>3, <1>5 DEF IInv

(* A restore takes back what the snapshot does not have.                    *)
LEMMA ApplyKeepsIInv ==
  ASSUME IInv, ApplySnapshot
  PROVE  IInv'
<1>1. PICK st \in loaded : /\ live' = st /\ owed' = Meet(owed, st)
                           /\ loaded' \in {loaded, loaded \ {st}}
  BY DEF ApplySnapshot
<1>2. UNCHANGED <<up, wal, walOpen, snap, torn, task, clock, used, consumed>>
  BY DEF ApplySnapshot, disk
<1>3. /\ st \in State /\ owed \in State /\ owed' \in State
      /\ AtLeast(owed, owed') /\ AtLeast(st, owed')
  BY <1>1, MeetIsLower DEF IInv, TypeOK
<1>4. TypeOK'
  BY <1>1, <1>2, <1>3 DEF IInv, TypeOK
<1>5. Clocked'
  BY <1>1, <1>2 DEF IInv, Clocked
<1>6. Recovered' = Recovered /\ Recovered \in State /\ snap.state \in State
  BY <1>2, RecoveredFacts DEF Recovered, IInv, TypeOK, Snapshot
<1>7. Durable'
  BY <1>1, <1>3, <1>6, AtLeastTransitive DEF IInv, Held, Durable
<1>8. \A s \in Snapshotter :
        /\ task[s].pc # "idle" => AtLeast(task[s].copy, owed')
        /\ task[s].pc = "written" => AtLeast(snap.state, owed')
  <2> TAKE s \in Snapshotter
  <2>1. task[s].copy \in State
    BY DEF IInv, TypeOK
  <2> QED
    BY <1>3, <1>6, <2>1, AtLeastTransitive DEF IInv, Held
<1>9. Held'
  BY <1>2, <1>7, <1>8 DEF Held
<1> QED
  BY <1>2, <1>4, <1>5, <1>9 DEF IInv

LEMMA CrashKeepsIInv ==
  ASSUME IInv, Crash
  PROVE  IInv'
<1>1. /\ live' = IF torn THEN Empty ELSE Recovered
      /\ up' = ~torn /\ torn \in BOOLEAN /\ walOpen' = TRUE
      /\ task' = [s \in Snapshotter |-> Idle] /\ loaded' = {}
      /\ UNCHANGED <<wal, snap, torn, clock, consumed, owed>>
      /\ used' \in [writes : Nat, snapshots : Nat, crashes : Nat, faults : Nat]
  BY DEF Crash, ghost, IInv, TypeOK
<1>2. /\ Idle \in [pc : {"idle", "copied", "writing", "written"}, ts : Nat, copy : State]
      /\ Idle.pc = "idle" /\ Idle.copy.entry = 0 /\ clock \in Nat
      /\ Empty \in State /\ Empty.entry = 0
  BY DEF Idle, Empty, State, IInv, TypeOK
<1>3. Recovered \in State /\ Recovered.entry <= clock
  BY RecoveredFacts
<1>4. TypeOK'
  BY <1>1, <1>2, <1>3 DEF IInv, TypeOK
<1>5. Clocked'
  BY <1>1, <1>2, <1>3 DEF IInv, Clocked
<1>6. Recovered' = Recovered
  BY <1>1 DEF Recovered
<1>7. Durable'
  BY <1>1, <1>6 DEF IInv, Held, Durable
<1>8. Held'
  BY <1>1, <1>2, <1>7 DEF Held
<1> QED
  BY <1>1, <1>4, <1>5, <1>8 DEF IInv

LEMMA NextKeepsIInv == IInv /\ [Next]_vars => IInv'
<1> SUFFICES ASSUME IInv, [Next]_vars
             PROVE  IInv'
  OBVIOUS
<1>1. CASE Consume
  BY <1>1, ConsumeKeepsIInv
<1>2. ASSUME NEW i \in Item, Seen(i)
      PROVE  IInv'
  BY <1>2, SeenKeepsIInv
<1>3. CASE Set
  BY <1>3, SetKeepsIInv
<1>4. ASSUME NEW s \in Snapshotter, Copy(s)
      PROVE  IInv'
  BY <1>4, CopyKeepsIInv
<1>5. ASSUME NEW s \in Snapshotter, Stamp(s)
      PROVE  IInv'
  BY <1>5, StampKeepsIInv
<1>6. ASSUME NEW s \in Snapshotter, WriteFile(s)
      PROVE  IInv'
  BY <1>6, WriteFileKeepsIInv
<1>7. ASSUME NEW s \in Snapshotter, WriteFileFails(s)
      PROVE  IInv'
  BY <1>7, WriteFileFailsKeepsIInv
<1>8. ASSUME NEW s \in Snapshotter, RotateWAL(s) \/ RotateWALFails(s)
      PROVE  IInv'
  BY <1>8, RotationKeepsIInv
<1>9. CASE LoadLatestSnapshot
  BY <1>9, LoadKeepsIInv
<1>10. CASE ApplySnapshot
  BY <1>10, ApplyKeepsIInv
<1>11. CASE Crash
  BY <1>11, CrashKeepsIInv
<1>12. CASE UNCHANGED vars
  <2>1. Recovered' = Recovered
    BY <1>12 DEF vars, Recovered
  <2> QED
    BY <1>12, <2>1 DEF vars, IInv, TypeOK, Clocked, Held, Durable
<1> QED
  BY <1>1, <1>2, <1>3, <1>4, <1>5, <1>6, <1>7, <1>8, <1>9, <1>10, <1>11, <1>12 DEF Next

(* The strengthened invariant holds in every reachable state.               *)
THEOREM Invariance == Spec => []IInv
BY InitIInv, NextKeepsIInv, PTL DEF Spec

(* Every variable keeps its type; in particular what recovery makes of any  *)
(* disk the program leaves is a state of the three primitives.              *)
THEOREM TypeCorrect == Spec => []TypeOK
<1>1. IInv => TypeOK
  BY DEF IInv
<1> QED
  BY <1>1, Invariance, PTL

(* What was logged outside snapshots survives, in memory and on disk, for   *)
(* any number of overlapping snapshots, restores, crashes and disk errors.  *)
THEOREM DurableHolds == Spec => []Durable
<1>1. IInv => Durable
  BY DEF IInv, Held
<1> QED
  BY <1>1, Invariance, PTL

----------------------------------------------------------------------------
(* Nobody counts more consumes than were answered OK: not the memory, nor   *)
(* the recovery, nor a state that may yet become either.  A file about to   *)
(* become the newest covers the whole log, as no write gets between its     *)
(* stamp and its completion.                                                *)
Counted ==
  /\ NoDoubleApply
  /\ \A st \in loaded : st.count <= consumed
  /\ \A s \in Snapshotter :
       /\ task[s].copy.count <= consumed
       /\ task[s].pc = "writing" => \A e \in wal : e.ts <= task[s].ts

(* With nothing to replay, recovery takes the snapshot as it is.            *)
LEMMA ReplayNothing ==
  ASSUME NEW st \in State
  PROVE  Replay(st, {}).count = st.count
<1>1. {e \in {} : e.op = "consume"} = {}
  OBVIOUS
<1>2. Cardinality({}) = 0 /\ st.count \in Nat
  BY FS_EmptySet DEF State
<1> QED
  BY <1>1, <1>2 DEF Replay

LEMMA CountTypes ==
  ASSUME IInv
  PROVE  /\ consumed \in Nat /\ live.count \in Nat /\ Recovered.count \in Nat
         /\ snap.state.count \in Nat /\ snap.state.count <= Recovered.count
         /\ \A st \in loaded : st.count \in Nat
         /\ \A s \in Snapshotter : task[s].copy.count \in Nat
<1>1. Recovered \in State /\ AtLeast(Recovered, snap.state)
  BY RecoveredFacts
<1>2. live \in State /\ snap.state \in State /\ consumed \in Nat
  BY DEF IInv, TypeOK, Snapshot
<1>3. \A st \in loaded : st \in State
  BY DEF IInv, TypeOK
<1>4. \A s \in Snapshotter : task[s].copy \in State
  BY DEF IInv, TypeOK
<1> QED
  BY <1>1, <1>2, <1>3, <1>4 DEF State, AtLeast

LEMMA InitCounted == Init => Counted
<1> SUFFICES ASSUME Init
             PROVE  Counted
  OBVIOUS
<1>1. Empty \in State /\ Empty.count = 0
  BY DEF Empty, State
<1>2. Recovered = Replay(Empty, {})
  BY DEF Init, Recovered, ReplayWAL, NoSnapshot
<1>3. Recovered.count = 0
  BY <1>1, <1>2, ReplayNothing
<1> QED
  BY <1>1, <1>3 DEF Init, Counted, NoDoubleApply, Idle

(* A write counts one more on every side, or on neither.                    *)
LEMMA WriteKeepsCounted ==
  ASSUME IInv, Counted, NEW e \in Entry, e.ts = clock + 1, Write(e),
         Extends(live', live, e),
         consumed' = IF e.op = "consume" THEN consumed + 1 ELSE consumed
  PROVE  Counted'
<1>1. /\ consumed \in Nat /\ live.count \in Nat /\ Recovered.count \in Nat
      /\ \A st \in loaded : st.count \in Nat
      /\ \A s \in Snapshotter : task[s].copy.count \in Nat
  BY CountTypes
<1>2. UNCHANGED <<task, loaded>> /\ EngineFree
  BY DEF Write, LogOperation
<1>3. live'.count <= consumed'
  BY <1>1 DEF Extends, Counted, NoDoubleApply
<1>4. Recovered'.count <= consumed'
  <2>1. CASE Recovered' = Recovered
    BY <1>1, <2>1 DEF Counted, NoDoubleApply
  <2>2. CASE Extends(Recovered', Recovered, e)
    BY <1>1, <2>2 DEF Extends, Counted, NoDoubleApply
  <2> QED
    BY <2>1, <2>2, WriteExtendsRecovered
<1>5. consumed' \in Nat /\ consumed <= consumed'
  BY <1>1
<1>6. \A st \in loaded' : st.count <= consumed'
  BY <1>1, <1>2, <1>5 DEF Counted
<1>7. \A s \in Snapshotter : task'[s].copy.count <= consumed' /\ task'[s].pc # "writing"
  BY <1>1, <1>2, <1>5 DEF Counted, EngineFree
<1> QED
  BY <1>3, <1>4, <1>6, <1>7 DEF Counted, NoDoubleApply

LEMMA OperationKeepsCounted ==
  ASSUME IInv, Counted, Consume \/ Set \/ \E i \in Item : Seen(i)
  PROVE  Counted'
<1>1. clock \in Nat /\ live \in State
  BY DEF IInv, TypeOK
<1>2. CASE Consume
  <2> DEFINE e == [ts |-> clock + 1, op |-> "consume"]
  <2>1. /\ e \in Entry /\ e.ts = clock + 1 /\ Write(e) /\ Extends(live', live, e)
        /\ consumed' = IF e.op = "consume" THEN consumed + 1 ELSE consumed
    BY <1>1, <1>2 DEF Consume, Extends, State, Entry
  <2> HIDE DEF e
  <2> QED
    BY <2>1, WriteKeepsCounted
<1>3. CASE Set
  <2> DEFINE e == [ts |-> clock + 1, op |-> "set"]
  <2>1. /\ e \in Entry /\ e.ts = clock + 1 /\ Write(e) /\ Extends(live', live, e)
        /\ consumed' = IF e.op = "consume" THEN consumed + 1 ELSE consumed
    BY <1>1, <1>3 DEF Set, Extends, State, Entry
  <2> HIDE DEF e
  <2> QED
    BY <2>1, WriteKeepsCounted
<1>4. ASSUME NEW i \in Item, Seen(i)
      PROVE  Counted'
  <2> DEFINE e == [ts |-> clock + 1, op |-> "seen", item |-> i]
  <2>1. /\ e \in Entry /\ e.ts = clock + 1 /\ Write(e) /\ Extends(live', live, e)
        /\ consumed' = IF e.op = "consume" THEN consumed + 1 ELSE consumed
    BY <1>1, <1>4 DEF Seen, Extends, State, Entry
  <2> HIDE DEF e
  <2> QED
    BY <2>1, WriteKeepsCounted
<1> QED
  BY <1>2, <1>3, <1>4

----------------------------------------------------------------------------
LEMMA SnapshotKeepsCounted ==
  ASSUME IInv, Counted, NEW s \in Snapshotter,
         Copy(s) \/ Stamp(s) \/ WriteFile(s) \/ WriteFileFails(s)
  PROVE  Counted'
<1>1. task[s] \in [pc : {"idle", "copied", "writing", "written"}, ts : Nat, copy : State]
  BY DEF IInv, TypeOK
<1>2. CASE Copy(s)
  <2>1. /\ task' = [task EXCEPT ![s] = [pc |-> "copied", ts |-> 0, copy |-> live]]
        /\ UNCHANGED <<live, wal, snap, loaded, consumed>>
    BY <1>2 DEF Copy, disk, ghost
  <2>2. Recovered' = Recovered
    BY <2>1 DEF Recovered
  <2> QED
    BY <2>1, <2>2 DEF Counted, NoDoubleApply, IInv, TypeOK
<1>3. CASE Stamp(s)
  <2>1. /\ task' = [task EXCEPT ![s] = [pc |-> "writing", ts |-> clock + 1, copy |-> task[s].copy]]
        /\ UNCHANGED <<live, wal, snap, loaded, consumed>>
    BY <1>1, <1>3 DEF Stamp, ghost, IInv, TypeOK
  <2>2. Recovered' = Recovered
    BY <2>1 DEF Recovered
  <2>3. clock \in Nat /\ \A e \in wal : e.ts <= clock + 1
    BY EntryFacts DEF IInv, TypeOK, Clocked
  <2> QED
    BY <2>1, <2>2, <2>3 DEF Counted, NoDoubleApply, IInv, TypeOK
<1>4. CASE WriteFile(s)
  <2>1. /\ task' = [task EXCEPT ![s] = [pc |-> "written", ts |-> task[s].ts, copy |-> task[s].copy]]
        /\ task[s].pc = "writing" /\ task[s].ts \in Nat
        /\ snap' = [ts |-> task[s].ts, state |-> task[s].copy]
        /\ UNCHANGED <<live, wal, loaded, consumed>>
    <3>1. [task[s] EXCEPT !.pc = "written"]
            = [pc |-> "written", ts |-> task[s].ts, copy |-> task[s].copy]
      BY <1>1
    <3>2. task' = [task EXCEPT ![s] = [task[s] EXCEPT !.pc = "written"]]
      BY <1>4 DEF WriteFile, IInv, TypeOK
    <3> QED
      BY <1>1, <1>4, <3>1, <3>2 DEF WriteFile, ghost
  <2>2. ReplayWAL(wal, task[s].ts) = {}
    BY <2>1, EntryFacts DEF Counted, ReplayWAL, IInv, TypeOK
  <2>3. Recovered'.count = task[s].copy.count
    BY <1>1, <2>1, <2>2, ReplayNothing DEF Recovered
  <2> QED
    BY <2>1, <2>3 DEF Counted, NoDoubleApply, IInv, TypeOK
<1>5. CASE WriteFileFails(s)
  <2>1. task' = [task EXCEPT ![s] = Idle] /\ UNCHANGED <<live, wal, snap, loaded, consumed>>
    BY <1>5 DEF WriteFileFails, disk, ghost
  <2>2. Recovered' = Recovered
    BY <2>1 DEF Recovered
  <2>3. Idle.pc = "idle" /\ Idle.copy.count = 0 /\ consumed \in Nat
    BY DEF Idle, Empty, IInv, TypeOK
  <2> QED
    BY <2>1, <2>2, <2>3 DEF Counted, NoDoubleApply, IInv, TypeOK
<1> QED
  BY <1>2, <1>3, <1>4, <1>5

(* A rotation empties the log or leaves it; what then is recovered is       *)
(* nothing but the snapshot, which counted no more before.                  *)
LEMMA RotationKeepsCounted ==
  ASSUME IInv, Counted, NEW s \in Snapshotter, RotateWAL(s) \/ RotateWALFails(s)
  PROVE  Counted'
<1>1. /\ task' = [task EXCEPT ![s] = Idle] /\ EngineFree /\ wal' \in {wal, {}}
      /\ UNCHANGED <<live, snap, loaded, consumed>>
  <2>1. CASE RotateWAL(s)
    BY <2>1 DEF RotateWAL, ghost
  <2>2. CASE RotateWALFails(s)
    BY <2>2 DEF RotateWALFails, ghost
  <2> QED
    BY <2>1, <2>2
<1>2. Idle.pc = "idle" /\ Idle.copy.count = 0 /\ consumed \in Nat
  BY DEF Idle, Empty, IInv, TypeOK
<1>3. Recovered'.count <= consumed
  <2>1. CASE wal' = wal
    BY <1>1, <2>1 DEF Recovered, Counted, NoDoubleApply
  <2>2. CASE wal' = {}
    <3>1. Recovered' = Replay(snap.state, {}) /\ snap.state \in State
      BY <1>1, <2>2 DEF Recovered, ReplayWAL, IInv, TypeOK, Snapshot
    <3> QED
      BY <1>2, <3>1, ReplayNothing, CountTypes DEF Counted, NoDoubleApply
  <2> QED
    BY <1>1, <2>1, <2>2
<1>4. \A t \in Snapshotter : task'[t].copy.count <= consumed /\ task'[t].pc # "writing"
  BY <1>1, <1>2 DEF Counted, EngineFree, IInv, TypeOK
<1> QED
  BY <1>1, <1>3, <1>4 DEF Counted, NoDoubleApply

LEMMA RestoreKeepsCounted ==
  ASSUME IInv, Counted, LoadLatestSnapshot \/ ApplySnapshot \/ Crash
  PROVE  Counted'
<1>1. /\ consumed \in Nat /\ Recovered.count \in Nat
      /\ snap.state.count \in Nat /\ snap.state.count <= Recovered.count
  BY CountTypes
<1>2. UNCHANGED <<wal, snap, consumed>> /\ Recovered' = Recovered
  BY DEF LoadLatestSnapshot, ApplySnapshot, Crash, disk, ghost, Recovered
<1>3. CASE LoadLatestSnapshot
  <2>1. loaded' = loaded \cup {snap.state} /\ UNCHANGED <<live, task>>
    BY <1>3 DEF LoadLatestSnapshot
  <2> QED
    BY <1>1, <1>2, <2>1 DEF Counted, NoDoubleApply
<1>4. CASE ApplySnapshot
  <2>1. live' \in loaded /\ loaded' \subseteq loaded /\ UNCHANGED task
    BY <1>4 DEF ApplySnapshot
  <2> QED
    BY <1>2, <2>1 DEF Counted, NoDoubleApply
<1>5. CASE Crash
  <2>1. /\ live' = IF torn THEN Empty ELSE Recovered
        /\ task' = [s \in Snapshotter |-> Idle] /\ loaded' = {}
    BY <1>5 DEF Crash
  <2>2. Idle.pc = "idle" /\ Idle.copy.count = 0 /\ Empty.count = 0
    BY DEF Idle, Empty
  <2> QED
    BY <1>1, <1>2, <2>1, <2>2 DEF Counted, NoDoubleApply
<1> QED
  BY <1>3, <1>4, <1>5

LEMMA NextKeepsCounted == IInv /\ Counted /\ [Next]_vars => Counted'
<1> SUFFICES ASSUME IInv, Counted, [Next]_vars
             PROVE  Counted'
  OBVIOUS
<1>1. CASE Consume \/ Set \/ \E i \in Item : Seen(i)
  BY <1>1, OperationKeepsCounted
<1>2. ASSUME NEW s \in Snapshotter,
             Copy(s) \/ Stamp(s) \/ WriteFile(s) \/ WriteFileFails(s)
      PROVE  Counted'
  BY <1>2, SnapshotKeepsCounted
<1>3. ASSUME NEW s \in Snapshotter, RotateWAL(s) \/ RotateWALFails(s)
      PROVE  Counted'
  BY <1>3, RotationKeepsCounted
<1>4. CASE LoadLatestSnapshot \/ ApplySnapshot \/ Crash
  BY <1>4, RestoreKeepsCounted
<1>5. CASE UNCHANGED vars
  <2>1. Recovered' = Recovered
    BY <1>5 DEF vars, Recovered
  <2> QED
    BY <1>5, <2>1 DEF vars, Counted, NoDoubleApply
<1> QED
  BY <1>1, <1>2, <1>3, <1>4, <1>5 DEF Next

(* Recovery applies no log entry twice, however snapshots overlap and       *)
(* whenever the process is killed between a snapshot and its rotation: the  *)
(* counter never exceeds the consumes that were answered OK.                *)
THEOREM NoDoubleApplyHolds == Spec => []NoDoubleApply
<1>1. Counted => NoDoubleApply
  BY DEF Counted
<1> QED
  BY <1>1, InitCounted, NextKeepsCounted, Invariance, PTL DEF Spec

=============================================================================
