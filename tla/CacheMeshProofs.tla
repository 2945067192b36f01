-------------------------- MODULE CacheMeshProofs --------------------------
(***************************************************************************)
(* Safety of the cache over a mesh, for every set of nodes, any times to    *)
(* live and any bounds.                                                     *)
(*                                                                          *)
(* What makes the properties hold is that every entry anywhere stems from   *)
(* one write, with a version between the two times that write was stamped   *)
(* with, and that these intervals never overlap on one node.  A merge may   *)
(* then be judged by the writes behind the two entries it compares.         *)
(***************************************************************************)
EXTENDS CacheMesh, TLAPS

(* A node stamps a write before it logs it, and both before the next one.   *)
WritesOrdered ==
  /\ \A w \in written : 0 < w.ts /\ w.ts <= w.logged /\ w.logged <= clock[w.node]
  /\ \A v, w \in written :
       v.node = w.node => v = w \/ v.logged < w.ts \/ w.logged < v.ts

(* Entry e is what write w stored, with one of the versions it may have.    *)
Stores(w, e) ==
  /\ e.node = w.node /\ e.value = w.ts /\ e.expires = w.expires
  /\ w.ts <= e.ts /\ e.ts <= w.logged

Backed(e, writes) == e = Absent \/ \E w \in writes : Stores(w, e)

AllBacked ==
  /\ \A n \in Node :
       Backed(cache[n], written) /\ Backed(log[n], written) /\ Backed(snap[n], written)
  /\ \A msg \in msgs : Backed(msg.entry, written)

(* What a restart would bring back is what is in memory, never older.       *)
SameWrite(e, d) ==
  d.value = e.value /\ d.node = e.node /\ d.expires = e.expires /\ e.ts <= d.ts

DiskAgrees == \A n \in Node : cache[n] = Absent \/ SameWrite(cache[n], Recovered(n))

IInv == TypeOK /\ WritesOrdered /\ AllBacked /\ DiskAgrees /\ LastWriteKept

----------------------------------------------------------------------------
(* Both parts of a version are compared as numbers.                         *)
LEMMA VersionIsNumbers ==
  ASSUME NEW e \in Entry
  PROVE  e.ts \in Nat /\ e.node \in Nat
<1>1. e.ts \in Nat /\ e.node \in Node \cup {0}
  BY DEF Entry
<1>2. \A m \in Node : m \in Nat
  BY NodeAssumption
<1> QED
  BY <1>1, <1>2

(* No version is below that of a missing entry.                             *)
LEMMA AbsentIsLeast ==
  ASSUME NEW e \in Entry
  PROVE  ~cacheEntryLess(e, Absent)
<1>1. e.ts \in Nat /\ e.node \in Nat
  BY VersionIsNumbers
<1>2. Absent.ts = 0 /\ Absent.node = 0
  BY DEF Absent
<1> QED
  BY <1>1, <1>2 DEF cacheEntryLess

(* More writes back whatever fewer did.                                     *)
LEMMA BackedStays ==
  ASSUME NEW e, NEW V, NEW W, V \subseteq W, Backed(e, V)
  PROVE  Backed(e, W)
BY DEF Backed

(* Entries that one write stored agree in everything but their version.     *)
LEMMA BackedByOne ==
  ASSUME TypeOK, WritesOrdered,
         NEW v \in written, NEW w \in written, NEW a \in Entry, NEW b \in Entry,
         Stores(v, a), Stores(w, b), a.node = b.node, a.ts = b.ts
  PROVE  v = w /\ a = b
<1>1. /\ v.node = w.node
      /\ v.ts \in Nat /\ v.logged \in Nat /\ w.ts \in Nat /\ w.logged \in Nat
  BY DEF Stores, TypeOK, Write
<1>2. v = w
  <2>1. a.ts \in Nat /\ v.ts <= a.ts /\ a.ts <= v.logged /\ w.ts <= a.ts /\ a.ts <= w.logged
    BY DEF Entry, Stores
  <2>2. ~(v.logged < w.ts) /\ ~(w.logged < v.ts)
    BY <1>1, <2>1
  <2> QED
    BY <1>1, <2>2 DEF WritesOrdered
<1>3. a.value = b.value /\ a.expires = b.expires
  BY <1>2 DEF Stores
<1> QED
  BY <1>2, <1>3 DEF Entry

(* The entry of an undisputed write at its own node is the one it stored.   *)
LEMMA UndisputedIsStored ==
  ASSUME TypeOK, WritesOrdered, NEW w \in written, NEW e \in Entry,
         Backed(e, written), e.node = w.node, e.value = w.ts
  PROVE  Stores(w, e)
<1>1. w.node \in Node /\ w.ts \in Nat /\ w.logged \in Nat
  BY DEF TypeOK, Write
<1>2. e # Absent
  BY <1>1, NodeAssumption DEF Absent
<1>3. PICK v \in written : Stores(v, e)
  BY <1>2 DEF Backed
<1>4. v.node = w.node /\ v.ts = w.ts /\ v.logged \in Nat
  BY <1>3 DEF Stores, TypeOK, Write
<1>5. v.ts <= v.logged /\ w.ts <= w.logged
  BY DEF WritesOrdered
<1>6. v = w
  BY <1>1, <1>4, <1>5 DEF WritesOrdered
<1> QED
  BY <1>3, <1>6

----------------------------------------------------------------------------
LEMMA InitIInv == Init => IInv
<1> SUFFICES ASSUME Init PROVE IInv
  OBVIOUS
<1> USE DEF Init
<1>1. Absent \in Entry
  BY DEF Absent, Entry
<1>2. TypeOK
  BY <1>1 DEF TypeOK
<1>3. WritesOrdered /\ LastWriteKept
  BY DEF WritesOrdered, LastWriteKept
<1>4. AllBacked /\ DiskAgrees
  BY DEF AllBacked, Backed, DiskAgrees
<1> QED
  BY <1>2, <1>3, <1>4 DEF IInv

(* A write: its interval lies after all intervals of its node, so that it   *)
(* is undisputed or leaves alone who was.                                   *)
LEMMA SetKeepsIInv ==
  ASSUME IInv, NEW n \in Node, NEW ttl \in Nat, NEW ts \in Nat \ {0},
         NEW logged \in Nat, ts <= logged, Set(n, ttl, ts, logged)
  PROVE  IInv'
<1> DEFINE expires == IF ttl = 0 THEN 0 ELSE ts + ttl
           entry   == [value |-> ts, ts |-> ts, node |-> n, expires |-> expires]
           onDisk  == [value |-> ts, ts |-> logged, node |-> n, expires |-> expires]
           new     == [node |-> n, ts |-> ts, logged |-> logged, expires |-> expires]
<1>1. TypeOK /\ WritesOrdered /\ AllBacked /\ DiskAgrees /\ LastWriteKept
  BY DEF IInv
<1>2. /\ clock[n] < ts
      /\ clock' = [clock EXCEPT ![n] = logged]
      /\ cache' = [cache EXCEPT ![n] = entry]
      /\ log' = [log EXCEPT ![n] = onDisk]
      /\ written' = written \cup {new}
      /\ UNCHANGED <<snap, msgs, restarts>>
  <2>1. \A x : [[value |-> ts, ts |-> ts, node |-> n, expires |-> x] EXCEPT !.ts = logged]
                = [value |-> ts, ts |-> logged, node |-> n, expires |-> x]
    OBVIOUS
  <2> QED
    BY <2>1 DEF Set
<1>3. expires \in Nat
  OBVIOUS
<1>4. entry \in Entry /\ onDisk \in Entry /\ new \in Write
  BY <1>3 DEF Entry, Write
<1>5. /\ entry.value = ts /\ entry.ts = ts /\ entry.node = n /\ entry.expires = expires
      /\ onDisk.value = ts /\ onDisk.ts = logged /\ onDisk.node = n /\ onDisk.expires = expires
      /\ new.node = n /\ new.ts = ts /\ new.logged = logged /\ new.expires = expires
  OBVIOUS
<1> HIDE DEF expires, entry, onDisk, new
<1>6. TypeOK'
  BY <1>1, <1>2, <1>4 DEF TypeOK
<1>7. \A w \in written : w.node \in Node /\ w.ts \in Nat /\ w.logged \in Nat /\ clock[w.node] \in Nat
  BY <1>1 DEF TypeOK, Write
<1>8. \A w \in written : w.node = n => w.logged < ts /\ w # new
  BY <1>1, <1>2, <1>5, <1>7 DEF WritesOrdered
<1>9. clock'[n] = logged /\ \A m \in Node \ {n} : clock'[m] = clock[m]
  BY <1>1, <1>2 DEF TypeOK
<1>10. WritesOrdered'
  <2>1. \A w \in written' : 0 < w.ts /\ w.ts <= w.logged /\ w.logged <= clock'[w.node]
    <3> SUFFICES ASSUME NEW w \in written'
                 PROVE  0 < w.ts /\ w.ts <= w.logged /\ w.logged <= clock'[w.node]
      OBVIOUS
    <3>1. CASE w = new
      BY <3>1, <1>5, <1>9
    <3>2. CASE w \in written
      <4>1. 0 < w.ts /\ w.ts <= w.logged /\ w.logged <= clock[w.node]
        BY <3>2, <1>1 DEF WritesOrdered
      <4>2. CASE w.node = n
        BY <4>1, <4>2, <3>2, <1>7, <1>8, <1>9
      <4>3. CASE w.node # n
        BY <4>1, <4>3, <3>2, <1>7, <1>9
      <4> QED
        BY <4>2, <4>3
    <3> QED
      BY <3>1, <3>2, <1>2
  <2>2. \A v, w \in written' : v.node = w.node => v = w \/ v.logged < w.ts \/ w.logged < v.ts
    BY <1>1, <1>2, <1>5, <1>8 DEF WritesOrdered
  <2> QED
    BY <2>1, <2>2 DEF WritesOrdered
<1>11. Stores(new, entry) /\ Stores(new, onDisk)
  BY <1>5 DEF Stores
<1>12. Backed(entry, written') /\ Backed(onDisk, written')
  BY <1>2, <1>11 DEF Backed
<1>13. \A e : Backed(e, written) => Backed(e, written')
  BY <1>2, BackedStays
<1>14. \A m \in Node : /\ cache'[m] = IF m = n THEN entry ELSE cache[m]
                       /\ log'[m] = IF m = n THEN onDisk ELSE log[m]
                       /\ snap'[m] = snap[m]
  BY <1>1, <1>2 DEF TypeOK
<1>15. AllBacked'
  <2>1. \A m \in Node : Backed(cache'[m], written') /\ Backed(log'[m], written')
                          /\ Backed(snap'[m], written')
    BY <1>1, <1>12, <1>13, <1>14 DEF AllBacked
  <2>2. \A msg \in msgs' : Backed(msg.entry, written')
    BY <1>1, <1>2, <1>13 DEF AllBacked
  <2> QED
    BY <2>1, <2>2 DEF AllBacked
<1>16. onDisk # Absent
  BY <1>5, NodeAssumption DEF Absent
<1>17. \A m \in Node : Recovered(m)' = IF m = n THEN onDisk ELSE Recovered(m)
  BY <1>14, <1>16 DEF Recovered
<1>18. DiskAgrees'
  <2>1. SameWrite(entry, onDisk)
    BY <1>5 DEF SameWrite
  <2> QED
    BY <1>1, <1>14, <1>17, <2>1 DEF DiskAgrees
<1>19. LastWriteKept'
  <2> SUFFICES ASSUME NEW w \in written', Undisputed(w)'
               PROVE  /\ cache'[w.node].node = w.node /\ cache'[w.node].value = w.ts
                      /\ Recovered(w.node)'.node = w.node /\ Recovered(w.node)'.value = w.ts
    BY DEF LastWriteKept
  <2>1. CASE w = new
    BY <2>1, <1>5, <1>14, <1>17
  <2>2. CASE w \in written /\ w # new
    <3>1. new.logged < w.ts
      BY <2>2, <1>2 DEF Undisputed
    <3>2. w.node # n
      BY <3>1, <2>2, <1>1, <1>5, <1>7, <1>8 DEF WritesOrdered
    <3>3. Undisputed(w)
      BY <2>2, <1>2 DEF Undisputed
    <3> QED
      BY <3>2, <3>3, <2>2, <1>1, <1>7, <1>14, <1>17 DEF LastWriteKept
  <2> QED
    BY <2>1, <2>2, <1>2
<1> QED
  BY <1>6, <1>10, <1>15, <1>18, <1>19 DEF IInv

----------------------------------------------------------------------------
(* Without a write, a version is not taken, and what is undisputed stays so.*)
LEMMA NoWrite ==
  ASSUME IInv, UNCHANGED written, \A n \in Node : clock[n] <= clock'[n]
  PROVE  /\ \A w \in written : w.node \in Node /\ w.ts \in Nat /\ w.logged \in Nat
         /\ clock' \in [Node -> Nat] => WritesOrdered'
         /\ \A w : Undisputed(w)' = Undisputed(w)
<1>1. TypeOK /\ WritesOrdered
  BY DEF IInv
<1>2. \A w \in written : w.node \in Node /\ w.ts \in Nat /\ w.logged \in Nat
  BY <1>1 DEF TypeOK, Write
<1>3. ASSUME clock' \in [Node -> Nat] PROVE WritesOrdered'
  <2>1. \A w \in written : w.logged <= clock'[w.node]
    <3> SUFFICES ASSUME NEW w \in written PROVE w.logged <= clock'[w.node]
      OBVIOUS
    <3>1. w.node \in Node /\ w.logged \in Nat /\ w.logged <= clock[w.node]
      BY <1>1, <1>2 DEF WritesOrdered
    <3>2. clock[w.node] \in Nat /\ clock'[w.node] \in Nat /\ clock[w.node] <= clock'[w.node]
      BY <1>1, <1>3, <3>1 DEF TypeOK
    <3> QED
      BY <3>1, <3>2
  <2> QED
    BY <1>1, <2>1 DEF WritesOrdered
<1>4. \A w : Undisputed(w)' = Undisputed(w)
  BY DEF Undisputed
<1> QED
  BY <1>2, <1>3, <1>4

(* Steps that leave memory and disk alone.                                  *)
LEMMA QuietKeepsIInv ==
  ASSUME IInv, TypeOK', UNCHANGED <<cache, log, snap, written>>,
         \A n \in Node : clock[n] <= clock'[n],
         \A msg \in msgs' : msg \in msgs \/ \E n \in Node : msg.entry = cache[n]
  PROVE  IInv'
<1>1. WritesOrdered'
  BY NoWrite DEF TypeOK
<1>2. AllBacked'
  BY DEF IInv, AllBacked
<1>3. DiskAgrees'
  BY DEF IInv, DiskAgrees, Recovered
<1>4. LastWriteKept'
  BY DEF IInv, LastWriteKept, Undisputed, Recovered
<1> QED
  BY <1>1, <1>2, <1>3, <1>4 DEF IInv

LEMMA TickKeepsIInv ==
  ASSUME IInv, NEW n \in Node, Tick(n)
  PROVE  IInv'
<1>1. TypeOK'
  BY DEF IInv, TypeOK, Tick
<1>2. \A m \in Node : clock[m] <= clock'[m]
  BY DEF IInv, TypeOK, Tick
<1> QED
  BY <1>1, <1>2, QuietKeepsIInv DEF Tick

LEMMA SendKeepsIInv ==
  ASSUME IInv, NEW m \in Node, NEW n \in Node, Send(m, n)
  PROVE  IInv'
<1>1. cache[m] \in Entry
  BY DEF IInv, TypeOK
<1>2. TypeOK'
  BY <1>1 DEF IInv, TypeOK, Send, Message
<1>3. \A k \in Node : clock[k] <= clock'[k]
  BY DEF IInv, TypeOK, Send
<1>4. \A msg \in msgs' : msg \in msgs \/ \E k \in Node : msg.entry = cache[k]
  BY DEF Send
<1> QED
  BY <1>2, <1>3, <1>4, QuietKeepsIInv DEF Send

LEMMA LoseKeepsIInv ==
  ASSUME IInv, NEW msg \in msgs, Lose(msg)
  PROVE  IInv'
<1>1. TypeOK'
  BY DEF IInv, TypeOK, Lose
<1>2. \A k \in Node : clock[k] <= clock'[k]
  BY DEF IInv, TypeOK, Lose
<1> QED
  BY <1>1, <1>2, QuietKeepsIInv DEF Lose

----------------------------------------------------------------------------
(* An undisputed write has no expiry, so its entry is not cleaned up.       *)
LEMMA ExpireKeepsIInv ==
  ASSUME IInv, NEW n \in Node, Expire(n)
  PROVE  IInv'
<1>1. TypeOK /\ WritesOrdered /\ AllBacked /\ DiskAgrees /\ LastWriteKept
  BY DEF IInv
<1>2. Absent \in Entry
  BY DEF Absent, Entry
<1>3. TypeOK'
  BY <1>1, <1>2 DEF TypeOK, Expire
<1>4. \A m \in Node : cache'[m] = IF m = n THEN Absent ELSE cache[m]
  BY <1>1 DEF TypeOK, Expire
<1>5. UNCHANGED <<clock, log, snap, msgs, written>>
  BY DEF Expire
<1>6. \A m \in Node : Recovered(m)' = Recovered(m)
  BY <1>5 DEF Recovered
<1>7. \A k \in Node : clock[k] <= clock'[k]
  BY <1>1, <1>5 DEF TypeOK
<1>8. WritesOrdered'
  BY <1>1, <1>5, <1>7, NoWrite DEF TypeOK
<1>9. AllBacked'
  BY <1>1, <1>4, <1>5 DEF AllBacked, Backed
<1>10. DiskAgrees'
  BY <1>1, <1>4, <1>6 DEF DiskAgrees
<1>11. LastWriteKept'
  <2> SUFFICES ASSUME NEW w \in written, Undisputed(w)
               PROVE  \A e \in {cache'[w.node], Recovered(w.node)} :
                        e.node = w.node /\ e.value = w.ts
    BY <1>5, <1>6, <1>7, NoWrite DEF LastWriteKept
  <2>1. w.node \in Node
    BY <1>1 DEF TypeOK, Write
  <2>2. w.node # n
    <3> SUFFICES ASSUME w.node = n PROVE FALSE
      OBVIOUS
    <3>1. cache[n] \in Entry /\ Backed(cache[n], written)
      BY <1>1 DEF TypeOK, AllBacked
    <3>2. cache[n].node = w.node /\ cache[n].value = w.ts
      BY <1>1 DEF LastWriteKept
    <3>3. Stores(w, cache[n])
      BY <1>1, <3>1, <3>2, UndisputedIsStored
    <3>4. cache[n].expires = 0
      BY <3>3 DEF Stores, Undisputed
    <3> QED
      BY <3>4 DEF Expire, Expired
  <2> QED
    BY <1>1, <1>4, <2>1, <2>2 DEF LastWriteKept
<1> QED
  BY <1>3, <1>8, <1>9, <1>10, <1>11 DEF IInv

----------------------------------------------------------------------------
(* A merge at n, judged by the writes behind both entries: over an          *)
(* undisputed one, only entries of the same write are newer.                *)
LEMMA DeliverKeepsIInv ==
  ASSUME IInv, NEW m \in Node, NEW n \in Node, Deliver(m, n)
  PROVE  IInv'
<1>1. TypeOK /\ WritesOrdered /\ AllBacked /\ DiskAgrees /\ LastWriteKept
  BY DEF IInv
<1>2. PICK msg \in msgs : /\ msgs' = msgs \ {msg}
                          /\ MergeState(n, msg.entry)
                          /\ UNCHANGED <<clock, snap, restarts, written>>
  BY DEF Deliver
<1> DEFINE peer == msg.entry
           adopted == cacheEntryLess(cache[n], peer)
<1>3. peer \in Entry /\ Backed(peer, written)
  BY <1>1 DEF TypeOK, Message, AllBacked
<1>4. cache[n] \in Entry /\ Backed(cache[n], written)
  BY <1>1 DEF TypeOK, AllBacked
<1>5. adopted => peer # Absent
  BY <1>4, AbsentIsLeast
<1>6. /\ cache' = [cache EXCEPT ![n] = IF adopted THEN peer ELSE @]
      /\ log' = [log EXCEPT ![n] = IF adopted THEN peer ELSE @]
  BY <1>2 DEF MergeState
<1> HIDE DEF peer, adopted
<1>7. \A k \in Node : /\ cache'[k] = IF k = n /\ adopted THEN peer ELSE cache[k]
                      /\ log'[k] = IF k = n /\ adopted THEN peer ELSE log[k]
  BY <1>1, <1>6 DEF TypeOK
<1>8. \A k \in Node : Recovered(k)' = IF k = n /\ adopted THEN peer ELSE Recovered(k)
  BY <1>2, <1>5, <1>7 DEF Recovered
<1>9. TypeOK'
  <2>1. cache' \in [Node -> Entry] /\ log' \in [Node -> Entry]
    BY <1>1, <1>3, <1>6 DEF TypeOK
  <2> QED
    BY <1>1, <1>2, <2>1 DEF TypeOK
<1>10. \A k \in Node : clock[k] <= clock'[k]
  BY <1>1, <1>2 DEF TypeOK
<1>11. WritesOrdered'
  BY <1>2, <1>9, <1>10, NoWrite DEF TypeOK
<1>12. AllBacked'
  BY <1>1, <1>2, <1>3, <1>7 DEF AllBacked
<1>13. DiskAgrees'
  <2>1. SameWrite(peer, peer)
    BY <1>3 DEF SameWrite, Entry
  <2> QED
    BY <1>1, <1>7, <1>8, <2>1 DEF DiskAgrees
<1>14. LastWriteKept'
  <2> SUFFICES ASSUME NEW w \in written, Undisputed(w)
               PROVE  \A e \in {cache'[w.node], Recovered(w.node)'} :
                        e.node = w.node /\ e.value = w.ts
    BY <1>2, <1>10, NoWrite DEF LastWriteKept
  <2>1. w.node \in Node /\ w.ts \in Nat /\ w.logged \in Nat
    BY <1>1 DEF TypeOK, Write
  <2>2. \A e \in {cache[w.node], Recovered(w.node)} : e.node = w.node /\ e.value = w.ts
    BY <1>1 DEF LastWriteKept
  <2>3. CASE w.node = n /\ adopted
    <3>1. Stores(w, cache[n])
      BY <2>2, <2>3, <1>1, <1>4, UndisputedIsStored
    <3>2. PICK o \in written : Stores(o, peer)
      BY <1>3, <1>5, <2>3 DEF Backed
    <3>3. CASE o = w
      BY <3>2, <3>3, <2>3, <1>7, <1>8 DEF Stores
    <3>4. CASE o # w
      <4>1. o.logged < w.ts
        BY <3>4 DEF Undisputed
      <4>2. peer.ts <= o.logged /\ w.ts <= cache[n].ts
        BY <3>1, <3>2 DEF Stores
      <4>3. peer.ts \in Nat /\ cache[n].ts \in Nat /\ o.logged \in Nat
        BY <1>1, <1>3, <1>4 DEF TypeOK, Write, Entry
      <4>4. peer.ts < cache[n].ts
        BY <4>1, <4>2, <4>3, <2>1
      <4>5. ~cacheEntryLess(cache[n], peer)
        BY <4>3, <4>4 DEF cacheEntryLess
      <4> QED
        BY <4>5, <2>3 DEF adopted
    <3> QED
      BY <3>3, <3>4
  <2>4. CASE ~(w.node = n /\ adopted)
    BY <2>1, <2>2, <2>4, <1>7, <1>8
  <2> QED
    BY <2>3, <2>4
<1> QED
  BY <1>9, <1>11, <1>12, <1>13, <1>14 DEF IInv

(* What a snapshot writes down is what is in memory.                        *)
LEMMA SnapshotKeepsIInv ==
  ASSUME IInv, NEW n \in Node, Snapshot(n)
  PROVE  IInv'
<1>1. TypeOK /\ WritesOrdered /\ AllBacked /\ DiskAgrees /\ LastWriteKept
  BY DEF IInv
<1>2. UNCHANGED <<clock, cache, msgs, written>>
  BY DEF Snapshot
<1>3. Absent \in Entry /\ cache[n] \in Entry
  BY <1>1 DEF Absent, Entry, TypeOK
<1>4. TypeOK'
  BY <1>1, <1>3 DEF TypeOK, Snapshot
<1>5. \A k \in Node : /\ snap'[k] = IF k = n THEN cache[n] ELSE snap[k]
                      /\ log'[k] = IF k = n THEN Absent ELSE log[k]
  BY <1>1 DEF TypeOK, Snapshot
<1>6. \A k \in Node : Recovered(k)' = IF k = n THEN cache[n] ELSE Recovered(k)
  BY <1>5 DEF Recovered
<1>7. \A k \in Node : clock[k] <= clock'[k]
  BY <1>1, <1>2 DEF TypeOK
<1>8. WritesOrdered'
  BY <1>2, <1>4, <1>7, NoWrite DEF TypeOK
<1>9. AllBacked'
  BY <1>1, <1>2, <1>5 DEF AllBacked, Backed
<1>10. DiskAgrees'
  <2>1. SameWrite(cache[n], cache[n])
    BY <1>3 DEF SameWrite, Entry
  <2> QED
    BY <1>1, <1>2, <1>6, <2>1 DEF DiskAgrees
<1>11. LastWriteKept'
  <2> SUFFICES ASSUME NEW w \in written, Undisputed(w)
               PROVE  \A e \in {cache[w.node], Recovered(w.node)'} :
                        e.node = w.node /\ e.value = w.ts
    BY <1>2, <1>7, NoWrite DEF LastWriteKept
  <2>1. w.node \in Node
    BY <1>1 DEF TypeOK, Write
  <2> QED
    BY <1>1, <1>6, <2>1 DEF LastWriteKept
<1> QED
  BY <1>4, <1>8, <1>9, <1>10, <1>11 DEF IInv

(* What a restart brings back was on disk before, and stays there.          *)
LEMMA RestartKeepsIInv ==
  ASSUME IInv, NEW n \in Node, Restart(n)
  PROVE  IInv'
<1>1. TypeOK /\ WritesOrdered /\ AllBacked /\ DiskAgrees /\ LastWriteKept
  BY DEF IInv
<1>2. UNCHANGED <<clock, log, snap, msgs, written>>
  BY DEF Restart
<1>3. Recovered(n) \in Entry /\ Backed(Recovered(n), written)
  BY <1>1 DEF Recovered, TypeOK, AllBacked
<1>4. TypeOK'
  BY <1>1, <1>3 DEF TypeOK, Restart
<1>5. \A k \in Node : cache'[k] = IF k = n THEN Recovered(n) ELSE cache[k]
  BY <1>1 DEF TypeOK, Restart
<1>6. \A k \in Node : Recovered(k)' = Recovered(k)
  BY <1>2 DEF Recovered
<1>7. \A k \in Node : clock[k] <= clock'[k]
  BY <1>1, <1>2 DEF TypeOK
<1>8. WritesOrdered'
  BY <1>2, <1>4, <1>7, NoWrite DEF TypeOK
<1>9. AllBacked'
  BY <1>1, <1>2, <1>3, <1>5 DEF AllBacked
<1>10. DiskAgrees'
  <2>1. SameWrite(Recovered(n), Recovered(n))
    BY <1>3 DEF SameWrite, Entry
  <2> QED
    BY <1>1, <1>5, <1>6, <2>1 DEF DiskAgrees
<1>11. LastWriteKept'
  <2> SUFFICES ASSUME NEW w \in written, Undisputed(w)
               PROVE  \A e \in {cache'[w.node], Recovered(w.node)'} :
                        e.node = w.node /\ e.value = w.ts
    BY <1>2, <1>7, NoWrite DEF LastWriteKept
  <2>1. w.node \in Node
    BY <1>1 DEF TypeOK, Write
  <2> QED
    BY <1>1, <1>5, <1>6, <2>1 DEF LastWriteKept
<1> QED
  BY <1>4, <1>8, <1>9, <1>10, <1>11 DEF IInv

LEMMA NextKeepsIInv == IInv /\ [Next]_vars => IInv'
<1> SUFFICES ASSUME IInv, [Next]_vars PROVE IInv'
  OBVIOUS
<1>1. ASSUME NEW n \in Node, Tick(n) PROVE IInv'
  BY <1>1, TickKeepsIInv
<1>2. ASSUME NEW n \in Node, NEW ttl \in Ttls, NEW ts \in 1 .. MaxTime,
             NEW logged \in ts .. MaxTime, Set(n, ttl, ts, logged)
      PROVE  IInv'
  <2>1. ttl \in Nat /\ ts \in Nat \ {0} /\ logged \in Nat /\ ts <= logged
    BY TtlsAssumption
  <2> QED
    BY <1>2, <2>1, SetKeepsIInv
<1>3. ASSUME NEW n \in Node, NEW ts \in 1 .. MaxTime, CommitTransaction(n, ts) PROVE IInv'
  <2>1. ts \in Nat \ {0} /\ ts \in Nat /\ ts <= ts
    OBVIOUS
  <2> QED
    BY <1>3, <2>1, SetKeepsIInv DEF CommitTransaction
<1>4. ASSUME NEW n \in Node, Expire(n) PROVE IInv'
  BY <1>4, ExpireKeepsIInv
<1>5. ASSUME NEW n \in Node, Snapshot(n) PROVE IInv'
  BY <1>5, SnapshotKeepsIInv
<1>6. ASSUME NEW n \in Node, Restart(n) PROVE IInv'
  BY <1>6, RestartKeepsIInv
<1>7. ASSUME NEW m \in Node, NEW n \in Node, Send(m, n) PROVE IInv'
  BY <1>7, SendKeepsIInv
<1>8. ASSUME NEW m \in Node, NEW n \in Node, Deliver(m, n) PROVE IInv'
  BY <1>8, DeliverKeepsIInv
<1>9. ASSUME NEW msg \in msgs, Lose(msg) PROVE IInv'
  BY <1>9, LoseKeepsIInv
<1>10. CASE UNCHANGED vars
  <2>1. TypeOK' /\ \A n \in Node : clock[n] <= clock'[n]
    BY <1>10 DEF IInv, TypeOK, vars
  <2> QED
    BY <1>10, <2>1, QuietKeepsIInv DEF vars
<1> QED
  BY <1>1, <1>2, <1>3, <1>4, <1>5, <1>6, <1>7, <1>8, <1>9, <1>10 DEF Next

(* The inductive invariant: every entry of memory, disk and gossip stems    *)
(* from one write, and memory and disk hold the same one.                   *)
THEOREM Invariance == Spec => []IInv
BY InitIInv, NextKeepsIInv, PTL DEF Spec

(* Every variable keeps its type.                                           *)
THEOREM TypeCorrect == Spec => []TypeOK
<1>1. IInv => TypeOK
  BY DEF IInv
<1> QED
  BY <1>1, Invariance, PTL

(* A version names one value, in memory, on disk and in flight, although a  *)
(* restart gives a write of Set its second version.                         *)
THEOREM VersionNamesValueHolds == Spec => []VersionNamesValue
<1>1. IInv => VersionNamesValue
  <2> SUFFICES ASSUME IInv, NEW a \in Entries, NEW b \in Entries, a.ts = b.ts, a.node = b.node
               PROVE  a = b
    BY DEF VersionNamesValue
  <2>1. TypeOK /\ WritesOrdered
    BY DEF IInv
  <2>2. \A e \in Entries : e \in Entry /\ Backed(e, written)
    BY DEF IInv, TypeOK, Message, AllBacked, Entries
  <2>3. \A w \in written : w.node # Absent.node
    BY <2>1, NodeAssumption DEF TypeOK, Write, Absent
  <2>4. CASE a = Absent \/ b = Absent
    BY <2>2, <2>3, <2>4 DEF Backed, Stores
  <2>5. CASE a # Absent /\ b # Absent
    <3>1. PICK v \in written : Stores(v, a)
      BY <2>2, <2>5 DEF Backed
    <3>2. PICK w \in written : Stores(w, b)
      BY <2>2, <2>5 DEF Backed
    <3> QED
      BY <2>1, <2>2, <3>1, <3>2, BackedByOne
  <2> QED
    BY <2>4, <2>5
<1> QED
  BY <1>1, Invariance, PTL

(* The node of an undisputed last write keeps it, in memory and on disk,    *)
(* through merges, cleanups, snapshots and kills.                           *)
THEOREM LastWriteKeptHolds == Spec => []LastWriteKept
<1>1. IInv => LastWriteKept
  BY DEF IInv
<1> QED
  BY <1>1, Invariance, PTL

(* A node never restarts with an older entry than it had.                   *)
THEOREM RestartNeverOlderHolds == Spec => RestartNeverOlder
<1> DEFINE NotOlder == \A n \in Node : restarts' # restarts => ~cacheEntryLess(cache'[n], cache[n])
<1>1. ASSUME IInv, [Next]_vars PROVE [NotOlder]_vars
  <2> SUFFICES ASSUME NEW n \in Node, restarts' # restarts
               PROVE  ~cacheEntryLess(cache'[n], cache[n])
    OBVIOUS
  <2>1. PICK k \in Node : Restart(k)
    <3>1. UNCHANGED vars => restarts' = restarts
      BY DEF vars
    <3>2. \A m \in Node : Tick(m) \/ Expire(m) \/ Snapshot(m) => restarts' = restarts
      BY DEF Tick, Expire, Snapshot
    <3>3. \A m \in Node, ttl \in Ttls, ts, logged \in 1 .. MaxTime :
            Set(m, ttl, ts, logged) => restarts' = restarts
      BY DEF Set
    <3>4. \A m \in Node, ts \in 1 .. MaxTime : CommitTransaction(m, ts) => restarts' = restarts
      BY Zenon DEF CommitTransaction, Set
    <3>5. \A m, p \in Node : Send(m, p) \/ Deliver(m, p) => restarts' = restarts
      BY DEF Send, Deliver
    <3>6. \A msg \in msgs : Lose(msg) => restarts' = restarts
      BY DEF Lose
    <3>7. \A ts \in 1 .. MaxTime : ts .. MaxTime \subseteq 1 .. MaxTime
      OBVIOUS
    <3> QED
      BY <1>1, <3>1, <3>2, <3>3, <3>4, <3>5, <3>6, <3>7, Zenon DEF Next
  <2>2. TypeOK /\ DiskAgrees
    BY <1>1 DEF IInv
  <2>3. /\ cache[n] \in Entry /\ Recovered(n) \in Entry
        /\ cache'[n] = cache[n] \/ cache'[n] = Recovered(n)
    BY <2>1, <2>2 DEF TypeOK, Restart, Recovered
  <2>4. /\ cache[n].ts \in Nat /\ cache[n].node \in Nat
        /\ Recovered(n).ts \in Nat /\ Recovered(n).node \in Nat
    BY <2>3, VersionIsNumbers
  <2>5. ~cacheEntryLess(cache[n], cache[n])
    BY <2>4 DEF cacheEntryLess
  <2>6. ~cacheEntryLess(Recovered(n), cache[n])
    <3>1. CASE cache[n] = Absent
      BY <3>1, <2>3, AbsentIsLeast
    <3>2. CASE SameWrite(cache[n], Recovered(n))
      BY <3>2, <2>4 DEF cacheEntryLess, SameWrite
    <3> QED
      BY <3>1, <3>2, <2>2 DEF DiskAgrees
  <2> QED
    BY <2>3, <2>5, <2>6
<1> QED
  BY <1>1, Invariance, PTL DEF Spec, RestartNeverOlder
=============================================================================
