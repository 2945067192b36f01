-------------------------- MODULE TransactionsProofs --------------------------
(***************************************************************************)
(* Proofs about Transactions, for any number of nodes, callers,            *)
(* transactions and keys, any skews of the clocks and any bounds.          *)
(*                                                                         *)
(* The inductive invariant has four parts, each with its own step lemma:   *)
(* Types; SoleOwner, the node that alone changes a transaction decides it; *)
(* Accounted, what is committed has been applied or will be; and Whole,    *)
(* every cache and every copy of one has all of a commit that it shows.    *)
(***************************************************************************)
EXTENDS Transactions, FiniteSetTheorems, SequenceTheorems, TLAPS

Application == [ops : SUBSET (1 .. MaxCalls), writes : [Key -> Entry], torn : BOOLEAN]

Message == [from : Node, to : Node, txns : [Txn -> Transaction], cache : [Key -> Entry]]

(* What a call of CommitTransaction holds.                                 *)
Busy ==
  \A c \in Client :
    /\ client[c].pc = "idle" => client[c] = Idle
    /\ client[c].pc # "idle" => client[c].at \in Node /\ client[c].txn \in Txn
    /\ client[c].pc = "apply" => client[c].ops # <<>> /\ client[c].apply \in 1 .. Len(applies)
    /\ client[c].pc # "apply" => client[c].apply = 0

Types == TypeOK /\ Busy

----------------------------------------------------------------------------
LEMMA Values ==
  /\ Absent \in Transaction
  /\ NoEntry \in Entry
  /\ Idle \in ClientState
BY DEF Absent, NoEntry, Idle, Transaction, Entry, ClientState, Status

(* Clocks show numbers and do not go back.                                 *)
LEMMA DivIsMonotonic ==
  ASSUME NEW a \in Nat, NEW b \in Nat, NEW p \in Nat \ {0}, a <= b
  PROVE  a \div p \in Nat /\ a \div p <= b \div p
<1> DEFINE x == a \div p
           y == b \div p
<1>1. x \in Int /\ p * x <= a /\ a < p * x + p
  OBVIOUS
<1>2. y \in Int /\ p * y <= b /\ b < p * y + p
  OBVIOUS
<1> HIDE DEF x, y
<1>3. ASSUME y < x PROVE FALSE
  <2>1. p * (y + 1) <= p * x /\ p * (y + 1) = p * y + p
    BY <1>1, <1>2, <1>3
  <2> QED
    BY <2>1, <1>1, <1>2
<1>4. ASSUME x < 0 PROVE FALSE
  <2>1. p * (x + 1) <= 0 /\ p * (x + 1) = p * x + p
    BY <1>1, <1>4
  <2> QED
    BY <2>1, <1>1
<1>5. x \in Nat /\ x <= y
  BY <1>1, <1>2, <1>3, <1>4
<1> QED
  BY <1>5 DEF x, y

LEMMA ClockFacts ==
  ASSUME TypeOK, NEW n \in Node
  PROVE  /\ now \in Nat /\ UnixNano(n) \in Nat /\ UnixMilli(n) \in Nat
         /\ skew' = skew /\ now' \in Nat /\ now <= now' =>
              UnixMilli(n)' \in Nat /\ UnixMilli(n) <= UnixMilli(n)'
<1>1. MaxTime \in Nat /\ Skews \subseteq Nat /\ PerMilli \in Nat \ {0}
  BY BoundsAssumption
<1>2. now \in Nat
  BY <1>1 DEF TypeOK
<1>3. skew[n] \in Nat
  BY <1>1 DEF TypeOK
<1>4. UnixNano(n) \in Nat /\ UnixMilli(n) \in Nat
  <2>1. now + skew[n] \in Nat
    BY <1>2, <1>3
  <2>2. (now + skew[n]) \div PerMilli \in Nat
    BY <1>1, <2>1, DivIsMonotonic
  <2> QED
    BY <2>1, <2>2 DEF UnixNano, UnixMilli
<1>5. ASSUME skew' = skew, now' \in Nat, now <= now'
      PROVE  UnixMilli(n)' \in Nat /\ UnixMilli(n) <= UnixMilli(n)'
  <2>1. now + skew[n] \in Nat /\ now' + skew[n] \in Nat /\ now + skew[n] <= now' + skew[n]
    BY <1>2, <1>3, <1>5
  <2>2. (now' + skew[n]) \div PerMilli \in Nat
        /\ (now + skew[n]) \div PerMilli <= (now' + skew[n]) \div PerMilli
    BY <1>1, <2>1, DivIsMonotonic
  <2> QED
    BY <2>2, <1>5 DEF UnixNano, UnixMilli
<1> QED
  BY <1>2, <1>4, <1>5

(* The operations of a transaction are a set of numbers.                   *)
LEMMA IdsFacts ==
  ASSUME NEW s \in Seq(Operation)
  PROVE  /\ Ids(s) \subseteq 1 .. MaxCalls
         /\ \A o \in Operation : Append(s, o) \in Seq(Operation) /\ Ids(Append(s, o)) = Ids(s) \cup {o.id}
         /\ s # <<>> => /\ Head(s) \in Operation /\ Tail(s) \in Seq(Operation)
                        /\ Ids(s) = {Head(s).id} \cup Ids(Tail(s))
<1>1. Ids(s) \subseteq 1 .. MaxCalls
  <2>1. \A i \in DOMAIN s : s[i] \in Operation
    BY LenProperties, ElementOfSeq
  <2>2. \A o \in Operation : o.id \in 1 .. MaxCalls
    BY DEF Operation
  <2> QED
    BY <2>1, <2>2 DEF Ids
<1>2. ASSUME NEW o \in Operation
      PROVE  Append(s, o) \in Seq(Operation) /\ Ids(Append(s, o)) = Ids(s) \cup {o.id}
  <2>1. Append(s, o) \in Seq(Operation) /\ Len(Append(s, o)) = Len(s) + 1
        /\ Append(s, o)[Len(s) + 1] = o /\ \A i \in 1 .. Len(s) : Append(s, o)[i] = s[i]
    BY AppendProperties
  <2>2. DOMAIN s = 1 .. Len(s) /\ DOMAIN Append(s, o) = 1 .. (Len(s) + 1) /\ Len(s) \in Nat
    BY <2>1, LenProperties
  <2> QED
    BY <2>1, <2>2 DEF Ids
<1>3. ASSUME s # <<>>
      PROVE  /\ Head(s) \in Operation /\ Tail(s) \in Seq(Operation)
             /\ Ids(s) = {Head(s).id} \cup Ids(Tail(s))
  <2>1. /\ Head(s) \in Operation /\ Tail(s) \in Seq(Operation) /\ Len(Tail(s)) = Len(s) - 1
        /\ Len(s) \in Nat \ {0} /\ Head(s) = s[1]
        /\ \A i \in 1 .. Len(Tail(s)) : Tail(s)[i] = s[i + 1]
    BY <1>3, HeadTailProperties, EmptySeq, LenProperties
  <2>2. DOMAIN s = 1 .. Len(s) /\ DOMAIN Tail(s) = 1 .. (Len(s) - 1)
    BY <2>1, LenProperties
  <2>3. \A i \in 2 .. Len(s) : i - 1 \in 1 .. (Len(s) - 1) /\ s[i] = Tail(s)[i - 1]
    BY <2>1
  <2>4. \A i \in 1 .. (Len(s) - 1) : i + 1 \in 1 .. Len(s) /\ 1 \in 1 .. Len(s)
    BY <2>1
  <2>5. \A i \in DOMAIN s : i = 1 \/ (i - 1 \in DOMAIN Tail(s) /\ s[i] = Tail(s)[i - 1])
    BY <2>1, <2>2, <2>3
  <2>6. \A i \in DOMAIN Tail(s) : i + 1 \in DOMAIN s /\ Tail(s)[i] = s[i + 1]
    BY <2>1, <2>2, <2>4
  <2>7. 1 \in DOMAIN s
    BY <2>1, <2>2
  <2>8. Ids(s) = {Head(s).id} \cup Ids(Tail(s))
    <3>1. ASSUME NEW x \in Ids(s) PROVE x \in {Head(s).id} \cup Ids(Tail(s))
      <4>1. PICK i \in DOMAIN s : x = s[i].id
        BY <3>1 DEF Ids
      <4> QED
        BY <4>1, <2>1, <2>5 DEF Ids
    <3>2. ASSUME NEW x \in Ids(Tail(s)) PROVE x \in Ids(s)
      <4>1. PICK i \in DOMAIN Tail(s) : x = Tail(s)[i].id
        BY <3>2 DEF Ids
      <4> QED
        BY <4>1, <2>6 DEF Ids
    <3>3. Head(s).id \in Ids(s)
      BY <2>1, <2>7 DEF Ids
    <3> QED
      BY <3>1, <3>2, <3>3
  <2> QED
    BY <2>1, <2>8
<1> QED
  BY <1>1, <1>2, <1>3

LEMMA InitTypes == Init => Types
<1> SUFFICES ASSUME Init PROVE Types
  OBVIOUS
<1>1. /\ now \in 0 .. MaxTime /\ restarts \in 0 .. MaxRestarts /\ calls \in 0 .. MaxCalls
      /\ sends \in 0 .. MaxSends
  BY BoundsAssumption DEF Init
<1>2. TypeOK
  BY <1>1, Values, EmptySeq DEF Init, TypeOK
<1>3. Busy
  BY DEF Init, Busy, Idle
<1> QED
  BY <1>2, <1>3 DEF Types

(* A transaction a node has changed.                                       *)
LEMMA UpdateTypes ==
  ASSUME Types, NEW n \in Node, NEW t \in Txn, NEW status \in Status,
         NEW operations \in Seq(Operation), Update(n, t, status, operations)
  PROVE  /\ txns' \in [Node -> [Txn -> Transaction]]
         /\ touched' \in [Txn -> SUBSET Node]
         /\ txns'[n][t].status = status /\ txns'[n][t].operations = operations
         /\ txns'[n][t].updatedAt = UnixMilli(n) /\ txns'[n][t].node = n
         /\ \A m \in Node, u \in Txn : m # n \/ u # t => txns'[m][u] = txns[m][u]
<1> DEFINE r == [status |-> status, operations |-> operations, created |-> txns[n][t].created,
                 updatedAt |-> UnixMilli(n), node |-> n]
<1>1. txns \in [Node -> [Txn -> Transaction]] /\ txns[n][t].created \in Nat
  BY DEF Types, TypeOK, Transaction
<1>2. UnixMilli(n) \in Nat
  BY ClockFacts DEF Types
<1>3. r \in Transaction
  BY <1>1, <1>2 DEF Transaction
<1>4. txns' = [txns EXCEPT ![n][t] = r]
  BY DEF Update
<1>5. /\ r.status = status /\ r.operations = operations /\ r.updatedAt = UnixMilli(n) /\ r.node = n
  OBVIOUS
<1> HIDE DEF r
<1>6. /\ txns' \in [Node -> [Txn -> Transaction]] /\ txns'[n][t] = r
      /\ \A m \in Node, u \in Txn : m # n \/ u # t => txns'[m][u] = txns[m][u]
  BY <1>1, <1>3, <1>4
<1>7. touched' \in [Txn -> SUBSET Node]
  BY DEF Types, TypeOK, Update
<1> QED
  BY <1>5, <1>6, <1>7

(* A caller that goes on, while no application is taken back.              *)
GoesOn(c, r) ==
  /\ client' = [client EXCEPT ![c] = r]
  /\ applies' \in Seq(Application) /\ Len(applies) <= Len(applies')

LEMMA ClientTypes ==
  ASSUME Types, NEW c \in Client, NEW r \in ClientState, GoesOn(c, r),
         r.pc = "idle" => r = Idle,
         r.pc # "idle" => r.at \in Node /\ r.txn \in Txn,
         r.pc = "apply" => r.ops # <<>> /\ r.apply \in 1 .. Len(applies'),
         r.pc # "apply" => r.apply = 0
  PROVE  client' \in [Client -> ClientState] /\ applies' \in Seq(Application) /\ Busy'
<1>1. client \in [Client -> ClientState] /\ Len(applies) \in Nat /\ Len(applies') \in Nat
  BY LenProperties DEF Types, TypeOK, Application, GoesOn
<1>2. client' \in [Client -> ClientState] /\ client'[c] = r
      /\ \A d \in Client : d # c => client'[d] = client[d]
  BY <1>1 DEF GoesOn
<1> QED
  BY <1>1, <1>2 DEF Types, Busy, GoesOn

(* The steps that leave the callers and their applications alone.          *)
LEMMA CallerlessTypes ==
  ASSUME Types, UNCHANGED <<client, applies>>
  PROVE  client' \in [Client -> ClientState] /\ applies' \in Seq(Application) /\ Busy'
BY DEF Types, TypeOK, Busy, Application

(* What a caller holds of its own.                                         *)
LEMMA ClientFacts ==
  ASSUME Types, NEW c \in Client
  PROVE  /\ client[c] \in ClientState
         /\ client[c].ops \in Seq(Operation) /\ client[c].apply \in Nat
         /\ applies \in Seq(Application) /\ Len(applies) \in Nat
         /\ \A i \in 1 .. Len(applies) : applies[i] \in Application
         /\ client[c].pc = "idle" <=> client[c] = Idle
         /\ client[c].pc # "idle" => client[c].at \in Node /\ client[c].txn \in Txn
<1>1. client[c] \in ClientState /\ applies \in Seq(Application)
  BY DEF Types, TypeOK, Application
<1>2. client[c].ops \in Seq(Operation) /\ client[c].apply \in Nat
  BY <1>1 DEF ClientState
<1>3. Len(applies) \in Nat /\ \A i \in 1 .. Len(applies) : applies[i] \in Application
  BY <1>1, LenProperties, ElementOfSeq
<1> QED
  BY <1>1, <1>2, <1>3 DEF Types, Busy, Idle

LEMMA BeginTypes ==
  ASSUME Types, NEW n \in Node, NEW t \in Txn, BeginTransaction(n, t)
  PROVE  Types'
<1> DEFINE r == [status |-> "pending", operations |-> <<>>, created |-> UnixMilli(n),
                 updatedAt |-> UnixMilli(n), node |-> n]
<1>1. r \in Transaction
  BY ClockFacts, EmptySeq DEF Types, Transaction, Status
<1>2. txns' = [txns EXCEPT ![n][t] = r] /\ touched' = [touched EXCEPT ![t] = @ \cup {n}]
      /\ calls < MaxCalls /\ calls' = calls + 1
      /\ UNCHANGED <<now, skew, cache, client, msgs, restarts, sends, applies, outcomes, forgot, raced, cut, lowered>>
  BY DEF BeginTransaction, Call
<1> HIDE DEF r
<1>3. txns' \in [Node -> [Txn -> Transaction]]
  BY <1>1, <1>2 DEF Types, TypeOK
<1>4. touched' \in [Txn -> SUBSET Node]
  BY <1>2 DEF Types, TypeOK
<1>5. calls' \in 0 .. MaxCalls
  BY <1>2, BoundsAssumption DEF Types, TypeOK
<1>6. Busy'
  BY <1>2, CallerlessTypes
<1> QED
  BY <1>2, <1>3, <1>4, <1>5, <1>6 DEF Types, TypeOK

LEMMA AppendTypes ==
  ASSUME Types, NEW n \in Node, NEW t \in Txn, NEW k \in Key, AddOperation(n, t, k)
  PROVE  Types'
<1> DEFINE o == [id |-> calls + 1, key |-> k]
<1>1. calls < MaxCalls /\ calls' = calls + 1 /\ calls \in 0 .. MaxCalls /\ MaxCalls \in Nat
  BY BoundsAssumption DEF AddOperation, Append1, Call, Types, TypeOK
<1>2. o \in Operation /\ o.id \in 1 .. MaxCalls
  BY <1>1 DEF Operation
<1>3. txns[n][t].status \in Status /\ txns[n][t].operations \in Seq(Operation)
  BY DEF Types, TypeOK, Transaction
<1>4. Append(txns[n][t].operations, o) \in Seq(Operation)
  BY <1>2, <1>3, IdsFacts
<1>5. Update(n, t, txns[n][t].status, Append(txns[n][t].operations, o))
      /\ UNCHANGED <<now, skew, cache, client, msgs, restarts, sends, applies, outcomes, forgot, cut, lowered>>
  BY DEF AddOperation, Append1
<1>6. txns' \in [Node -> [Txn -> Transaction]] /\ touched' \in [Txn -> SUBSET Node]
  BY <1>3, <1>4, <1>5, UpdateTypes
<1>7. raced' \subseteq 1 .. MaxCalls
  BY <1>1, <1>2 DEF AddOperation, Append1, Types, TypeOK
<1>8. Busy'
  BY <1>5, CallerlessTypes
<1>9. calls' \in 0 .. MaxCalls
  BY <1>1
<1> QED
  BY <1>5, <1>6, <1>7, <1>8, <1>9 DEF Types, TypeOK

LEMMA RollbackTypes ==
  ASSUME Types, NEW n \in Node, NEW t \in Txn, RollbackTransaction(n, t)
  PROVE  Types'
<1>1. calls' \in 0 .. MaxCalls
  BY BoundsAssumption DEF RollbackTransaction, Call, Types, TypeOK
<1>2. txns[n][t].operations \in Seq(Operation) /\ "rolled_back" \in Status
  BY DEF Types, TypeOK, Transaction, Status
<1>3. Update(n, t, "rolled_back", txns[n][t].operations)
      /\ outcomes' = [outcomes EXCEPT ![t] = @ + 1]
      /\ UNCHANGED <<now, skew, cache, client, msgs, restarts, sends, applies, forgot, raced, cut, lowered>>
  BY DEF RollbackTransaction
<1>4. txns' \in [Node -> [Txn -> Transaction]] /\ touched' \in [Txn -> SUBSET Node]
  BY <1>2, <1>3, UpdateTypes
<1>5. outcomes' \in [Txn -> Nat]
  BY <1>3 DEF Types, TypeOK
<1>6. Busy'
  BY <1>3, CallerlessTypes
<1> QED
  BY <1>1, <1>3, <1>4, <1>5, <1>6 DEF Types, TypeOK

LEMMA CleanupTypes ==
  ASSUME Types, NEW n \in Node, CleanupExpired(n)
  PROVE  Types'
<1> DEFINE expired == {t \in Known(n) : UnixMilli(n) - txns[n][t].created > Timeout}
           table == [t \in Txn |-> IF t \in expired THEN Absent ELSE txns[n][t]]
<1>1. expired \subseteq Txn /\ txns' = [txns EXCEPT ![n] = table] /\ forgot' = forgot \cup expired
      /\ UNCHANGED <<now, skew, cache, client, msgs, restarts, calls, sends, applies, outcomes, touched, raced, cut, lowered>>
  BY DEF CleanupExpired, Known, Types, TypeOK
<1>2. table \in [Txn -> Transaction]
  BY Values DEF Types, TypeOK
<1> HIDE DEF table, expired
<1>3. txns' \in [Node -> [Txn -> Transaction]]
  BY <1>1, <1>2 DEF Types, TypeOK
<1>4. Busy'
  BY <1>1, CallerlessTypes
<1> QED
  BY <1>1, <1>3, <1>4 DEF Types, TypeOK

LEMMA CallTypes ==
  ASSUME Types, NEW c \in Client
  PROVE  /\ \A n \in Node, t \in Txn : ReadOperations(c, n, t) => Types'
         /\ CommitRefused(c) => Types'
         /\ Commit(c) => Types'
<1> applies \in Seq(Application) /\ Len(applies) \in Nat
  BY ClientFacts
<1>1. ASSUME NEW n \in Node, NEW t \in Txn, ReadOperations(c, n, t)
      PROVE  Types'
  <2> DEFINE r == [pc |-> "commit", at |-> n, txn |-> t, ops |-> txns[n][t].operations, apply |-> 0]
  <2>1. client' = [client EXCEPT ![c] = r]
        /\ UNCHANGED <<now, skew, txns, cache, msgs, restarts, sends, history>>
    BY <1>1 DEF ReadOperations
  <2>2. r \in ClientState
    BY DEF Types, TypeOK, Transaction, ClientState
  <2>3. r.pc = "commit" /\ r.at = n /\ r.txn = t /\ r.apply = 0
    OBVIOUS
  <2> HIDE DEF r
  <2>4. client' \in [Client -> ClientState] /\ Busy'
    <3>1. GoesOn(c, r)
      BY <2>1 DEF GoesOn, history
    <3> QED
      BY <2>2, <2>3, <3>1, ClientTypes
  <2>5. calls' \in 0 .. MaxCalls
    BY <1>1, BoundsAssumption DEF ReadOperations, Call, Types, TypeOK
  <2> QED
    BY <2>1, <2>4, <2>5 DEF Types, TypeOK, history
<1>2. ASSUME CommitRefused(c) PROVE Types'
  <2>1. client' = [client EXCEPT ![c] = Idle]
        /\ UNCHANGED <<now, skew, txns, cache, msgs, restarts, calls, sends, history>>
    BY <1>2 DEF CommitRefused
  <2>2. Idle.pc = "idle" /\ Idle.apply = 0
    BY DEF Idle
  <2>3. client' \in [Client -> ClientState] /\ Busy'
    <3>1. GoesOn(c, Idle)
      BY <2>1 DEF GoesOn, history
    <3> QED
      BY <2>2, <3>1, ClientTypes, Values
  <2> QED
    BY <2>1, <2>3 DEF Types, TypeOK, history
<1>3. ASSUME Commit(c) PROVE Types'
  <2> DEFINE r == [client[c] EXCEPT !.pc = "lock"]
  <2>1. PICK n \in Node, t \in Txn : n = client[c].at /\ t = client[c].txn
    BY <1>3, ClientFacts DEF Commit
  <2>2. Update(n, t, "committed", txns[n][t].operations)
        /\ outcomes' = [outcomes EXCEPT ![t] = @ + 1]
        /\ UNCHANGED <<now, skew, cache, msgs, restarts, calls, sends, applies, forgot, raced, cut, lowered>>
    BY <1>3, <2>1 DEF Commit, Committed
  <2>3. txns[n][t].operations \in Seq(Operation) /\ "committed" \in Status
    BY DEF Types, TypeOK, Transaction, Status
  <2>4. txns' \in [Node -> [Txn -> Transaction]] /\ touched' \in [Txn -> SUBSET Node]
    BY <2>2, <2>3, UpdateTypes
  <2>5. outcomes' \in [Txn -> Nat]
    BY <2>2 DEF Types, TypeOK
  <2>6. client[c].pc = "commit" /\ client[c] \in ClientState /\ client[c].apply = 0
    BY <1>3, ClientFacts DEF Commit, Types, Busy
  <2>7. r \in ClientState /\ r.pc = "lock" /\ r.at = n /\ r.txn = t /\ r.apply = 0
    BY <2>1, <2>6 DEF ClientState
  <2>8. client' = [client EXCEPT ![c] = r]
    BY <1>3 DEF Commit, Committed, Types, TypeOK
  <2> HIDE DEF r
  <2>9. client' \in [Client -> ClientState] /\ Busy'
    <3>1. GoesOn(c, r)
      BY <2>2, <2>8 DEF GoesOn
    <3> QED
      BY <2>7, <3>1, ClientTypes
  <2> QED
    BY <2>2, <2>4, <2>5, <2>9 DEF Types, TypeOK, Application
<1> QED
  BY <1>1, <1>2, <1>3

(* The application a caller starts.                                        *)
Started == [ops |-> {}, writes |-> [k \in Key |-> NoEntry], torn |-> FALSE]

(* What the caller that takes the store's lock does.                       *)
LEMMA LockFacts ==
  ASSUME Types, NEW c \in Client, LockStore(c)
  PROVE  /\ client[c].pc = "lock" /\ client[c].at \in Node /\ client[c].txn \in Txn
         /\ client'[c].ops = client[c].ops
         /\ client[c].ops = <<>> => client' = [client EXCEPT ![c] = Idle] /\ applies' = applies
         /\ client[c].ops # <<>> =>
              /\ client'[c] \in ClientState
              /\ client'[c].pc = "apply" /\ client'[c].at = client[c].at
              /\ client'[c].txn = client[c].txn /\ client'[c].apply = Len(applies) + 1
              /\ client' = [client EXCEPT ![c] = client'[c]]
              /\ applies' = Append(applies, Started)
         /\ Started \in Application
<1>1. client[c].pc = "lock" /\ client[c].at \in Node /\ client[c].txn \in Txn
      /\ client[c] \in ClientState /\ Len(applies) + 1 \in Nat
  BY ClientFacts DEF LockStore
<1>2. Started \in Application
  BY Values DEF Started, Application
<1>3. ASSUME client[c].ops = <<>>
      PROVE  client' = [client EXCEPT ![c] = Idle] /\ applies' = applies /\ client'[c].ops = client[c].ops
  BY <1>3 DEF LockStore, Types, TypeOK, Idle
<1>4. ASSUME client[c].ops # <<>>
      PROVE  /\ client'[c] \in ClientState /\ client'[c].ops = client[c].ops
             /\ client'[c].pc = "apply" /\ client'[c].at = client[c].at
             /\ client'[c].txn = client[c].txn /\ client'[c].apply = Len(applies) + 1
             /\ client' = [client EXCEPT ![c] = client'[c]]
             /\ applies' = Append(applies, Started)
  <2> DEFINE r == [client[c] EXCEPT !.pc = "apply", !.apply = Len(applies) + 1]
  <2>1. r \in ClientState /\ r.ops = client[c].ops /\ r.pc = "apply" /\ r.at = client[c].at
        /\ r.txn = client[c].txn /\ r.apply = Len(applies) + 1
    BY <1>1 DEF ClientState
  <2>2. client' = [client EXCEPT ![c] = r] /\ applies' = Append(applies, Started)
    BY <1>4 DEF LockStore, Started
  <2> HIDE DEF r
  <2>3. client'[c] = r
    BY <2>2 DEF Types, TypeOK
  <2> QED
    BY <2>1, <2>2, <2>3
<1> QED
  BY <1>1, <1>2, <1>3, <1>4

LEMMA LockTypes ==
  ASSUME Types, NEW c \in Client, LockStore(c)
  PROVE  Types'
<1>1. UNCHANGED <<now, skew, txns, cache, msgs, restarts, calls, sends, outcomes, touched, forgot, raced, cut, lowered>>
  BY DEF LockStore
<1>2. applies \in Seq(Application) /\ Len(applies) \in Nat
  BY ClientFacts
<1>3. client' \in [Client -> ClientState] /\ applies' \in Seq(Application) /\ Busy'
  <2>1. CASE client[c].ops = <<>>
    <3>1. Idle.pc = "idle" /\ Idle.apply = 0
      BY DEF Idle
    <3>2. GoesOn(c, Idle)
      BY <1>2, <2>1, LockFacts DEF GoesOn
    <3> QED
      BY <3>1, <3>2, ClientTypes, Values
  <2>2. CASE client[c].ops # <<>>
    <3>1. applies' \in Seq(Application) /\ Len(applies') = Len(applies) + 1
      BY <1>2, <2>2, LockFacts, AppendProperties
    <3>2. PICK r \in ClientState :
            /\ client' = [client EXCEPT ![c] = r] /\ r.pc = "apply"
            /\ r.at \in Node /\ r.txn \in Txn /\ r.ops # <<>> /\ r.apply = Len(applies) + 1
      BY <2>2, LockFacts
    <3>3. GoesOn(c, r)
      BY <1>2, <3>1, <3>2 DEF GoesOn
    <3>4. r.apply \in 1 .. Len(applies')
      BY <1>2, <3>1, <3>2
    <3> QED
      BY <3>2, <3>3, <3>4, ClientTypes
  <2> QED
    BY <2>1, <2>2
<1> QED
  BY <1>1, <1>3 DEF Types, TypeOK, Application

(* What the caller that applies a write puts where.                        *)
Written(c) == [apply |-> client[c].apply, ts |-> UnixNano(client[c].at) + 1, node |-> client[c].at]

Writes(c, n, i, o, e) ==
  /\ client[c].pc = "apply" /\ client[c].at = n /\ client[c].apply = i
  /\ Ids(client[c].ops) = {o.id} \cup Ids(Tail(client[c].ops))
  /\ e.apply = i
  /\ cache' \in [Node -> [Key -> Entry]]
  /\ cache'[n][o.key] = e
  /\ \A m \in Node, k \in Key : m # n \/ k # o.key => cache'[m][k] = cache[m][k]
  /\ applies' \in Seq(Application) /\ Len(applies') = Len(applies)
  /\ \A j \in 1 .. Len(applies) : j # i => applies'[j] = applies[j]
  /\ applies'[i].ops = applies[i].ops \cup {o.id} /\ applies'[i].torn = applies[i].torn
  /\ applies'[i].writes[o.key] = e
  /\ \A k \in Key : k # o.key => applies'[i].writes[k] = applies[i].writes[k]
  /\ lowered \subseteq lowered' /\ lowered' \subseteq lowered \cup {o.key}
  /\ o.key \notin lowered' => ~cacheEntryLess(e, cache[n][o.key])
  /\ \E r \in ClientState :
       /\ client' = [client EXCEPT ![c] = r]
       /\ \/ r = Idle /\ Tail(client[c].ops) = <<>>
          \/ /\ r.pc = "apply" /\ r.at = n /\ r.txn = client[c].txn /\ r.apply = i
             /\ r.ops = Tail(client[c].ops) /\ r.ops # <<>>

LEMMA WriteFacts ==
  ASSUME Types, NEW c \in Client, ApplyWrite(c)
  PROVE  \E n \in Node, i \in 1 .. Len(applies), o \in Operation, e \in Entry :
           Writes(c, n, i, o, e)
<1>1. /\ client[c].pc = "apply" /\ client[c].ops # <<>> /\ client[c] \in ClientState
      /\ client[c].at \in Node /\ client[c].apply \in 1 .. Len(applies)
      /\ client[c].ops \in Seq(Operation)
      /\ applies \in Seq(Application) /\ Len(applies) \in Nat
      /\ \A j \in 1 .. Len(applies) : applies[j] \in Application
  BY ClientFacts DEF ApplyWrite, Write, Types, Busy
<1> DEFINE n == client[c].at
           i == client[c].apply
           o == Head(client[c].ops)
           e == Written(c)
           a == [ops |-> applies[i].ops \cup {o.id}, writes |-> [applies[i].writes EXCEPT ![o.key] = e],
                 torn |-> applies[i].torn]
<1>2. /\ o \in Operation /\ Tail(client[c].ops) \in Seq(Operation)
      /\ Ids(client[c].ops) = {o.id} \cup Ids(Tail(client[c].ops))
      /\ o.key \in Key /\ o.id \in 1 .. MaxCalls
  <2>1. o \in Operation /\ Tail(client[c].ops) \in Seq(Operation)
        /\ Ids(client[c].ops) = {o.id} \cup Ids(Tail(client[c].ops))
    BY <1>1, IdsFacts
  <2> QED
    BY <2>1 DEF Operation
<1>3. e \in Entry /\ e.apply = i
  BY <1>1, ClockFacts DEF Written, Entry, Types
<1>4. /\ cache' = [cache EXCEPT ![n][o.key] = e]
      /\ lowered' = IF cacheEntryLess(e, cache[n][o.key]) THEN lowered \cup {o.key} ELSE lowered
      /\ applies' = [applies EXCEPT ![i] = a]
  BY DEF ApplyWrite, Write, Written
<1>5. PICK r \in ClientState :
        /\ client' = [client EXCEPT ![c] = r]
        /\ \/ r = Idle /\ Tail(client[c].ops) = <<>>
           \/ /\ r.pc = "apply" /\ r.at = n /\ r.txn = client[c].txn /\ r.apply = i
              /\ r.ops = Tail(client[c].ops) /\ r.ops # <<>>
  <2>1. CASE Tail(client[c].ops) = <<>>
    <3>1. client' = [client EXCEPT ![c] = Idle]
      BY <2>1 DEF ApplyWrite, Write
    <3> QED
      BY <2>1, <3>1, Values
  <2>2. CASE Tail(client[c].ops) # <<>>
    <3> DEFINE r == [client[c] EXCEPT !.ops = Tail(client[c].ops)]
    <3>1. r \in ClientState /\ r.pc = "apply" /\ r.at = n /\ r.txn = client[c].txn /\ r.apply = i
          /\ r.ops = Tail(client[c].ops)
      BY <1>1, <1>2 DEF ClientState
    <3>2. client' = [client EXCEPT ![c] = r]
      BY <2>2 DEF ApplyWrite, Write
    <3> HIDE DEF r
    <3> QED
      BY <2>2, <3>1, <3>2
  <2> QED
    BY <2>1, <2>2
<1>6. /\ a \in Application /\ a.ops = applies[i].ops \cup {o.id} /\ a.torn = applies[i].torn
      /\ a.writes[o.key] = e
      /\ \A k \in Key : k # o.key => a.writes[k] = applies[i].writes[k]
  BY <1>1, <1>2, <1>3 DEF Application
<1> HIDE DEF a, e, o
<1>7. applies' \in Seq(Application) /\ Len(applies') = Len(applies) /\ applies'[i] = a
      /\ \A j \in 1 .. Len(applies) : j # i => applies'[j] = applies[j]
  BY <1>1, <1>4, <1>6, ExceptSeq
<1>8. cache' \in [Node -> [Key -> Entry]] /\ cache'[n][o.key] = e
      /\ \A m \in Node, k \in Key : m # n \/ k # o.key => cache'[m][k] = cache[m][k]
  BY <1>1, <1>2, <1>3, <1>4 DEF Types, TypeOK
<1>9. /\ lowered \subseteq lowered' /\ lowered' \subseteq lowered \cup {o.key}
      /\ o.key \notin lowered' => ~cacheEntryLess(e, cache[n][o.key])
  BY <1>4
<1>10. n \in Node /\ i \in 1 .. Len(applies) /\ o \in Operation /\ e \in Entry
  BY <1>1, <1>2, <1>3
<1>11. /\ applies'[i].ops = applies[i].ops \cup {o.id} /\ applies'[i].torn = applies[i].torn
       /\ applies'[i].writes[o.key] = e
       /\ \A k \in Key : k # o.key => applies'[i].writes[k] = applies[i].writes[k]
  BY <1>6, <1>7
<1>12. client[c].pc = "apply" /\ client[c].at = n /\ client[c].apply = i
  BY <1>1
<1> HIDE DEF n, i
<1>13. Writes(c, n, i, o, e)
  BY <1>2, <1>3, <1>5, <1>7, <1>8, <1>9, <1>11, <1>12 DEF Writes
<1> QED
  BY <1>10, <1>13

LEMMA WriteTypes ==
  ASSUME Types, NEW c \in Client, ApplyWrite(c)
  PROVE  Types'
<1>1. PICK n \in Node, i \in 1 .. Len(applies), o \in Operation, r \in ClientState :
        /\ client[c].pc = "apply" /\ client[c].at = n /\ client[c].apply = i
        /\ cache' \in [Node -> [Key -> Entry]]
        /\ applies' \in Seq(Application) /\ Len(applies') = Len(applies)
        /\ lowered' \subseteq lowered \cup {o.key}
        /\ client' = [client EXCEPT ![c] = r]
        /\ \/ r = Idle
           \/ r.pc = "apply" /\ r.at = n /\ r.txn = client[c].txn /\ r.apply = i /\ r.ops # <<>>
  BY WriteFacts DEF Writes
<1>2. now < MaxTime /\ now' = now + 1
      /\ UNCHANGED <<skew, txns, msgs, restarts, calls, sends, outcomes, touched, forgot, raced, cut>>
  BY DEF ApplyWrite, Write
<1>3. now' \in 0 .. MaxTime
  BY <1>2, BoundsAssumption DEF Types, TypeOK
<1>4. lowered' \subseteq Key
  BY <1>1 DEF Operation, Types, TypeOK
<1>5. client' \in [Client -> ClientState] /\ applies' \in Seq(Application) /\ Busy'
  <2>1. Len(applies) \in Nat /\ client[c].txn \in Txn
    BY <1>1, ClientFacts
  <2>2. GoesOn(c, r)
    BY <1>1, <2>1 DEF GoesOn
  <2>3. Idle.pc = "idle" /\ Idle.apply = 0
    BY DEF Idle
  <2> QED
    BY <1>1, <2>1, <2>2, <2>3, ClientTypes
<1> QED
  BY <1>1, <1>2, <1>3, <1>4, <1>5 DEF Types, TypeOK, Application

LEMMA SendTypes ==
  ASSUME Types, NEW m \in Node, NEW n \in Node, Send(m, n)
  PROVE  Types'
<1> DEFINE msg == [from |-> m, to |-> n, txns |-> txns[m], cache |-> cache[m]]
<1>1. msg \in Message
  BY DEF Types, TypeOK, Message
<1>2. msgs' = msgs \cup {msg} /\ sends < MaxSends /\ sends' = sends + 1
      /\ UNCHANGED <<now, skew, txns, cache, client, restarts, calls, history>>
  BY DEF Send, Copy
<1> HIDE DEF msg
<1>3. msgs' \subseteq Message
  BY <1>1, <1>2 DEF Types, TypeOK, Message
<1>4. sends' \in 0 .. MaxSends
  BY <1>2, BoundsAssumption DEF Types, TypeOK
<1>5. Busy'
  BY <1>2, CallerlessTypes DEF history
<1> QED
  BY <1>2, <1>3, <1>4, <1>5 DEF Types, TypeOK, Message, history

(* What a merge leaves.                                                    *)
LEMMA MergeFacts ==
  ASSUME Types, NEW n \in Node, NEW msg \in Message, MergeState(n, msg)
  PROVE  /\ txns' \in [Node -> [Txn -> Transaction]]
         /\ \A t \in Txn : txns'[n][t] = MergeTxn(txns[n][t], msg.txns[t])
         /\ cache' \in [Node -> [Key -> Entry]]
         /\ \A k \in Key : cache'[n][k] = IF cacheEntryLess(cache[n][k], msg.cache[k])
                                          THEN msg.cache[k] ELSE cache[n][k]
         /\ \A m \in Node : m # n => txns'[m] = txns[m] /\ cache'[m] = cache[m]
         /\ raced \subseteq raced' /\ raced' \subseteq 1 .. MaxCalls
         /\ \A t \in Txn : Committing(n, t) =>
              Ids(txns'[n][t].operations) \ Ids(txns[n][t].operations) \subseteq raced'
<1> DEFINE merged == [t \in Txn |-> MergeTxn(txns[n][t], msg.txns[t])]
           gained == {t \in Txn : Committing(n, t) /\ merged[t] # txns[n][t]}
           cached == [k \in Key |-> IF cacheEntryLess(cache[n][k], msg.cache[k])
                                    THEN msg.cache[k] ELSE cache[n][k]]
<1>1. /\ txns' = [txns EXCEPT ![n] = merged]
      /\ cache' = [cache EXCEPT ![n] = cached]
      /\ raced' = raced \cup UNION {Ids(merged[t].operations) \ Ids(txns[n][t].operations) : t \in gained}
  BY DEF MergeState, Types, TypeOK
<1>2. merged \in [Txn -> Transaction] /\ \A t \in Txn : merged[t] = MergeTxn(txns[n][t], msg.txns[t])
  BY DEF MergeTxn, Types, TypeOK, Message
<1>3. cached \in [Key -> Entry]
      /\ \A k \in Key : cached[k] = IF cacheEntryLess(cache[n][k], msg.cache[k])
                                    THEN msg.cache[k] ELSE cache[n][k]
  BY DEF Types, TypeOK, Message
<1> HIDE DEF merged, cached
<1>4. txns' \in [Node -> [Txn -> Transaction]] /\ txns'[n] = merged
      /\ \A m \in Node : m # n => txns'[m] = txns[m]
  BY <1>1, <1>2 DEF Types, TypeOK
<1>5. cache' \in [Node -> [Key -> Entry]] /\ cache'[n] = cached
      /\ \A m \in Node : m # n => cache'[m] = cache[m]
  BY <1>1, <1>3 DEF Types, TypeOK
<1>6. raced \subseteq raced'
  BY <1>1
<1>7. raced' \subseteq 1 .. MaxCalls
  <2>1. \A t \in Txn : Ids(merged[t].operations) \subseteq 1 .. MaxCalls
    BY <1>2, IdsFacts DEF Transaction
  <2> QED
    BY <1>1, <2>1 DEF Types, TypeOK
<1>8. ASSUME NEW t \in Txn, Committing(n, t)
      PROVE  Ids(txns'[n][t].operations) \ Ids(txns[n][t].operations) \subseteq raced'
  <2>1. CASE merged[t] = txns[n][t]
    BY <1>4, <2>1
  <2>2. CASE merged[t] # txns[n][t]
    BY <1>1, <1>4, <1>8, <2>2
  <2> QED
    BY <2>1, <2>2
<1> QED
  BY <1>2, <1>3, <1>4, <1>5, <1>6, <1>7, <1>8

LEMMA DeliverTypes ==
  ASSUME Types, NEW m \in Node, NEW n \in Node, Deliver(m, n)
  PROVE  Types'
<1>1. PICK msg \in msgs :
        /\ msg.from = m /\ msg.to = n
        /\ msgs' = msgs \ {msg}
        /\ MergeState(n, msg)
        /\ UNCHANGED <<now, skew, client, restarts, calls, sends, applies, outcomes, touched, forgot, cut, lowered>>
  BY DEF Deliver
<1>2. msg \in Message
  BY DEF Types, TypeOK, Message
<1>3. /\ txns' \in [Node -> [Txn -> Transaction]] /\ cache' \in [Node -> [Key -> Entry]]
      /\ raced' \subseteq 1 .. MaxCalls
  BY <1>1, <1>2, MergeFacts
<1>4. Busy'
  BY <1>1, CallerlessTypes
<1> QED
  BY <1>1, <1>3, <1>4 DEF Types, TypeOK

(* What a kill leaves.                                                     *)
Kills(n) ==
  /\ txns' \in [Node -> [Txn -> Transaction]]
  /\ \A t \in Txn : txns'[n][t] = Absent
  /\ \A m \in Node : m # n => txns'[m] = txns[m]
  /\ client' \in [Client -> ClientState]
  /\ \A c \in Client : client'[c] = IF client[c].at = n THEN Idle ELSE client[c]
  /\ forgot' = forgot \cup Known(n)
  /\ cut \subseteq cut' /\ cut' \subseteq 1 .. MaxCalls
  /\ \A c \in Client :
       client[c].at = n /\ client[c].pc \in {"lock", "apply"} => Ids(client[c].ops) \subseteq cut'
  /\ applies' \in Seq(Application) /\ Len(applies') = Len(applies)
  /\ \A i \in 1 .. Len(applies) :
       /\ applies'[i].ops = applies[i].ops /\ applies'[i].writes = applies[i].writes
       /\ applies[i].torn => applies'[i].torn

LEMMA RestartFacts ==
  ASSUME Types, NEW n \in Node, Restart(n)
  PROVE  Kills(n)
<1> DEFINE dead == {c \in Client : client[c].at = n}
<1>1. /\ txns' = [txns EXCEPT ![n] = [t \in Txn |-> Absent]]
      /\ client' = [c \in Client |-> IF c \in dead THEN Idle ELSE client[c]]
      /\ forgot' = forgot \cup Known(n)
      /\ cut' = cut \cup UNION {Ids(client[c].ops) : c \in {d \in dead : client[d].pc # "commit"}}
      /\ applies' = [i \in DOMAIN applies |->
                       [applies[i] EXCEPT !.torn = @ \/ \E c \in dead : client[c].apply = i]]
  BY DEF Restart
<1>2. /\ txns' \in [Node -> [Txn -> Transaction]]
      /\ \A t \in Txn : txns'[n][t] = Absent
      /\ \A m \in Node : m # n => txns'[m] = txns[m]
  <2> DEFINE none == [t \in Txn |-> Absent]
  <2>1. none \in [Txn -> Transaction] /\ \A t \in Txn : none[t] = Absent
    BY Values
  <2>2. txns' = [txns EXCEPT ![n] = none]
    BY <1>1
  <2> HIDE DEF none
  <2> QED
    BY <2>1, <2>2 DEF Types, TypeOK
<1>3. client' \in [Client -> ClientState]
      /\ \A c \in Client : client'[c] = IF client[c].at = n THEN Idle ELSE client[c]
  BY <1>1, Values DEF Types, TypeOK
<1>4. cut \subseteq cut' /\ cut' \subseteq 1 .. MaxCalls
      /\ \A c \in Client :
           client[c].at = n /\ client[c].pc \in {"lock", "apply"} => Ids(client[c].ops) \subseteq cut'
  <2>1. \A c \in Client : Ids(client[c].ops) \subseteq 1 .. MaxCalls
    BY ClientFacts, IdsFacts
  <2>2. cut \subseteq 1 .. MaxCalls
    BY DEF Types, TypeOK
  <2>3. \A c \in Client : client[c].at = n /\ client[c].pc \in {"lock", "apply"} =>
          c \in {d \in dead : client[d].pc # "commit"}
    OBVIOUS
  <2> QED
    BY <1>1, <2>1, <2>2, <2>3
<1>5. /\ applies' \in Seq(Application) /\ Len(applies') = Len(applies)
      /\ \A i \in 1 .. Len(applies) :
           /\ applies'[i].ops = applies[i].ops /\ applies'[i].writes = applies[i].writes
           /\ applies[i].torn => applies'[i].torn
  <2>1. applies \in Seq(Application) /\ Len(applies) \in Nat /\ DOMAIN applies = 1 .. Len(applies)
    BY LenProperties DEF Types, TypeOK, Application
  <2>2. ASSUME NEW i \in 1 .. Len(applies)
        PROVE  /\ applies'[i] \in Application
               /\ applies'[i].ops = applies[i].ops /\ applies'[i].writes = applies[i].writes
               /\ applies[i].torn => applies'[i].torn
    <3> DEFINE killed == \E c \in dead : client[c].apply = i
    <3>1. applies'[i] = [applies[i] EXCEPT !.torn = @ \/ killed]
      BY <1>1, <2>1
    <3>2. applies[i] \in Application
      BY <2>1, ElementOfSeq
    <3>3. killed \in BOOLEAN
      OBVIOUS
    <3> HIDE DEF killed
    <3> QED
      BY <3>1, <3>2, <3>3 DEF Application
  <2>3. applies' = [i \in 1 .. Len(applies) |-> applies'[i]]
    BY <1>1, <2>1
  <2>4. applies' \in [1 .. Len(applies) -> Application]
    BY <2>2, <2>3
  <2>5. applies' \in Seq(Application) /\ Len(applies') = Len(applies)
    BY <2>1, <2>4, IsASeq, LenProperties
  <2> QED
    BY <2>2, <2>5
<1> QED
  BY <1>1, <1>2, <1>3, <1>4, <1>5 DEF Kills

LEMMA RestartTypes ==
  ASSUME Types, NEW n \in Node, Restart(n)
  PROVE  Types'
<1>1. Kills(n)
  BY RestartFacts
<1>2. restarts' \in 0 .. MaxRestarts
      /\ UNCHANGED <<now, skew, cache, msgs, calls, sends, outcomes, touched, raced, lowered>>
  BY BoundsAssumption DEF Restart, Types, TypeOK
<1>3. Busy'
  BY <1>1 DEF Kills, Types, Busy, Idle
<1>4. forgot' \subseteq Txn
  BY <1>1 DEF Kills, Known, Types, TypeOK
<1> QED
  BY <1>1, <1>2, <1>3, <1>4 DEF Kills, Types, TypeOK, Application

LEMMA TypesStep == Types /\ [Next]_vars => Types'
<1>1. ASSUME Types, UNCHANGED vars PROVE Types'
  BY <1>1, CallerlessTypes DEF Types, TypeOK, vars, history
<1>2. ASSUME Types, Next PROVE Types'
  <2>1. ASSUME Tick PROVE Types'
    <3>1. now' \in 0 .. MaxTime
      BY <1>2, <2>1, BoundsAssumption DEF Tick, Types, TypeOK
    <3>2. UNCHANGED <<skew, txns, cache, client, msgs, restarts, calls, sends, history>>
      BY <2>1 DEF Tick
    <3>3. Busy'
      BY <1>2, <3>2, CallerlessTypes DEF history
    <3> QED
      BY <1>2, <3>1, <3>2, <3>3 DEF Types, TypeOK, history
  <2> QED
    BY <1>2, <2>1, BeginTypes, AppendTypes, RollbackTypes, CleanupTypes, CallTypes, LockTypes,
       WriteTypes, SendTypes, DeliverTypes, RestartTypes DEF Next
<1> QED
  BY <1>1, <1>2

----------------------------------------------------------------------------
(* A transaction only one node's handlers have changed, and none forgot:   *)
(* that node's record of it decides, and every other anywhere is an older  *)
(* one of that node's.                                                     *)
Older(r, s) == r.status # "absent" => r.node = s.node /\ r.updatedAt <= s.updatedAt

Sole(t, n) ==
  /\ txns[n][t].status # "absent" /\ txns[n][t].node = n
  /\ txns[n][t].updatedAt <= UnixMilli(n)
  /\ outcomes[t] <= 1 /\ (txns[n][t].status = "pending" => outcomes[t] = 0)
  /\ \A m \in Node : Older(txns[m][t], txns[n][t])
  /\ \A msg \in msgs : Older(msg.txns[t], txns[n][t])

Unknown(t) ==
  /\ outcomes[t] = 0
  /\ \A m \in Node : txns[m][t].status = "absent"
  /\ \A msg \in msgs : msg.txns[t].status = "absent"

SoleOwner ==
  \A t \in Txn :
    /\ touched[t] = {} => Unknown(t)
    /\ t \notin forgot => \A n \in Node : touched[t] = {n} => Sole(t, n)

(* A node changes a pending transaction, and its outcome if it ends it.    *)
Changes(n, t, status, operations) ==
  /\ Update(n, t, status, operations)
  /\ txns[n][t].status = "pending"
  /\ UNCHANGED <<now, skew, msgs, forgot>>
  /\ outcomes' \in [Txn -> Nat]
  /\ \A u \in Txn : u # t => outcomes'[u] = outcomes[u]
  /\ \/ outcomes'[t] = outcomes[t]
     \/ outcomes'[t] = outcomes[t] + 1 /\ status # "pending"

LEMMA UpdateKeepsOwner ==
  ASSUME Types, SoleOwner, NEW n \in Node, NEW t \in Txn, NEW status \in Status \ {"absent"},
         NEW operations \in Seq(Operation), Changes(n, t, status, operations)
  PROVE  SoleOwner'
<1> USE DEF Changes
<1>1. /\ txns' \in [Node -> [Txn -> Transaction]] /\ txns \in [Node -> [Txn -> Transaction]]
      /\ txns'[n][t].status = status /\ txns'[n][t].updatedAt = UnixMilli(n) /\ txns'[n][t].node = n
      /\ \A m \in Node, u \in Txn : m # n \/ u # t => txns'[m][u] = txns[m][u]
  BY UpdateTypes DEF Types, TypeOK
<1>2. touched' = [touched EXCEPT ![t] = @ \cup {n}] /\ touched \in [Txn -> SUBSET Node]
  BY DEF Update, Types, TypeOK
<1>3. outcomes \in [Txn -> Nat] /\ \A m \in Node : UnixMilli(m)' = UnixMilli(m) /\ UnixMilli(m) \in Nat
  BY ClockFacts DEF Types, TypeOK, UnixMilli, UnixNano
<1>4. touched[t] # {}
  BY DEF SoleOwner, Unknown
<1>5. ASSUME NEW u \in Txn, u # t
      PROVE  /\ touched'[u] = {} => Unknown(u)'
             /\ u \notin forgot' => \A m \in Node : touched'[u] = {m} => Sole(u, m)'
  <2>1. touched'[u] = touched[u] /\ outcomes'[u] = outcomes[u]
        /\ \A m \in Node : txns'[m][u] = txns[m][u]
    BY <1>1, <1>2, <1>5
  <2>2. touched'[u] = {} => Unknown(u)'
    BY <2>1 DEF SoleOwner, Unknown
  <2>3. u \notin forgot' => \A m \in Node : touched'[u] = {m} => Sole(u, m)'
    <3>1. ASSUME u \notin forgot', NEW m \in Node, touched'[u] = {m} PROVE Sole(u, m)'
      <4>1. Sole(u, m)
        BY <2>1, <3>1 DEF SoleOwner
      <4> QED
        BY <1>3, <2>1, <4>1 DEF Sole
    <3> QED
      BY <3>1
  <2> QED
    BY <2>2, <2>3
<1>6. ASSUME t \notin forgot', NEW m \in Node, touched'[t] = {m}
      PROVE  Sole(t, m)'
  <2>1. m = n /\ touched[t] = {n}
    BY <1>2, <1>4, <1>6
  <2>2. Sole(t, n)
    BY <1>6, <2>1 DEF SoleOwner
  <2>3. outcomes[t] = 0 /\ txns[n][t].updatedAt <= UnixMilli(n)
    BY <2>2 DEF Sole
  <2>4. ASSUME NEW r \in Transaction, Older(r, txns[n][t]) PROVE Older(r, txns'[n][t])
    <3>1. txns[n][t].node = n /\ txns'[n][t].node = n
      BY <1>1, <2>2 DEF Sole
    <3>2. txns'[n][t].updatedAt = UnixMilli(n) /\ UnixMilli(n) \in Nat
      BY <1>1, <1>3
    <3>3. r.updatedAt \in Nat /\ txns[n][t].updatedAt \in Nat
      BY <1>1 DEF Transaction
    <3> QED
      BY <2>3, <2>4, <3>1, <3>2, <3>3 DEF Older
  <2>5. \A p \in Node : Older(txns'[p][t], txns'[n][t])
    <3>1. Older(txns'[n][t], txns'[n][t])
      BY <1>1, <1>3 DEF Older
    <3> QED
      BY <1>1, <2>2, <2>4, <3>1 DEF Sole
  <2>6. \A msg \in msgs : Older(msg.txns[t], txns'[n][t])
    BY <2>2, <2>4 DEF Sole, Types, TypeOK
  <2> QED
    BY <1>1, <1>3, <2>1, <2>3, <2>5, <2>6 DEF Sole
<1> QED
  BY <1>2, <1>4, <1>5, <1>6 DEF SoleOwner

LEMMA BeginKeepsOwner ==
  ASSUME Types, SoleOwner, NEW n \in Node, NEW t \in Txn, BeginTransaction(n, t)
  PROVE  SoleOwner'
<1> DEFINE r == [status |-> "pending", operations |-> <<>>, created |-> UnixMilli(n),
                 updatedAt |-> UnixMilli(n), node |-> n]
<1>1. txns' = [txns EXCEPT ![n][t] = r] /\ touched' = [touched EXCEPT ![t] = @ \cup {n}]
      /\ t \notin Known(n) /\ UNCHANGED <<now, skew, msgs, outcomes, forgot>>
  BY DEF BeginTransaction
<1>2. r.status = "pending" /\ r.updatedAt = UnixMilli(n) /\ r.node = n
  OBVIOUS
<1> HIDE DEF r
<1>3. /\ txns'[n][t] = r /\ txns[n][t].status = "absent"
      /\ \A m \in Node, u \in Txn : m # n \/ u # t => txns'[m][u] = txns[m][u]
  BY <1>1 DEF Known, Types, TypeOK
<1>4. touched \in [Txn -> SUBSET Node] /\ n \in touched'[t]
      /\ \A u \in Txn : u # t => touched'[u] = touched[u]
  BY <1>1 DEF Types, TypeOK
<1>5. outcomes \in [Txn -> Nat] /\ \A m \in Node : UnixMilli(m)' = UnixMilli(m) /\ UnixMilli(m) \in Nat
  BY <1>1, ClockFacts DEF Types, TypeOK, UnixMilli, UnixNano
<1>6. ASSUME NEW u \in Txn, u # t
      PROVE  /\ touched'[u] = {} => Unknown(u)'
             /\ u \notin forgot' => \A m \in Node : touched'[u] = {m} => Sole(u, m)'
  BY <1>1, <1>3, <1>4, <1>5, <1>6 DEF SoleOwner, Unknown, Sole, Older
<1>7. ASSUME t \notin forgot', NEW m \in Node, touched'[t] = {m}
      PROVE  Sole(t, m)'
  <2>1. m = n
    BY <1>4, <1>7
  <2>2. Unknown(t)
    <3>1. touched[t] = {} \/ touched[t] = {n}
      BY <1>1, <1>4, <1>7, <2>1
    <3>2. touched[t] # {n}
      BY <1>1, <1>3, <1>7 DEF SoleOwner, Sole
    <3> QED
      BY <3>1, <3>2 DEF SoleOwner
  <2>3. \A p \in Node : Older(txns'[p][t], r)
    BY <1>2, <1>3, <1>5, <2>2 DEF Unknown, Older
  <2>4. \A msg \in msgs : Older(msg.txns[t], r)
    BY <2>2 DEF Unknown, Older
  <2> QED
    BY <1>1, <1>2, <1>3, <1>5, <2>1, <2>2, <2>3, <2>4 DEF Sole, Unknown
<1> QED
  BY <1>4, <1>6, <1>7 DEF SoleOwner

(* Records go, or come from a message, and no handler is at work.          *)
Passive ==
  /\ UNCHANGED <<skew, touched, outcomes>>
  /\ now <= now' /\ forgot \subseteq forgot'
  /\ \A n \in Node, t \in Txn :
       \/ txns'[n][t] = txns[n][t]
       \/ txns'[n][t].status = "absent" /\ (txns[n][t].status # "absent" => t \in forgot')
       \/ \E msg \in msgs : txns'[n][t] = MergeTxn(txns[n][t], msg.txns[t])
  /\ \A msg \in msgs' : msg \in msgs \/ \E n \in Node : msg.txns = txns[n]

LEMMA PassiveKeepsOwner ==
  ASSUME Types, SoleOwner, Types', Passive
  PROVE  SoleOwner'
<1> USE DEF Passive
<1>1. now' \in Nat
  BY BoundsAssumption DEF Types, TypeOK
<1>2. ASSUME NEW n \in Node
      PROVE  UnixMilli(n) \in Nat /\ UnixMilli(n)' \in Nat /\ UnixMilli(n) <= UnixMilli(n)'
  BY <1>1, ClockFacts DEF Types
<1>3. /\ txns \in [Node -> [Txn -> Transaction]] /\ txns' \in [Node -> [Txn -> Transaction]]
      /\ \A msg \in msgs : msg.txns \in [Txn -> Transaction]
  BY DEF Types, TypeOK
<1>4. ASSUME NEW t \in Txn, touched'[t] = {}
      PROVE  Unknown(t)'
  <2>1. Unknown(t)
    BY <1>4 DEF SoleOwner
  <2> QED
    BY <2>1 DEF Unknown, MergeTxn
<1>5. ASSUME NEW t \in Txn, t \notin forgot', NEW n \in Node, touched'[t] = {n}
      PROVE  Sole(t, n)'
  <2>1. Sole(t, n)
    BY <1>5 DEF SoleOwner
  <2>2. ASSUME NEW m \in Node, NEW msg \in msgs
        PROVE  Older(MergeTxn(txns[m][t], msg.txns[t]), txns[n][t])
    BY <2>1 DEF Sole, MergeTxn
  <2>3. ASSUME NEW msg \in msgs
        PROVE  MergeTxn(txns[n][t], msg.txns[t]) = txns[n][t]
    <3>1. txns[n][t].updatedAt \in Nat /\ txns[n][t].node = n /\ n \in Nat
          /\ msg.txns[t].updatedAt \in Nat
      BY <1>3, <2>1, NodeAssumption DEF Sole, Transaction
    <3>2. msg.txns[t].status # "absent" =>
            msg.txns[t].node = txns[n][t].node /\ msg.txns[t].updatedAt <= txns[n][t].updatedAt
      BY <2>1 DEF Sole, Older
    <3>3. txns[n][t].status # "absent"
      BY <2>1 DEF Sole
    <3> QED
      BY <3>1, <3>2, <3>3 DEF MergeTxn, txnLess
  <2>4. txns'[n][t] = txns[n][t]
    BY <1>5, <2>1, <2>3 DEF Sole
  <2>5. \A m \in Node : Older(txns'[m][t], txns[n][t])
    BY <2>1, <2>2 DEF Sole, Older
  <2>6. \A msg \in msgs' : Older(msg.txns[t], txns[n][t])
    BY <2>1 DEF Sole
  <2>7. txns[n][t].updatedAt \in Nat /\ txns[n][t].updatedAt <= UnixMilli(n)'
    <3>1. txns[n][t].updatedAt \in Nat /\ txns[n][t].updatedAt <= UnixMilli(n)
      BY <1>3, <2>1 DEF Sole, Transaction
    <3>2. UnixMilli(n) \in Nat /\ UnixMilli(n)' \in Nat /\ UnixMilli(n) <= UnixMilli(n)'
      BY <1>2
    <3> QED
      BY <3>1, <3>2
  <2> QED
    BY <2>1, <2>4, <2>5, <2>6, <2>7 DEF Sole
<1> QED
  BY <1>4, <1>5 DEF SoleOwner

LEMMA OwnerStep == Types /\ SoleOwner /\ [Next]_vars => SoleOwner'
<1> SUFFICES ASSUME Types, SoleOwner, [Next]_vars PROVE SoleOwner'
  OBVIOUS
<1>1. Types' /\ now \in Nat /\ txns \in [Node -> [Txn -> Transaction]] /\ outcomes \in [Txn -> Nat]
  <2>1. MaxTime \in Nat
    BY BoundsAssumption
  <2>2. now \in Nat
    BY <2>1 DEF Types, TypeOK
  <2> QED
    BY <2>2, TypesStep DEF Types, TypeOK
<1>2. ASSUME NEW n \in Node, NEW t \in Txn, NEW k \in Key, AddOperation(n, t, k)
      PROVE  SoleOwner'
  <2> DEFINE ops == Append(txns[n][t].operations, [id |-> calls + 1, key |-> k])
  <2>1. /\ Update(n, t, "pending", ops) /\ txns[n][t].status = "pending"
        /\ UNCHANGED <<now, skew, msgs, forgot, outcomes>> /\ calls < MaxCalls
    BY <1>2 DEF AddOperation, Append1, Call
  <2>2. ops \in Seq(Operation) /\ "pending" \in Status \ {"absent"}
    <3>1. [id |-> calls + 1, key |-> k] \in Operation
      BY <2>1, BoundsAssumption DEF Types, TypeOK, Operation
    <3>2. txns[n][t].operations \in Seq(Operation)
      BY <1>1 DEF Transaction
    <3> QED
      BY <3>1, <3>2, IdsFacts DEF Status
  <2> HIDE DEF ops
  <2>3. Changes(n, t, "pending", ops)
    BY <1>1, <2>1 DEF Changes
  <2> QED
    BY <2>2, <2>3, UpdateKeepsOwner
<1>3. ASSUME NEW n \in Node, NEW t \in Txn, RollbackTransaction(n, t)
      PROVE  SoleOwner'
  <2>1. /\ Update(n, t, "rolled_back", txns[n][t].operations) /\ txns[n][t].status = "pending"
        /\ outcomes' = [outcomes EXCEPT ![t] = @ + 1]
        /\ UNCHANGED <<now, skew, msgs, forgot>>
    BY <1>3 DEF RollbackTransaction
  <2>2. txns[n][t].operations \in Seq(Operation) /\ "rolled_back" \in Status \ {"absent"}
    BY <1>1 DEF Transaction, Status
  <2>3. Changes(n, t, "rolled_back", txns[n][t].operations)
    BY <1>1, <2>1 DEF Changes
  <2> QED
    BY <2>2, <2>3, UpdateKeepsOwner
<1>4. ASSUME NEW c \in Client, Commit(c)
      PROVE  SoleOwner'
  <2>1. PICK n \in Node, t \in Txn : n = client[c].at /\ t = client[c].txn
    BY <1>4, ClientFacts DEF Commit
  <2>2. /\ Update(n, t, "committed", txns[n][t].operations) /\ txns[n][t].status = "pending"
        /\ outcomes' = [outcomes EXCEPT ![t] = @ + 1]
        /\ UNCHANGED <<now, skew, msgs, forgot>>
    BY <1>4, <2>1 DEF Commit, Committed
  <2>3. txns[n][t].operations \in Seq(Operation) /\ "committed" \in Status \ {"absent"}
    BY <1>1 DEF Transaction, Status
  <2>4. Changes(n, t, "committed", txns[n][t].operations)
    BY <1>1, <2>2 DEF Changes
  <2> QED
    BY <2>3, <2>4, UpdateKeepsOwner
<1>5. ASSUME NEW n \in Node, CleanupExpired(n)
      PROVE  Passive
  <2> DEFINE expired == {t \in Known(n) : UnixMilli(n) - txns[n][t].created > Timeout}
  <2>1. /\ txns' = [txns EXCEPT ![n] = [t \in Txn |-> IF t \in expired THEN Absent ELSE @[t]]]
        /\ forgot' = forgot \cup expired
        /\ UNCHANGED <<now, skew, msgs, outcomes, touched>>
    BY <1>5 DEF CleanupExpired
  <2>2. Absent.status = "absent"
    BY DEF Absent
  <2> HIDE DEF expired
  <2>3. ASSUME NEW m \in Node, NEW t \in Txn
        PROVE  txns'[m][t] = txns[m][t] \/ (txns'[m][t].status = "absent" /\ t \in forgot')
    BY <1>1, <2>1, <2>2
  <2> QED
    BY <1>1, <2>1, <2>3 DEF Passive
<1>6. ASSUME NEW n \in Node, Restart(n)
      PROVE  Passive
  <2>1. Kills(n) /\ UNCHANGED <<now, skew, msgs, outcomes, touched>>
    BY <1>6, RestartFacts DEF Restart
  <2>2. Absent.status = "absent"
    BY DEF Absent
  <2>3. ASSUME NEW m \in Node, NEW t \in Txn
        PROVE  \/ txns'[m][t] = txns[m][t]
               \/ txns'[m][t].status = "absent" /\ (txns[m][t].status # "absent" => t \in forgot')
    BY <2>1, <2>2 DEF Kills, Known
  <2> QED
    BY <1>1, <2>1, <2>3 DEF Passive, Kills
<1>7. ASSUME NEW m \in Node, NEW n \in Node, Send(m, n)
      PROVE  Passive
  <2> DEFINE msg == [from |-> m, to |-> n, txns |-> txns[m], cache |-> cache[m]]
  <2>1. msgs' = msgs \cup {msg} /\ UNCHANGED <<now, skew, txns, outcomes, touched, forgot>>
    BY <1>7 DEF Send, Copy, history
  <2>2. msg.txns = txns[m]
    OBVIOUS
  <2> HIDE DEF msg
  <2> QED
    BY <1>1, <2>1, <2>2 DEF Passive
<1>8. ASSUME NEW m \in Node, NEW n \in Node, Deliver(m, n)
      PROVE  Passive
  <2>1. PICK msg \in msgs :
          /\ msgs' = msgs \ {msg} /\ MergeState(n, msg)
          /\ UNCHANGED <<now, skew, outcomes, touched, forgot>>
    BY <1>8 DEF Deliver
  <2>2. msg \in Message
    BY DEF Types, TypeOK, Message
  <2>3. \A t \in Txn : txns'[n][t] = MergeTxn(txns[n][t], msg.txns[t])
    BY <2>1, <2>2, MergeFacts
  <2>4. \A p \in Node : p # n => txns'[p] = txns[p]
    BY <2>1, <2>2, MergeFacts
  <2> QED
    BY <1>1, <2>1, <2>3, <2>4 DEF Passive
<1>9. ASSUME \/ Tick
             \/ \E c \in Client : CommitRefused(c) \/ LockStore(c) \/ ApplyWrite(c)
             \/ \E c \in Client, n \in Node, t \in Txn : ReadOperations(c, n, t)
             \/ UNCHANGED vars
      PROVE  Passive
  <2>1. UNCHANGED <<skew, txns, msgs, outcomes, touched, forgot>> /\ (now' = now \/ now' = now + 1)
    BY <1>9 DEF Tick, CommitRefused, LockStore, ApplyWrite, Write, ReadOperations, vars, history
  <2> QED
    BY <1>1, <2>1 DEF Passive
<1> QED
  BY <1>1, <1>2, <1>3, <1>4, <1>5, <1>6, <1>7, <1>8, <1>9, BeginKeepsOwner, PassiveKeepsOwner DEF Next

----------------------------------------------------------------------------
(* The operations that need no more than the callers at work.              *)
Done ==
  {d \in 1 .. MaxCalls :
     \/ \E i \in DOMAIN applies : d \in applies[i].ops
     \/ \E c \in Client : client[c].pc \in {"lock", "apply"} /\ d \in Ids(client[c].ops)
     \/ d \in raced
     \/ d \in cut}

Covered(r) == r.status = "committed" => Ids(r.operations) \subseteq Done

(* What is committed is accounted for, and what a caller is about to       *)
(* commit will be: it has read it, or it was added since.                  *)
Accounted ==
  /\ \A n \in Node, t \in Txn : Covered(txns[n][t])
  /\ \A msg \in msgs, t \in Txn : Covered(msg.txns[t])
  /\ \A c \in Client : client[c].pc = "commit" =>
       Ids(txns[client[c].at][client[c].txn].operations) \subseteq Ids(client[c].ops) \cup raced

LEMMA EmptyIds == Ids(<<>>) = {}
BY EmptySeq, LenProperties DEF Ids

(* What is accounted for stays so.                                         *)
LEMMA DoneGrows ==
  ASSUME Types, [Next]_vars
  PROVE  Done \subseteq Done'
<1>1. ASSUME NEW c \in Client, NEW n \in Node, NEW t \in Txn, ReadOperations(c, n, t)
      PROVE  Done \subseteq Done'
  <2>1. client[c].pc = "idle" /\ UNCHANGED <<applies, raced, cut>>
        /\ \A d \in Client : d # c => client'[d] = client[d]
    BY <1>1 DEF ReadOperations, history, Idle, Types, TypeOK
  <2> QED
    BY <2>1 DEF Done
<1>2. ASSUME NEW c \in Client, CommitRefused(c) \/ Commit(c)
      PROVE  Done \subseteq Done'
  <2>1. client[c].pc = "commit" /\ UNCHANGED <<applies, raced, cut>>
        /\ \A d \in Client : d # c => client'[d] = client[d]
    BY <1>2 DEF CommitRefused, Commit, Committed, history, Types, TypeOK
  <2> QED
    BY <2>1 DEF Done
<1>3. ASSUME NEW c \in Client, LockStore(c)
      PROVE  Done \subseteq Done'
  <2>1. /\ UNCHANGED <<raced, cut>> /\ client'[c].ops = client[c].ops
        /\ client[c].ops # <<>> => client'[c].pc = "apply"
    BY <1>3, LockFacts DEF LockStore
  <2>2. \A d \in Client : d # c => client'[d] = client[d]
    BY <1>3 DEF LockStore, Types, TypeOK
  <2>3. \A i \in DOMAIN applies : i \in DOMAIN applies' /\ applies'[i] = applies[i]
    <3>1. applies \in Seq(Application) /\ Started \in Application
          /\ (applies' = applies \/ applies' = Append(applies, Started))
      BY <1>3, LockFacts, ClientFacts
    <3> QED
      BY <3>1, AppendProperties, LenProperties
  <2> QED
    BY <2>1, <2>2, <2>3, EmptyIds DEF Done
<1>4. ASSUME NEW c \in Client, ApplyWrite(c)
      PROVE  Done \subseteq Done'
  <2>1. PICK n \in Node, i \in 1 .. Len(applies), o \in Operation, e \in Entry : Writes(c, n, i, o, e)
    BY <1>4, WriteFacts
  <2>2. UNCHANGED <<raced, cut>>
    BY <1>4 DEF ApplyWrite, Write
  <2>3. PICK r \in ClientState :
          /\ client' = [client EXCEPT ![c] = r]
          /\ (Tail(client[c].ops) = <<>>) \/ (r.pc = "apply" /\ r.ops = Tail(client[c].ops))
    BY <2>1 DEF Writes
  <2>4. client'[c] = r /\ \A d \in Client : d # c => client'[d] = client[d]
    BY <2>3 DEF Types, TypeOK
  <2>5. DOMAIN applies = 1 .. Len(applies) /\ DOMAIN applies' = 1 .. Len(applies)
    BY <2>1, LenProperties DEF Writes, Types, TypeOK
  <2>6. \A j \in DOMAIN applies : j \in DOMAIN applies' /\ applies[j].ops \subseteq applies'[j].ops
    BY <2>1, <2>5 DEF Writes
  <2>7. i \in DOMAIN applies' /\ o.id \in applies'[i].ops
    BY <2>1, <2>5 DEF Writes
  <2>8. \A d \in Ids(client[c].ops) :
          d = o.id \/ (client'[c].pc = "apply" /\ d \in Ids(client'[c].ops))
    BY <2>1, <2>3, <2>4, EmptyIds DEF Writes
  <2> QED
    BY <2>2, <2>4, <2>6, <2>7, <2>8 DEF Done
<1>5. ASSUME NEW n \in Node, Restart(n)
      PROVE  Done \subseteq Done'
  <2>1. Kills(n) /\ UNCHANGED raced
    BY <1>5, RestartFacts DEF Restart
  <2>2. DOMAIN applies = 1 .. Len(applies) /\ DOMAIN applies' = 1 .. Len(applies)
    BY <2>1, LenProperties DEF Kills, Types, TypeOK
  <2> QED
    BY <2>1, <2>2 DEF Kills, Done
<1>6. ASSUME \/ Tick
             \/ \E n \in Node, t \in Txn :
                  \/ BeginTransaction(n, t) \/ RollbackTransaction(n, t)
                  \/ \E k \in Key : AddOperation(n, t, k)
             \/ \E n \in Node : CleanupExpired(n)
             \/ \E m, n \in Node : Send(m, n) \/ Deliver(m, n)
             \/ UNCHANGED vars
      PROVE  Done \subseteq Done'
  <2>1. ASSUME \/ Tick \/ (\E n \in Node : CleanupExpired(n))
               \/ (\E m, n \in Node : Send(m, n) \/ Deliver(m, n)) \/ UNCHANGED vars
        PROVE  UNCHANGED <<client, applies, cut>> /\ raced \subseteq raced'
    BY <2>1 DEF Tick, CleanupExpired, Send, Copy, Deliver, MergeState, vars, history
  <2>2. ASSUME NEW n \in Node, NEW t \in Txn,
               \/ BeginTransaction(n, t) \/ RollbackTransaction(n, t)
               \/ \E k \in Key : AddOperation(n, t, k)
        PROVE  UNCHANGED <<client, applies, cut>> /\ raced \subseteq raced'
    BY <2>2 DEF BeginTransaction, RollbackTransaction, AddOperation, Append1, history
  <2>3. UNCHANGED <<client, applies, cut>> /\ raced \subseteq raced'
    BY <1>6, <2>1, <2>2
  <2> QED
    BY <2>3 DEF Done
<1> QED
  BY <1>1, <1>2, <1>3, <1>4, <1>5, <1>6 DEF Next

(* Records that are committed are not made but by a commit.                *)
NoCommit ==
  /\ \A n \in Node, t \in Txn :
       \/ txns'[n][t].status # "committed"
       \/ txns'[n][t] = txns[n][t]
       \/ \E msg \in msgs : txns'[n][t] = msg.txns[t]
  /\ \A msg \in msgs' : msg \in msgs \/ \E n \in Node : msg.txns = txns[n]

LEMMA CoverageKept ==
  ASSUME Types, Accounted, [Next]_vars, NoCommit
  PROVE  /\ \A n \in Node, t \in Txn : Covered(txns[n][t])'
         /\ \A msg \in msgs', t \in Txn : Covered(msg.txns[t])'
<1>1. Done \subseteq Done'
  BY DoneGrows
<1>2. \A n \in Node, t \in Txn : Covered(txns[n][t])'
  BY <1>1 DEF NoCommit, Accounted, Covered
<1>3. ASSUME NEW msg \in msgs', NEW t \in Txn
      PROVE  (msg.txns[t].status = "committed" => Ids(msg.txns[t].operations) \subseteq Done')
  BY <1>1 DEF NoCommit, Accounted, Covered
<1> QED
  BY <1>2, <1>3 DEF Covered

(* What is true of the callers between their two first steps.              *)
Reads(c) ==
  client[c].pc = "commit" =>
    Ids(txns[client[c].at][client[c].txn].operations) \subseteq Ids(client[c].ops) \cup raced

(* A step that leaves the callers alone and raises no question of theirs.  *)
LEMMA ReadsKept ==
  ASSUME Types, Accounted, UNCHANGED client, raced \subseteq raced',
         \A c \in Client, n \in Node, t \in Txn :
           client[c].pc = "commit" /\ client[c].at = n /\ client[c].txn = t =>
             Ids(txns'[n][t].operations) \subseteq Ids(txns[n][t].operations) \cup raced'
  PROVE  \A c \in Client : Reads(c)'
<1> SUFFICES ASSUME NEW c \in Client, client[c].pc = "commit"
             PROVE  Ids(txns'[client[c].at][client[c].txn].operations)
                      \subseteq Ids(client[c].ops) \cup raced'
  BY DEF Reads
<1>1. client[c].at \in Node /\ client[c].txn \in Txn
  BY ClientFacts
<1>2. Ids(txns[client[c].at][client[c].txn].operations) \subseteq Ids(client[c].ops) \cup raced
  BY DEF Accounted
<1> QED
  BY <1>1, <1>2

LEMMA AccountedStep == Types /\ Accounted /\ [Next]_vars => Accounted'
<1> SUFFICES ASSUME Types, Accounted, [Next]_vars PROVE Accounted'
  OBVIOUS
<1>1. txns \in [Node -> [Txn -> Transaction]] /\ client \in [Client -> ClientState]
      /\ \A c \in Client : client[c].pc = "commit" => client[c].at \in Node /\ client[c].txn \in Txn
  BY ClientFacts DEF Types, TypeOK
<1>2. ASSUME NEW n \in Node, NEW t \in Txn, BeginTransaction(n, t)
      PROVE  NoCommit /\ \A c \in Client : Reads(c)'
  <2> DEFINE r == [status |-> "pending", operations |-> <<>>, created |-> UnixMilli(n),
                   updatedAt |-> UnixMilli(n), node |-> n]
  <2>1. txns' = [txns EXCEPT ![n][t] = r] /\ UNCHANGED <<client, msgs, raced>>
    BY <1>2 DEF BeginTransaction
  <2>2. r.status = "pending" /\ r.operations = <<>>
    OBVIOUS
  <2> HIDE DEF r
  <2>3. \A m \in Node, u \in Txn : txns'[m][u] = txns[m][u] \/ txns'[m][u] = r
    BY <1>1, <2>1
  <2>4. NoCommit
    BY <2>1, <2>2, <2>3 DEF NoCommit
  <2>5. \A m \in Node, u \in Txn :
          Ids(txns'[m][u].operations) \subseteq Ids(txns[m][u].operations) \cup raced'
    BY <2>2, <2>3, EmptyIds
  <2> QED
    BY <2>1, <2>4, <2>5, ReadsKept
<1>3. ASSUME NEW n \in Node, NEW t \in Txn, NEW k \in Key, AddOperation(n, t, k)
      PROVE  NoCommit /\ \A c \in Client : Reads(c)'
  <2> DEFINE o == [id |-> calls + 1, key |-> k]
  <2>1. /\ Update(n, t, "pending", Append(txns[n][t].operations, o))
        /\ raced' = IF Committing(n, t) THEN raced \cup {calls + 1} ELSE raced
        /\ UNCHANGED <<client, msgs>> /\ calls < MaxCalls
    BY <1>3 DEF AddOperation, Append1, Call
  <2>2. o \in Operation /\ o.id = calls + 1
    BY <2>1, BoundsAssumption DEF Types, TypeOK, Operation
  <2>3. txns[n][t].operations \in Seq(Operation) /\ "pending" \in Status
    BY <1>1 DEF Transaction, Status
  <2> HIDE DEF o
  <2>4. Append(txns[n][t].operations, o) \in Seq(Operation)
        /\ Ids(Append(txns[n][t].operations, o)) = Ids(txns[n][t].operations) \cup {calls + 1}
    BY <2>2, <2>3, IdsFacts
  <2>5. /\ txns'[n][t].status = "pending" /\ txns'[n][t].operations = Append(txns[n][t].operations, o)
        /\ \A m \in Node, u \in Txn : m # n \/ u # t => txns'[m][u] = txns[m][u]
    <3> DEFINE ops == Append(txns[n][t].operations, o)
    <3>1. ops \in Seq(Operation) /\ Update(n, t, "pending", ops) /\ "pending" \in Status
      BY <2>1, <2>3, <2>4
    <3> HIDE DEF ops
    <3>2. /\ txns'[n][t].status = "pending" /\ txns'[n][t].operations = ops
          /\ \A m \in Node, u \in Txn : m # n \/ u # t => txns'[m][u] = txns[m][u]
      BY <3>1, UpdateTypes
    <3> QED
      BY <3>2 DEF ops
  <2>6. NoCommit
    BY <2>1, <2>5 DEF NoCommit
  <2>7. ASSUME NEW c \in Client, NEW m \in Node, NEW u \in Txn,
               client[c].pc = "commit", client[c].at = m, client[c].txn = u
        PROVE  Ids(txns'[m][u].operations) \subseteq Ids(txns[m][u].operations) \cup raced'
    <3>1. CASE m = n /\ u = t
      <4>1. raced' = raced \cup {calls + 1}
        BY <2>1, <2>7, <3>1 DEF Committing
      <4> QED
        BY <2>4, <2>5, <3>1, <4>1
    <3> QED
      BY <2>5, <3>1
  <2> QED
    BY <2>1, <2>6, <2>7, ReadsKept
<1>4. ASSUME NEW n \in Node, NEW t \in Txn, RollbackTransaction(n, t)
      PROVE  NoCommit /\ \A c \in Client : Reads(c)'
  <2>1. /\ Update(n, t, "rolled_back", txns[n][t].operations)
        /\ UNCHANGED <<client, msgs, raced>>
    BY <1>4 DEF RollbackTransaction
  <2>2. txns[n][t].operations \in Seq(Operation) /\ "rolled_back" \in Status
    BY <1>1 DEF Transaction, Status
  <2>3. /\ txns'[n][t].status = "rolled_back" /\ txns'[n][t].operations = txns[n][t].operations
        /\ \A m \in Node, u \in Txn : m # n \/ u # t => txns'[m][u] = txns[m][u]
    BY <2>1, <2>2, UpdateTypes
  <2>4. NoCommit
    BY <2>1, <2>3 DEF NoCommit
  <2>5. \A m \in Node, u \in Txn : Ids(txns'[m][u].operations) = Ids(txns[m][u].operations)
    BY <2>3
  <2> QED
    BY <2>1, <2>4, <2>5, ReadsKept
<1>5. ASSUME NEW n \in Node, CleanupExpired(n)
      PROVE  NoCommit /\ \A c \in Client : Reads(c)'
  <2> DEFINE expired == {t \in Known(n) : UnixMilli(n) - txns[n][t].created > Timeout}
  <2>1. /\ txns' = [txns EXCEPT ![n] = [t \in Txn |-> IF t \in expired THEN Absent ELSE @[t]]]
        /\ UNCHANGED <<client, msgs, raced>>
    BY <1>5 DEF CleanupExpired
  <2>2. Absent.status = "absent" /\ Absent.operations = <<>>
    BY DEF Absent
  <2> HIDE DEF expired
  <2>3. \A m \in Node, t \in Txn : txns'[m][t] = txns[m][t] \/ txns'[m][t] = Absent
    BY <1>1, <2>1
  <2>4. NoCommit
    BY <2>1, <2>2, <2>3 DEF NoCommit
  <2>5. \A m \in Node, u \in Txn :
          Ids(txns'[m][u].operations) \subseteq Ids(txns[m][u].operations) \cup raced'
    BY <2>2, <2>3, EmptyIds
  <2> QED
    BY <2>1, <2>4, <2>5, ReadsKept
<1>6. ASSUME NEW c \in Client, NEW n \in Node, NEW t \in Txn, ReadOperations(c, n, t)
      PROVE  NoCommit /\ \A d \in Client : Reads(d)'
  <2>1. /\ client' = [client EXCEPT ![c] = [pc |-> "commit", at |-> n, txn |-> t,
                                           ops |-> txns[n][t].operations, apply |-> 0]]
        /\ UNCHANGED <<txns, msgs, raced>>
    BY <1>6 DEF ReadOperations, history
  <2>2. /\ client'[c].at = n /\ client'[c].txn = t /\ client'[c].ops = txns[n][t].operations
        /\ \A d \in Client : d # c => client'[d] = client[d]
    BY <1>1, <2>1
  <2> QED
    BY <2>1, <2>2 DEF NoCommit, Reads, Accounted
<1>7. ASSUME NEW c \in Client, CommitRefused(c)
      PROVE  NoCommit /\ \A d \in Client : Reads(d)'
  <2>1. /\ client'[c] = Idle /\ UNCHANGED <<txns, msgs, raced>>
        /\ \A d \in Client : d # c => client'[d] = client[d]
    BY <1>1, <1>7 DEF CommitRefused, history
  <2> QED
    BY <2>1 DEF NoCommit, Reads, Accounted, Idle
<1>8. ASSUME NEW c \in Client, LockStore(c) \/ ApplyWrite(c)
      PROVE  NoCommit /\ \A d \in Client : Reads(d)'
  <2>1. UNCHANGED <<txns, msgs, raced>>
    BY <1>8 DEF LockStore, ApplyWrite, Write
  <2>2. client'[c].pc # "commit" /\ \A d \in Client : d # c => client'[d] = client[d]
    <3>1. CASE LockStore(c)
      BY <1>1, <3>1, LockFacts DEF Idle
    <3>2. CASE ApplyWrite(c)
      <4>1. PICK r \in ClientState : client' = [client EXCEPT ![c] = r] /\ (r = Idle \/ r.pc = "apply")
        BY <3>2, WriteFacts DEF Writes
      <4> QED
        BY <1>1, <4>1 DEF Idle
    <3> QED
      BY <1>8, <3>1, <3>2
  <2> QED
    BY <2>1, <2>2 DEF NoCommit, Reads, Accounted
<1>9. ASSUME NEW m \in Node, NEW n \in Node, Send(m, n)
      PROVE  NoCommit /\ \A c \in Client : Reads(c)'
  <2> DEFINE msg == [from |-> m, to |-> n, txns |-> txns[m], cache |-> cache[m]]
  <2>1. msgs' = msgs \cup {msg} /\ UNCHANGED <<txns, client, raced>>
    BY <1>9 DEF Send, Copy, history
  <2>2. msg.txns = txns[m]
    OBVIOUS
  <2> HIDE DEF msg
  <2> QED
    BY <2>1, <2>2 DEF NoCommit, Reads, Accounted
<1>10. ASSUME NEW m \in Node, NEW n \in Node, Deliver(m, n)
       PROVE  NoCommit /\ \A c \in Client : Reads(c)'
  <2>1. PICK msg \in msgs : msgs' = msgs \ {msg} /\ MergeState(n, msg) /\ UNCHANGED client
    BY <1>10 DEF Deliver
  <2>2. msg \in Message
    BY DEF Types, TypeOK, Message
  <2>3. /\ \A t \in Txn : txns'[n][t] = MergeTxn(txns[n][t], msg.txns[t])
        /\ \A p \in Node : p # n => txns'[p] = txns[p]
        /\ raced \subseteq raced'
        /\ \A t \in Txn : Committing(n, t) =>
              Ids(txns'[n][t].operations) \ Ids(txns[n][t].operations) \subseteq raced'
    BY <2>1, <2>2, MergeFacts
  <2>4. \A p \in Node, t \in Txn : txns'[p][t] = txns[p][t] \/ txns'[p][t] = msg.txns[t]
    BY <2>3 DEF MergeTxn
  <2>5. NoCommit
    BY <2>1, <2>4 DEF NoCommit
  <2>6. ASSUME NEW c \in Client, NEW p \in Node, NEW u \in Txn,
               client[c].pc = "commit", client[c].at = p, client[c].txn = u
        PROVE  Ids(txns'[p][u].operations) \subseteq Ids(txns[p][u].operations) \cup raced'
    <3>1. CASE p = n
      <4>1. Committing(n, u)
        BY <2>6, <3>1 DEF Committing
      <4> QED
        BY <2>3, <3>1, <4>1
    <3> QED
      BY <2>3, <3>1
  <2> QED
    BY <2>1, <2>3, <2>5, <2>6, ReadsKept
<1>11. ASSUME NEW n \in Node, Restart(n)
       PROVE  NoCommit /\ \A c \in Client : Reads(c)'
  <2>1. Kills(n) /\ UNCHANGED <<msgs, raced>>
    BY <1>11, RestartFacts DEF Restart
  <2>2. NoCommit
    BY <2>1 DEF NoCommit, Kills, Absent
  <2>3. ASSUME NEW c \in Client PROVE Reads(c)'
    <3>1. CASE client[c].at = n
      BY <2>1, <3>1 DEF Kills, Reads, Idle
    <3>2. CASE client[c].at # n
      <4>1. client'[c] = client[c] /\ raced' = raced
        BY <2>1, <3>2 DEF Kills
      <4>2. client[c].pc = "commit" => txns'[client[c].at] = txns[client[c].at]
        BY <1>1, <2>1, <3>2 DEF Kills
      <4> QED
        BY <4>1, <4>2 DEF Reads, Accounted
    <3> QED
      BY <3>1, <3>2
  <2> QED
    BY <2>2, <2>3
<1>12. ASSUME Tick \/ UNCHANGED vars
       PROVE  NoCommit /\ \A c \in Client : Reads(c)'
  <2>1. UNCHANGED <<txns, client, msgs, raced>>
    BY <1>12 DEF Tick, vars, history
  <2> QED
    BY <2>1 DEF NoCommit, Reads, Accounted
<1>13. ASSUME NoCommit, \A c \in Client : Reads(c)'
       PROVE  Accounted'
  BY <1>13, CoverageKept DEF Accounted, Reads
<1>14. ASSUME NEW c \in Client, Commit(c)
       PROVE  Accounted'
  <2>1. PICK n \in Node, t \in Txn : n = client[c].at /\ t = client[c].txn
    BY <1>14, ClientFacts DEF Commit
  <2>2. /\ Update(n, t, "committed", txns[n][t].operations)
        /\ client[c].pc = "commit" /\ client' = [client EXCEPT ![c].pc = "lock"]
        /\ UNCHANGED <<msgs, raced>>
    BY <1>14, <2>1 DEF Commit, Committed
  <2>3. txns[n][t].operations \in Seq(Operation) /\ "committed" \in Status
    BY <1>1 DEF Transaction, Status
  <2>4. /\ txns'[n][t].operations = txns[n][t].operations
        /\ \A m \in Node, u \in Txn : m # n \/ u # t => txns'[m][u] = txns[m][u]
    BY <2>2, <2>3, UpdateTypes
  <2>5. /\ client'[c].pc = "lock" /\ client'[c].ops = client[c].ops
        /\ \A d \in Client : d # c => client'[d] = client[d]
    BY <1>1, <2>2 DEF ClientState
  <2>6. Done \subseteq Done'
    BY DoneGrows
  <2>7. Ids(txns[n][t].operations) \subseteq Done'
    <3>1. Ids(txns[n][t].operations) \subseteq Ids(client[c].ops) \cup raced
      BY <2>1, <2>2 DEF Accounted
    <3>2. Ids(txns[n][t].operations) \subseteq 1 .. MaxCalls
      BY <2>3, IdsFacts
    <3> QED
      BY <2>2, <2>5, <3>1, <3>2 DEF Done
  <2>8. \A m \in Node, u \in Txn : Covered(txns[m][u])'
    BY <2>4, <2>6, <2>7 DEF Covered, Accounted
  <2>9. \A msg \in msgs', u \in Txn : Covered(msg.txns[u])'
    BY <2>2, <2>6 DEF Covered, Accounted
  <2>10. \A d \in Client : Reads(d)'
    <3>1. \A m \in Node, u \in Txn : txns'[m][u].operations = txns[m][u].operations
      BY <2>4
    <3> QED
      BY <1>1, <2>2, <2>5, <3>1 DEF Reads, Accounted
  <2> QED
    BY <2>8, <2>9, <2>10 DEF Accounted, Reads
<1> QED
  BY <1>2, <1>3, <1>4, <1>5, <1>6, <1>7, <1>8, <1>9, <1>10, <1>11, <1>12, <1>13, <1>14 DEF Next

----------------------------------------------------------------------------
(* One caller at a time applies at a node, and each an application of its  *)
(* own.                                                                    *)
Separate ==
  \A c, d \in Client :
    /\ client[c].pc = "apply" /\ client[d].pc = "apply"
    /\ client[c].at = client[d].at \/ client[c].apply = client[d].apply
    => c = d

(* What is applied so far is in the cache of that node and nowhere else.   *)
Begun(c) ==
  /\ \A m \in Node, k \in Key : cache[m][k].apply = client[c].apply => m = client[c].at
  /\ \A msg \in msgs, k \in Key : msg.cache[k].apply # client[c].apply
  /\ \A k \in Key : applies[client[c].apply].writes[k] # NoEntry =>
       cache[client[c].at][k] = applies[client[c].apply].writes[k]

(* AllOrNothing of one view, given the applications and the lowered keys.  *)
WholeIn(view, as, low) ==
  /\ \A k \in Key : view[k].apply \in 0 .. Len(as)
  /\ \A k \in Key, other \in Key \ low :
       LET i == view[k].apply
       IN  i # 0 /\ ~as[i].torn /\ as[i].writes[other] # NoEntry =>
             ~cacheEntryLess(view[other], as[i].writes[other])

Whole ==
  /\ Separate
  /\ \A c \in Client : client[c].pc = "apply" => Begun(c)
  /\ \A n \in Node : WholeIn(cache[n], applies, lowered)
  /\ \A msg \in msgs : WholeIn(msg.cache, applies, lowered)

(* cacheEntryLess orders entries by version.                               *)
LEMMA OrderFacts ==
  /\ \A a \in Entry : ~cacheEntryLess(a, a)
  /\ \A a, b, c \in Entry : ~cacheEntryLess(a, b) /\ ~cacheEntryLess(b, c) => ~cacheEntryLess(a, c)
  /\ \A a, b \in Entry : cacheEntryLess(a, b) => ~cacheEntryLess(b, a)
<1>1. \A a \in Entry : a.ts \in Nat /\ a.node \in Node \cup {0}
  BY DEF Entry
<1>2. Node \cup {0} \subseteq Nat
  BY NodeAssumption
<1>3. \A a \in Entry : a.ts \in Nat /\ a.node \in Nat
  BY <1>1, <1>2
<1> QED
  BY <1>3 DEF cacheEntryLess

LEMMA Sized ==
  ASSUME Types
  PROVE  /\ cache \in [Node -> [Key -> Entry]]
         /\ \A msg \in msgs : msg \in Message /\ msg.cache \in [Key -> Entry]
         /\ Len(applies) \in Nat /\ applies \in Seq(Application)
         /\ \A i \in 1 .. Len(applies) :
              applies[i] \in Application /\ applies[i].writes \in [Key -> Entry]
         /\ \A c \in Client : client[c].pc = "apply" =>
              client[c].at \in Node /\ client[c].apply \in 1 .. Len(applies)
<1>1. applies \in Seq(Application) /\ cache \in [Node -> [Key -> Entry]] /\ msgs \subseteq Message
  BY DEF Types, TypeOK, Application, Message
<1>2. Len(applies) \in Nat /\ \A i \in 1 .. Len(applies) : applies[i] \in Application
  BY <1>1, LenProperties, ElementOfSeq
<1> QED
  BY <1>1, <1>2 DEF Types, Busy, Message, Application

(* The applications a view shows stay what they were.                      *)
Follows(view, as, low, bs, lower) ==
  /\ Len(as) \in Nat /\ Len(bs) \in Nat /\ Len(as) <= Len(bs) /\ low \subseteq lower
  /\ \A k \in Key : view[k].apply # 0 =>
       /\ bs[view[k].apply].writes = as[view[k].apply].writes
       /\ as[view[k].apply].torn => bs[view[k].apply].torn

LEMMA ViewKept ==
  ASSUME NEW view, NEW as, NEW low, NEW bs, NEW lower,
         WholeIn(view, as, low), Follows(view, as, low, bs, lower)
  PROVE  WholeIn(view, bs, lower)
<1>1. \A k \in Key : view[k].apply \in 0 .. Len(bs)
  <2>1. \A i, p, q : i \in 0 .. p /\ p \in Nat /\ q \in Nat /\ p <= q => i \in 0 .. q
    OBVIOUS
  <2> QED
    BY <2>1 DEF WholeIn, Follows
<1>2. ASSUME NEW k \in Key, NEW other \in Key \ lower, NEW i, i = view[k].apply,
             i # 0, ~bs[i].torn, bs[i].writes[other] # NoEntry
      PROVE  ~cacheEntryLess(view[other], bs[i].writes[other])
  <2>1. bs[i].writes = as[i].writes /\ ~as[i].torn /\ other \in Key \ low
    BY <1>2 DEF Follows
  <2> QED
    BY <1>2, <2>1 DEF WholeIn
<1> QED
  BY <1>1, <1>2 DEF WholeIn

(* A merge takes the newer of two entries.                                 *)
Newer(u, v, w) == \A k \in Key : w[k] = IF cacheEntryLess(u[k], v[k]) THEN v[k] ELSE u[k]

LEMMA MergedIsWhole ==
  ASSUME NEW as \in Seq(Application), NEW low,
         NEW u \in [Key -> Entry], NEW v \in [Key -> Entry], NEW w \in [Key -> Entry],
         WholeIn(u, as, low), WholeIn(v, as, low), Newer(u, v, w)
  PROVE  WholeIn(w, as, low)
<1>1. \A k \in Key : ~cacheEntryLess(w[k], u[k]) /\ ~cacheEntryLess(w[k], v[k])
  BY OrderFacts DEF Newer
<1>2. \A k \in Key : w[k] = u[k] \/ w[k] = v[k]
  BY DEF Newer
<1>3. ASSUME NEW k \in Key, NEW other \in Key \ low, NEW i, i = w[k].apply,
             i # 0, ~as[i].torn, as[i].writes[other] # NoEntry
      PROVE  ~cacheEntryLess(w[other], as[i].writes[other])
  <2>1. i \in 1 .. Len(as)
    <3>1. i \in 0 .. Len(as)
      BY <1>2, <1>3 DEF WholeIn
    <3>2. Len(as) \in Nat
      BY LenProperties
    <3>3. \A j, p : j \in 0 .. p /\ p \in Nat /\ j # 0 => j \in 1 .. p
      OBVIOUS
    <3> QED
      BY <1>3, <3>1, <3>2, <3>3
  <2>2. as[i].writes[other] \in Entry
    <3>1. as[i] \in Application
      BY <2>1, ElementOfSeq
    <3> QED
      BY <1>3, <3>1 DEF Application
  <2>3. ~cacheEntryLess(u[other], as[i].writes[other]) \/ ~cacheEntryLess(v[other], as[i].writes[other])
    BY <1>2, <1>3 DEF WholeIn
  <2> QED
    BY <1>1, <2>2, <2>3, OrderFacts
<1> QED
  BY <1>2, <1>3 DEF WholeIn

(* Steps of the callers that apply nothing.                                *)
Calm ==
  /\ UNCHANGED <<cache, msgs, applies, lowered>>
  /\ \A c \in Client : client'[c].pc = "apply" => client'[c] = client[c]

LEMMA CalmKeepsWhole ==
  ASSUME Whole, Calm
  PROVE  Whole'
<1>1. Separate'
  BY DEF Whole, Calm, Separate
<1>2. ASSUME NEW c \in Client, client'[c].pc = "apply" PROVE Begun(c)'
  <2>1. Begun(c) /\ client'[c] = client[c]
    BY <1>2 DEF Calm, Whole
  <2> QED
    BY <2>1 DEF Begun, Calm
<1> QED
  BY <1>1, <1>2 DEF Whole, Calm

(* The caller that takes the store's lock: its application is in no view.  *)
LEMMA LockKeepsWhole ==
  ASSUME Types, Whole, NEW c \in Client, LockStore(c)
  PROVE  Whole'
<1>1. UNCHANGED <<cache, msgs, lowered>> /\ ~StoreLocked(client[c].at) /\ client[c].at \in Node
  BY LockFacts DEF LockStore
<1>2. client \in [Client -> ClientState]
  BY DEF Types, TypeOK
<1>3. CASE client[c].ops = <<>>
  <2>1. Calm
    BY <1>1, <1>2, <1>3, LockFacts DEF Calm, Idle
  <2> QED
    BY <2>1, CalmKeepsWhole
<1>4. CASE client[c].ops # <<>>
  <2> DEFINE i == Len(applies) + 1
  <2>1. /\ client'[c].pc = "apply" /\ client'[c].at = client[c].at /\ client'[c].apply = i
        /\ \A d \in Client : d # c => client'[d] = client[d]
    BY <1>2, <1>4, LockFacts
  <2>2. /\ applies' = Append(applies, Started) /\ Started \in Application
    BY <1>4, LockFacts
  <2>3. /\ Len(applies') = i /\ applies'[i] = Started
        /\ \A j \in 1 .. Len(applies) : applies'[j] = applies[j]
    BY <2>2, Sized, AppendProperties
  <2>4. Separate'
    BY <1>1, <2>1, Sized DEF Separate, Whole, StoreLocked
  <2>5. Begun(c)'
    <3>1. \A m \in Node, k \in Key : cache[m][k].apply # i
      BY Sized DEF Whole, WholeIn
    <3>2. \A msg \in msgs, k \in Key : msg.cache[k].apply # i
      BY Sized DEF Whole, WholeIn
    <3>3. \A k \in Key : applies'[i].writes[k] = NoEntry
      BY <2>3 DEF Started
    <3> QED
      BY <1>1, <2>1, <3>1, <3>2, <3>3 DEF Begun
  <2>6. ASSUME NEW d \in Client, d # c, client'[d].pc = "apply" PROVE Begun(d)'
    <3>1. client'[d] = client[d] /\ Begun(d) /\ applies'[client[d].apply] = applies[client[d].apply]
      BY <2>1, <2>3, <2>6, Sized DEF Whole
    <3> QED
      BY <1>1, <3>1 DEF Begun
  <2>7. ASSUME NEW view, WholeIn(view, applies, lowered) PROVE WholeIn(view, applies', lowered')
    <3>1. Follows(view, applies, lowered, applies', lowered')
      BY <1>1, <2>3, <2>7, Sized DEF Follows, WholeIn
    <3> QED
      BY <2>7, <3>1, ViewKept
  <2> HIDE DEF i
  <2> QED
    BY <1>1, <2>4, <2>5, <2>6, <2>7 DEF Whole
<1> QED
  BY <1>3, <1>4

(* The caller that applies a write: no other view has its application, and *)
(* its own node's has all that was applied of it.                          *)
LEMMA WriteKeepsWhole ==
  ASSUME Types, Whole, NEW c \in Client, ApplyWrite(c)
  PROVE  Whole'
<1>1. PICK n \in Node, i \in 1 .. Len(applies), o \in Operation, e \in Entry : Writes(c, n, i, o, e)
  BY WriteFacts
<1>2. UNCHANGED msgs /\ o.key \in Key
  BY DEF ApplyWrite, Write, Operation
<1>3. /\ client[c].pc = "apply" /\ client[c].at = n /\ client[c].apply = i /\ Begun(c)
      /\ client'[c].pc = "apply" => client'[c].at = n /\ client'[c].apply = i
      /\ \A d \in Client : d # c => client'[d] = client[d]
  <2>1. client \in [Client -> ClientState]
    BY DEF Types, TypeOK
  <2> QED
    BY <1>1, <2>1 DEF Writes, Whole, Idle
<1>4. /\ e.apply = i /\ cache'[n][o.key] = e /\ applies'[i].writes[o.key] = e
      /\ \A m \in Node, k \in Key : m # n \/ k # o.key => cache'[m][k] = cache[m][k]
      /\ \A k \in Key : k # o.key => applies'[i].writes[k] = applies[i].writes[k]
      /\ \A j \in 1 .. Len(applies) : j # i => applies'[j] = applies[j]
      /\ Len(applies') = Len(applies) /\ applies'[i].torn = applies[i].torn
      /\ lowered \subseteq lowered' /\ (o.key \notin lowered' => ~cacheEntryLess(e, cache[n][o.key]))
      /\ cache' \in [Node -> [Key -> Entry]]
  BY <1>1 DEF Writes
<1>5. Separate'
  BY <1>3 DEF Separate, Whole
<1>6. /\ \A k \in Key : applies'[i].writes[k] # NoEntry => cache'[n][k] = applies'[i].writes[k]
      /\ \A m \in Node, k \in Key : m # n => cache'[m][k] = cache[m][k] /\ cache[m][k].apply # i
      /\ \A msg \in msgs, k \in Key : msg.cache[k].apply # i
  BY <1>3, <1>4 DEF Begun
<1>7. ASSUME NEW d \in Client, client'[d].pc = "apply" PROVE Begun(d)'
  <2>1. CASE d = c
    BY <1>2, <1>3, <1>6, <1>7, <2>1 DEF Begun
  <2>2. CASE d # c
    <3>1. client'[d] = client[d] /\ Begun(d) /\ client[d].at # n /\ client[d].apply # i
      BY <1>3, <1>7, <2>2 DEF Whole, Separate
    <3>2. client[d].at \in Node /\ applies'[client[d].apply] = applies[client[d].apply]
      BY <1>4, <1>7, <3>1, Sized
    <3>3. \A m \in Node, k \in Key : cache'[m][k].apply = client[d].apply => cache'[m][k] = cache[m][k]
      BY <1>4, <3>1
    <3> QED
      BY <1>2, <1>4, <3>1, <3>2, <3>3 DEF Begun
  <2> QED
    BY <2>1, <2>2
<1>8. ASSUME NEW view, WholeIn(view, applies, lowered), \A k \in Key : view[k].apply # i
      PROVE  WholeIn(view, applies', lowered')
  <2>1. Follows(view, applies, lowered, applies', lowered')
    BY <1>4, <1>8, Sized DEF Follows, WholeIn
  <2> QED
    BY <1>8, <2>1, ViewKept
<1>9. \A msg \in msgs' : WholeIn(msg.cache, applies', lowered')
  BY <1>2, <1>6, <1>8 DEF Whole
<1>10. ASSUME NEW m \in Node, m # n
       PROVE  WholeIn(cache'[m], applies', lowered')
  <2>1. cache'[m] = cache[m]
    BY <1>4, <1>10, Sized
  <2> QED
    BY <1>6, <1>8, <1>10, <2>1 DEF Whole
<1>11. WholeIn(cache'[n], applies', lowered')
  <2>1. WholeIn(cache[n], applies, lowered)
    BY DEF Whole
  <2>2. \A k \in Key : cache'[n][k].apply \in 0 .. Len(applies')
    BY <1>4, <2>1, Sized DEF WholeIn
  <2>3. ASSUME NEW k \in Key, NEW other \in Key \ lowered', NEW j, j = cache'[n][k].apply,
               j # 0, ~applies'[j].torn, applies'[j].writes[other] # NoEntry
        PROVE  ~cacheEntryLess(cache'[n][other], applies'[j].writes[other])
    <3>1. cache'[n][other] \in Entry /\ cache[n][other] \in Entry
      BY <1>4, Sized
    <3>2. CASE j = i
      BY <1>6, <2>3, <3>1, <3>2, OrderFacts
    <3>3. CASE j # i
      <4>1. cache[n][k] = cache'[n][k] /\ j \in 1 .. Len(applies)
        BY <1>4, <2>2, <2>3, <3>3, Sized
      <4>2. applies'[j] = applies[j] /\ applies[j].writes[other] \in Entry
        BY <1>4, <3>3, <4>1, Sized
      <4>3. ~cacheEntryLess(cache[n][other], applies[j].writes[other])
        BY <1>4, <2>1, <2>3, <4>1, <4>2 DEF WholeIn
      <4>4. ~cacheEntryLess(cache'[n][other], cache[n][other])
        BY <1>4, <2>3, <3>1, OrderFacts
      <4> QED
        BY <3>1, <4>2, <4>3, <4>4, OrderFacts
    <3> QED
      BY <3>2, <3>3
  <2> QED
    BY <2>2, <2>3 DEF WholeIn
<1> QED
  BY <1>5, <1>7, <1>9, <1>10, <1>11 DEF Whole

(* A state is copied and merged while no application of the node goes on.  *)
LEMMA GossipKeepsWhole ==
  ASSUME Types, Types', Whole, NEW m \in Node, NEW n \in Node, Send(m, n) \/ Deliver(m, n)
  PROVE  Whole'
<1>1. UNCHANGED <<client, applies, lowered>>
  BY DEF Send, Copy, Deliver, history
<1>2. Separate'
  BY <1>1 DEF Whole, Separate
<1>3. CASE Send(m, n)
  <2> DEFINE msg == [from |-> m, to |-> n, txns |-> txns[m], cache |-> cache[m]]
  <2>1. msgs' = msgs \cup {msg} /\ cache' = cache /\ ~StoreLocked(m)
    BY <1>3 DEF Send, Copy, history
  <2>2. msg.cache = cache[m]
    OBVIOUS
  <2> HIDE DEF msg
  <2>3. ASSUME NEW c \in Client, client'[c].pc = "apply" PROVE Begun(c)'
    <3>1. Begun(c) /\ client[c].at # m
      BY <1>1, <2>1, <2>3 DEF Whole, StoreLocked
    <3> QED
      BY <1>1, <2>1, <2>2, <3>1 DEF Begun
  <2> QED
    BY <1>1, <1>2, <2>1, <2>2, <2>3 DEF Whole
<1>4. CASE Deliver(m, n)
  <2>1. PICK msg \in msgs : msgs' = msgs \ {msg} /\ MergeState(n, msg)
    BY <1>4 DEF Deliver
  <2>2. ~StoreLocked(n) /\ msg \in Message /\ msg.cache \in [Key -> Entry]
    BY <1>4, Sized DEF Deliver
  <2>3. /\ Newer(cache[n], msg.cache, cache'[n])
        /\ \A p \in Node : p # n => cache'[p] = cache[p]
    BY <2>1, <2>2, MergeFacts DEF Newer
  <2>4. ASSUME NEW c \in Client, client'[c].pc = "apply" PROVE Begun(c)'
    <3>1. Begun(c) /\ client[c].at # n /\ client[c].at \in Node
      BY <1>1, <2>2, <2>4, Sized DEF Whole, StoreLocked
    <3>2. \A p \in Node, k \in Key : cache'[p][k] = cache[p][k] \/ cache'[p][k] = msg.cache[k]
      BY <2>3 DEF Newer
    <3> QED
      BY <1>1, <2>1, <2>3, <3>1, <3>2 DEF Begun
  <2>5. WholeIn(cache'[n], applies, lowered)
    <3>1. cache[n] \in [Key -> Entry] /\ cache'[n] \in [Key -> Entry] /\ applies \in Seq(Application)
      BY Sized DEF Types, TypeOK
    <3> QED
      BY <2>2, <2>3, <3>1, MergedIsWhole DEF Whole
  <2> QED
    BY <1>1, <1>2, <2>1, <2>3, <2>4, <2>5 DEF Whole
<1> QED
  BY <1>3, <1>4

(* A kill ends the applications of its node.                               *)
LEMMA RestartKeepsWhole ==
  ASSUME Types, Whole, NEW n \in Node, Restart(n)
  PROVE  Whole'
<1>1. Kills(n) /\ UNCHANGED <<cache, msgs, lowered>>
  BY RestartFacts DEF Restart
<1>2. /\ \A c \in Client : client'[c].pc = "apply" => client'[c] = client[c]
      /\ Len(applies') = Len(applies)
      /\ \A i \in 1 .. Len(applies) :
           applies'[i].writes = applies[i].writes /\ (applies[i].torn => applies'[i].torn)
  BY <1>1 DEF Kills, Idle
<1>3. Separate'
  BY <1>2 DEF Whole, Separate
<1>4. ASSUME NEW c \in Client, client'[c].pc = "apply" PROVE Begun(c)'
  <2>1. client'[c] = client[c] /\ Begun(c) /\ applies'[client[c].apply].writes = applies[client[c].apply].writes
    BY <1>2, <1>4, Sized DEF Whole
  <2> QED
    BY <1>1, <2>1 DEF Begun
<1>5. ASSUME NEW view, WholeIn(view, applies, lowered) PROVE WholeIn(view, applies', lowered')
  <2>1. Follows(view, applies, lowered, applies', lowered')
    BY <1>1, <1>2, <1>5, Sized DEF Follows, WholeIn
  <2> QED
    BY <1>5, <2>1, ViewKept
<1> QED
  BY <1>1, <1>3, <1>4, <1>5 DEF Whole

LEMMA WholeStep == Types /\ Whole /\ [Next]_vars => Whole'
<1> SUFFICES ASSUME Types, Whole, [Next]_vars PROVE Whole'
  OBVIOUS
<1>1. Types' /\ client \in [Client -> ClientState]
  BY TypesStep DEF Types, TypeOK
<1>2. ASSUME NEW c \in Client, CommitRefused(c) PROVE Calm
  BY <1>1, <1>2 DEF CommitRefused, history, Calm, Idle
<1>3. ASSUME NEW c \in Client, Commit(c) PROVE Calm
  <2>1. client' = [client EXCEPT ![c].pc = "lock"] /\ UNCHANGED <<cache, msgs, applies, lowered>>
    BY <1>3 DEF Commit, Committed
  <2>2. client'[c].pc = "lock" /\ \A d \in Client : d # c => client'[d] = client[d]
    BY <1>1, <2>1 DEF ClientState
  <2> QED
    BY <2>1, <2>2 DEF Calm
<1>4. ASSUME NEW c \in Client, NEW n \in Node, NEW t \in Txn, ReadOperations(c, n, t) PROVE Calm
  BY <1>1, <1>4 DEF ReadOperations, history, Calm
<1>5. ASSUME \/ Tick
             \/ \E n \in Node, t \in Txn : BeginTransaction(n, t) \/ RollbackTransaction(n, t)
             \/ \E n \in Node, t \in Txn, k \in Key : AddOperation(n, t, k)
             \/ \E n \in Node : CleanupExpired(n)
             \/ UNCHANGED vars
      PROVE  Calm
  BY <1>5 DEF Tick, BeginTransaction, RollbackTransaction, AddOperation, Append1, CleanupExpired,
              vars, history, Calm
<1> QED
  BY <1>1, <1>2, <1>3, <1>4, <1>5, CalmKeepsWhole, LockKeepsWhole, WriteKeepsWhole,
     GossipKeepsWhole, RestartKeepsWhole DEF Next

----------------------------------------------------------------------------
LEMMA InitFacts == Init => SoleOwner /\ Accounted /\ Whole
<1> SUFFICES ASSUME Init PROVE SoleOwner /\ Accounted /\ Whole
  OBVIOUS
<1>1. /\ \A n \in Node, t \in Txn : txns[n][t] = Absent
      /\ \A n \in Node, k \in Key : cache[n][k] = NoEntry
      /\ \A c \in Client : client[c] = Idle
      /\ \A t \in Txn : outcomes[t] = 0 /\ touched[t] = {}
      /\ msgs = {} /\ applies = <<>>
  BY DEF Init
<1>2. SoleOwner
  BY <1>1 DEF SoleOwner, Unknown, Absent
<1>3. Accounted
  BY <1>1 DEF Accounted, Covered, Absent, Idle
<1>4. Separate
  BY <1>1 DEF Separate, Idle
<1>5. \A c \in Client : client[c].pc # "apply"
  BY <1>1 DEF Idle
<1>6. \A n \in Node : WholeIn(cache[n], applies, lowered)
  <2>1. Len(applies) = 0
    BY <1>1, EmptySeq
  <2> QED
    BY <1>1, <2>1 DEF WholeIn, NoEntry
<1> QED
  BY <1>1, <1>2, <1>3, <1>4, <1>5, <1>6 DEF Whole

(* The inductive invariant: who has changed a transaction decides it, what *)
(* is committed is accounted for, and every view is whole.                 *)
IInv == Types /\ SoleOwner /\ Accounted /\ Whole

(* IInv holds of every reachable state, for any nodes, clients,            *)
(* transactions, keys, clocks and bounds.                                  *)
THEOREM Invariance == Spec => []IInv
<1>1. Init => IInv
  BY InitTypes, InitFacts DEF IInv
<1>2. IInv /\ [Next]_vars => IInv'
  BY TypesStep, OwnerStep, AccountedStep, WholeStep DEF IInv
<1> QED
  BY <1>1, <1>2, PTL DEF Spec

(* The state of every node, caller and message has its type.               *)
THEOREM TypeCorrect == Spec => []TypeOK
<1>1. IInv => TypeOK
  BY DEF IInv, Types
<1> QED
  BY <1>1, Invariance, PTL

(* A transaction whose calls all go to one node, and which no node forgot, *)
(* is committed or rolled back at most once: an older state that gossip    *)
(* brings back never reopens it (transactions.go:328).                     *)
THEOREM OneOutcomeHolds == Spec => []OneOutcome
<1>1. ASSUME IInv PROVE OneOutcome
  <2> SUFFICES ASSUME NEW t \in Txn, Cardinality(touched[t]) <= 1, t \notin forgot
               PROVE  outcomes[t] <= 1
    BY DEF OneOutcome
  <2>1. touched[t] \subseteq Node /\ IsFiniteSet(touched[t])
    BY <1>1, NodeAssumption, FS_Subset DEF IInv, Types, TypeOK
  <2>2. CASE touched[t] = {}
    BY <1>1, <2>2 DEF IInv, SoleOwner, Unknown
  <2>3. CASE touched[t] # {}
    <3>1. PICK n \in Node : n \in touched[t]
      BY <2>1, <2>3
    <3>2. ASSUME NEW m \in touched[t], m # n PROVE FALSE
      <4>1. {m, n} \subseteq touched[t] /\ IsFiniteSet({n}) /\ Cardinality({n}) = 1
        BY <3>1, FS_Singleton
      <4>2. Cardinality({m, n}) = 2
        <5>1. {m, n} = {n} \cup {m} /\ m \notin {n}
          BY <3>2
        <5> QED
          BY <4>1, <5>1, FS_AddElement
      <4>3. Cardinality({m, n}) <= Cardinality(touched[t])
        BY <2>1, <4>1, FS_Subset
      <4>4. Cardinality(touched[t]) \in Nat
        BY <2>1, FS_CardinalityType
      <4> QED
        BY <4>2, <4>3, <4>4
    <3>3. touched[t] = {n}
      BY <3>1, <3>2
    <3> QED
      BY <1>1, <3>3 DEF IInv, SoleOwner, Sole
  <2> QED
    BY <2>2, <2>3
<1> QED
  BY <1>1, Invariance, PTL

(* What a node knows as committed has been applied, is about to be, or was *)
(* added during the commit or cut by a kill (mesh_store.go:717, :722).     *)
THEOREM CommittedIsAppliedHolds == Spec => []CommittedIsApplied
<1>1. ASSUME IInv PROVE CommittedIsApplied
  <2> SUFFICES ASSUME NEW n \in Node, NEW t \in Txn, txns[n][t].status = "committed",
                      NEW d \in Ids(txns[n][t].operations)
               PROVE  \/ d \in UNION {applies[i].ops : i \in DOMAIN applies}
                      \/ d \in UNION {Ids(client[c].ops) : c \in {e \in Client : client[e].pc \in {"lock", "apply"}}}
                      \/ d \in raced \cup cut
    BY DEF CommittedIsApplied
  <2>1. d \in Done
    BY <1>1 DEF IInv, Accounted, Covered
  <2>2. CASE \E i \in DOMAIN applies : d \in applies[i].ops
    BY <2>2
  <2>3. CASE \E c \in Client : client[c].pc \in {"lock", "apply"} /\ d \in Ids(client[c].ops)
    BY <2>3
  <2>4. CASE d \in raced \cup cut
    BY <2>4
  <2> QED
    BY <2>1, <2>2, <2>3, <2>4 DEF Done
<1> QED
  BY <1>1, Invariance, PTL

(* Every cache whose lock is free, and every state on its way to a peer,   *)
(* shows all of a commit or none of it (mesh_store.go:736-748).            *)
THEOREM AllOrNothingHolds == Spec => []AllOrNothing
<1>1. ASSUME IInv PROVE AllOrNothing
  <2>1. \A view \in Shown : WholeIn(view, applies, lowered)
    BY <1>1 DEF IInv, Whole, Shown
  <2> QED
    BY <2>1 DEF AllOrNothing, WholeIn
<1> QED
  BY <1>1, Invariance, PTL
=============================================================================
