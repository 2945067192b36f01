---------------------------- MODULE PubSubProofs ----------------------------
(***************************************************************************)
(* The broker's two levels of locks, for any number of goroutines, topics  *)
(* and subscribers and any capacity.  What a publish may send to depends   *)
(* on what other calls do between its steps: none of the properties is     *)
(* inductive without the owners of the locks, and without the fact that a  *)
(* channel belongs to one subscriber of one topic, so that whoever closes  *)
(* it holds the lock of the only topic that delivers to it.                *)
(*                                                                         *)
(* The second half is about the histories, which an append and a merge     *)
(* trim by different orders: of two messages in a history the one behind   *)
(* came later or has a stamp that is no older (InTurn), which either keeps *)
(* up for the other.                                                       *)
(***************************************************************************)
EXTENDS PubSub, FiniteSetTheorems, FunctionTheorems, TLAPS

(* What a thread may be doing.                                             *)
Call ==
  [op : {"idle"}]
    \cup [op : {"subscribe"}, sub : Sub, topic : Topic, channel : Nat]
    \cup [op : {"unsubscribe"}, sub : Sub, topic : Topic]
    \cup [op : {"publish"}, topic : Topic, msg : Message]
    \cup [op : {"deliver", "deadletter"}, topic : Topic, msg : Message, todo : SUBSET Nat]
    \cup [op : {"poll"}, channel : Nat, got : Nat]
    \cup [op : {"stats"}, todo : SUBSET Topic]
    \cup [op : {"merge"}, topic : Topic, peer : {S \in SUBSET Message : IsFiniteSet(S)}]

ChannelState == [queue : Seq(Message), open : BOOLEAN, match : Matches]

Types ==
  /\ broker \in Thread \cup {Free}
  /\ lock \in [Topic -> Thread \cup {Free}]
  /\ call \in [Thread -> Call]
  /\ topics \subseteq Topic
  /\ subscribers \in [Topic -> [Sub -> Nat]]
  /\ registered \in [Sub -> Nat]
  /\ channels \in Seq(ChannelState)
  /\ published \in Nat
  /\ arrived \in [Topic -> Seq(Message)]
  /\ named \in [Sub -> SUBSET Topic]

(* Who holds a lock.                                                       *)
Locked ==
  \A c \in Thread :
    /\ call[c].op \in {"subscribe", "unsubscribe", "stats"} => broker = c
    /\ call[c].op \in {"deliver", "deadletter"} => lock[call[c].topic] = c

Open(ch) == ch \in 1 .. Len(channels) /\ channels[ch].open = TRUE

(* Every channel in use is open and belongs to one subscription; what a    *)
(* publish has still to visit are subscriptions of its topic.              *)
Connected ==
  /\ \A t \in Topic, s \in Sub : subscribers[t][s] # 0 => Open(subscribers[t][s])
  /\ \A t1, t2 \in Topic, s1, s2 \in Sub :
       subscribers[t1][s1] = subscribers[t2][s2] /\ subscribers[t1][s1] # 0
         => t1 = t2 /\ s1 = s2
  /\ \A c \in Thread :
       /\ call[c].op = "subscribe" =>
            /\ Open(call[c].channel) /\ call[c].channel # 0
            /\ \A t \in Topic, s \in Sub : subscribers[t][s] # call[c].channel
       /\ call[c].op \in {"deliver", "deadletter"} =>
            \A ch \in call[c].todo :
              ch # 0 /\ \E s \in Sub : subscribers[call[c].topic][s] = ch

(* A subscriber of one topic polls its channel there, but while a call of  *)
(* its own is at work.                                                     *)
Registered ==
  /\ \A c \in Thread :
       call[c].op \in {"subscribe", "unsubscribe"} => call[c].topic \in named[call[c].sub]
  /\ \A t \in Topic, s \in Sub :
       named[s] = {t} =>
         \/ registered[s] = subscribers[t][s]
         \/ \E c \in Thread : call[c].op \in {"subscribe", "unsubscribe"} /\ call[c].sub = s

(* Whoever polls polls a channel that was made.                            *)
Made ==
  /\ \A s \in Sub : registered[s] \in 0 .. Len(channels)
  /\ \A c \in Thread : call[c].op = "poll" => call[c].channel \in 1 .. Len(channels)

IInv == Types /\ Locked /\ Connected /\ Made /\ Registered /\ DeliveredInOrder

----------------------------------------------------------------------------
(* The fields of a call.                                                   *)
LEMMA CallFacts ==
  ASSUME NEW r \in Call
  PROVE  /\ r.op \in Op
         /\ r.op = "subscribe" => r.sub \in Sub /\ r.topic \in Topic /\ r.channel \in Nat
         /\ r.op = "unsubscribe" => r.sub \in Sub /\ r.topic \in Topic
         /\ r.op = "publish" => r.topic \in Topic /\ r.msg \in Message
         /\ r.op \in {"deliver", "deadletter"} =>
              /\ r.topic \in Topic /\ r.msg \in Message /\ r.todo \in SUBSET Nat
              /\ r = [op |-> r.op, topic |-> r.topic, msg |-> r.msg, todo |-> r.todo]
         /\ r.op = "poll" =>
              /\ r.channel \in Nat /\ r.got \in Nat
              /\ r = [op |-> r.op, channel |-> r.channel, got |-> r.got]
         /\ r.op = "stats" => r.todo \in SUBSET Topic /\ r = [op |-> r.op, todo |-> r.todo]
         /\ r.op = "merge" => r.topic \in Topic /\ r.peer \in SUBSET Message /\ IsFiniteSet(r.peer)
BY DEF Call, Op

(* The calls a step may leave a thread in.                                 *)
LEMMA CallForms ==
  /\ Idle \in Call /\ Idle.op = "idle"
  /\ \A s \in Sub, t \in Topic, ch \in Nat :
       /\ [op |-> "subscribe", sub |-> s, topic |-> t, channel |-> ch] \in Call
       /\ [op |-> "unsubscribe", sub |-> s, topic |-> t] \in Call
  /\ \A t \in Topic, m \in Message, S \in SUBSET Nat :
       /\ [op |-> "publish", topic |-> t, msg |-> m] \in Call
       /\ [op |-> "deliver", topic |-> t, msg |-> m, todo |-> S] \in Call
       /\ [op |-> "deadletter", topic |-> t, msg |-> m, todo |-> S] \in Call
  /\ \A ch, k \in Nat : [op |-> "poll", channel |-> ch, got |-> k] \in Call
  /\ \A S \in SUBSET Topic : [op |-> "stats", todo |-> S] \in Call
  /\ \A t \in Topic, S \in SUBSET Message :
       IsFiniteSet(S) => [op |-> "merge", topic |-> t, peer |-> S] \in Call
BY DEF Call, Idle

(* A sequence has finitely many elements, of the type it is of.            *)
LEMMA ElementsFacts ==
  ASSUME NEW S, NEW q \in Seq(S)
  PROVE  Elements(q) \subseteq S /\ IsFiniteSet(Elements(q))
<1>1. Len(q) \in Nat /\ DOMAIN q = 1 .. Len(q) /\ \A i \in 1 .. Len(q) : q[i] \in S
  OBVIOUS
<1>2. IsFiniteSet(1 .. Len(q))
  BY <1>1, FS_Interval
<1>3. q \in [1 .. Len(q) -> S]
  OBVIOUS
<1>4. IsFiniteSet(Range(q))
  BY <1>2, <1>3, Fun_RangeProperties, FS_Surjection
<1> QED
  BY <1>1, <1>4 DEF Elements, Range

LEMMA InitIInv == Init => IInv
BY CallForms, LocksAssumption DEF Init, IInv, Types, Locked, Connected, Made, Registered, DeliveredInOrder

----------------------------------------------------------------------------
(* A step that moves one thread on, closes no channel and touches no       *)
(* subscription and no history.                                            *)
Quiet(c, r) ==
  /\ call' = [call EXCEPT ![c] = r]
  /\ channels' \in Seq(ChannelState) /\ Len(channels') = Len(channels)
  /\ \A ch : Open(ch) => Open(ch)'
  /\ UNCHANGED <<subscribers, registered, arrived, named>>

LEMMA QuietKeepsIInv ==
  ASSUME IInv, NEW c \in Thread, NEW r \in Call, Quiet(c, r),
         broker' \in Thread \cup {Free}, lock' \in [Topic -> Thread \cup {Free}],
         topics' \subseteq Topic, published' \in Nat,
         Locked', r.op \notin {"subscribe", "unsubscribe"},
         call[c].op \notin {"subscribe", "unsubscribe"},
         r.op \in {"deliver", "deadletter"} =>
           /\ call[c].op \in {"deliver", "deadletter"}
           /\ r.topic = call[c].topic /\ r.msg = call[c].msg
           /\ r.todo \subseteq call[c].todo,
         r.op = "poll" => r.channel \in 1 .. Len(channels)
  PROVE  IInv'
<1>1. Types'
  BY DEF IInv, Types, Quiet
<1>2. /\ call'[c] = r /\ \A d \in Thread \ {c} : call'[d] = call[d]
      /\ UNCHANGED <<subscribers, registered, arrived, named>>
  BY DEF IInv, Types, Quiet
<1>3. Connected'
  <2>1. \A ch : Open(ch) => Open(ch)'
    BY DEF Quiet
  <2>2. \A d \in Thread :
          /\ call'[d].op = "subscribe" =>
               /\ Open(call[d].channel)' /\ call'[d].channel # 0
               /\ \A t \in Topic, s \in Sub : subscribers[t][s] # call'[d].channel
          /\ call'[d].op \in {"deliver", "deadletter"} =>
               \A ch \in call'[d].todo :
                 ch # 0 /\ \E s \in Sub : subscribers[call'[d].topic][s] = ch
    <3> TAKE d \in Thread
    <3>1. CASE d = c
      BY <1>2, <3>1 DEF IInv, Connected
    <3>2. CASE d # c
      BY <1>2, <2>1, <3>2 DEF IInv, Connected
    <3> QED
      BY <3>1, <3>2
  <2> QED
    BY <1>2, <2>1, <2>2 DEF IInv, Connected
<1>4. Made'
  BY <1>2 DEF IInv, Made, Quiet
<1>5. Registered'
  BY <1>2 DEF IInv, Registered
<1>6. DeliveredInOrder'
  BY <1>2 DEF IInv, DeliveredInOrder
<1> QED
  BY <1>1, <1>3, <1>4, <1>5, <1>6 DEF IInv

(* What the updates of a call's fields make of it.                         *)
LEMMA RoundFacts ==
  ASSUME NEW x \in Call, x.op \in {"deliver", "deadletter"}, NEW S, NEW o
  PROVE  /\ [x EXCEPT !.todo = S] = [op |-> x.op, topic |-> x.topic, msg |-> x.msg, todo |-> S]
         /\ [x EXCEPT !.op = o] = [op |-> o, topic |-> x.topic, msg |-> x.msg, todo |-> x.todo]
<1>1. x \in [op : {"deliver", "deadletter"}, topic : Topic, msg : Message, todo : SUBSET Nat]
  BY DEF Call
<1>2. [x EXCEPT !.todo = S] = [op |-> x.op, topic |-> x.topic, msg |-> x.msg, todo |-> S]
  BY <1>1
<1>3. [x EXCEPT !.op = o] = [op |-> o, topic |-> x.topic, msg |-> x.msg, todo |-> x.todo]
  BY <1>1
<1> QED
  BY <1>2, <1>3

LEMMA PollFacts ==
  ASSUME NEW x, NEW k, x = [op |-> x.op, channel |-> x.channel, got |-> x.got]
  PROVE  [x EXCEPT !.got = k] = [op |-> x.op, channel |-> x.channel, got |-> k]
OBVIOUS

LEMMA UnchangedOpen ==
  ASSUME UNCHANGED channels
  PROVE  \A ch : Open(ch) => Open(ch)'
BY DEF Open

LEMMA ChannelFacts ==
  ASSUME NEW x \in ChannelState, NEW q
  PROVE  [x EXCEPT !.queue = q] = [queue |-> q, open |-> x.open, match |-> x.match]
BY DEF ChannelState

(* What a thread does to the queue of a channel leaves the channels open.  *)
LEMMA QueueKeepsOpen ==
  ASSUME channels \in Seq(ChannelState), NEW k \in 1 .. Len(channels), NEW q \in Seq(Message),
         channels' = [channels EXCEPT ![k].queue = q]
  PROVE  /\ channels' \in Seq(ChannelState) /\ Len(channels') = Len(channels)
         /\ \A ch : Open(ch) => Open(ch)'
<1>1. /\ channels[k] \in ChannelState
      /\ [channels[k] EXCEPT !.queue = q]
            = [queue |-> q, open |-> channels[k].open, match |-> channels[k].match]
  <2>1. channels[k] \in ChannelState
    OBVIOUS
  <2> QED
    BY <2>1, ChannelFacts
<1>2. channels' = [channels EXCEPT ![k] = [queue |-> q, open |-> channels[k].open, match |-> channels[k].match]]
  BY <1>1
<1>3. channels' \in Seq(ChannelState) /\ Len(channels') = Len(channels)
  BY <1>1, <1>2 DEF ChannelState
<1>4. \A ch \in 1 .. Len(channels) : channels'[ch].open = channels[ch].open
  BY <1>1, <1>2
<1> QED
  BY <1>3, <1>4 DEF Open

----------------------------------------------------------------------------
(* The steps of a publish on its way round the channels.                   *)
LEMMA PublishKeepsIInv ==
  ASSUME IInv, NEW c \in Thread, NEW t \in Topic, Publish(c, t)
  PROVE  IInv'
<1> DEFINE m == [id |-> published + 1, ts |-> published \div PerMilli]
           r == [op |-> "publish", topic |-> t, msg |-> m]
<1>1. /\ published \in Nat /\ PerMilli \in Nat \ {0}
      /\ published' = published + 1 /\ published' \in Nat
  BY BoundsAssumption DEF Publish, IInv, Types
<1>2. published \div PerMilli \in Nat
  BY <1>1
<1>3. m \in Message
  BY <1>1, <1>2 DEF Message
<1>4. call[c].op = "idle" /\ call' = [call EXCEPT ![c] = r] /\ UNCHANGED channels
  BY CallForms DEF Publish
<1> HIDE DEF m
<1>5. r \in Call /\ r.op = "publish"
  BY <1>3, CallForms
<1>6. Quiet(c, r) /\ UNCHANGED <<broker, lock>>
  BY <1>4, UnchangedOpen DEF Publish, Quiet, locks, IInv, Types
<1> HIDE DEF r
<1>7. Locked'
  BY <1>4, <1>5, <1>6 DEF IInv, Types, Locked
<1> QED
  <2>1. /\ broker' \in Thread \cup {Free} /\ lock' \in [Topic -> Thread \cup {Free}]
        /\ topics' \subseteq Topic
    BY <1>6 DEF IInv, Types, Publish
  <2> QED
    BY <1>1, <1>4, <1>5, <1>6, <1>7, <2>1, QuietKeepsIInv

LEMMA DeliverToKeepsIInv ==
  ASSUME IInv, NEW c \in Thread, NEW ch \in DOMAIN channels, DeliverTo(c, ch)
  PROVE  IInv'
<1> DEFINE r == [op |-> "deliver", topic |-> call[c].topic, msg |-> call[c].msg,
                 todo |-> call[c].todo \ {ch}]
<1>1. /\ call[c] \in Call /\ call[c].op = "deliver"
      /\ channels \in Seq(ChannelState) /\ ch \in 1 .. Len(channels)
  BY DEF DeliverTo, IInv, Types
<1>2. /\ call[c].topic \in Topic /\ call[c].msg \in Message /\ call[c].todo \in SUBSET Nat
      /\ call[c] = [op |-> "deliver", topic |-> call[c].topic, msg |-> call[c].msg,
                    todo |-> call[c].todo]
  BY <1>1, CallFacts
<1>3. r \in Call
  BY <1>2, CallForms
<1>4. call' = [call EXCEPT ![c] = r]
  <2>1. call' = [call EXCEPT ![c] = [call[c] EXCEPT !.todo = call[c].todo \ {ch}]]
    BY DEF DeliverTo
  <2>2. [call[c] EXCEPT !.todo = call[c].todo \ {ch}] = r
    BY <1>1, RoundFacts
  <2> QED
    BY <2>1, <2>2
<1>5. /\ channels' \in Seq(ChannelState) /\ Len(channels') = Len(channels)
      /\ \A k : Open(k) => Open(k)'
  <2>1. channels[ch].queue \in Seq(Message)
    <3>1. channels[ch] \in ChannelState
      BY <1>1
    <3> QED
      BY <3>1 DEF ChannelState
  <2>2. Append(channels[ch].queue, call[c].msg) \in Seq(Message)
    BY <1>2, <2>1
  <2>3. channels' = [channels EXCEPT ![ch].queue = Append(channels[ch].queue, call[c].msg)]
    BY DEF DeliverTo
  <2> QED
    BY <1>1, <2>2, <2>3, QueueKeepsOpen
<1>6. Quiet(c, r) /\ UNCHANGED <<broker, lock, topics, published>>
  BY <1>4, <1>5 DEF DeliverTo, Quiet, locks
<1>7. /\ r.op = "deliver" /\ r.topic = call[c].topic /\ r.msg = call[c].msg
      /\ r.todo \subseteq call[c].todo
  OBVIOUS
<1> HIDE DEF r
<1>8. Locked'
  BY <1>1, <1>4, <1>6, <1>7 DEF IInv, Types, Locked
<1> QED
  BY <1>1, <1>3, <1>6, <1>7, <1>8, QuietKeepsIInv DEF IInv, Types

LEMMA ChannelFullKeepsIInv ==
  ASSUME IInv, NEW c \in Thread, NEW ch \in DOMAIN channels, ChannelFull(c, ch)
  PROVE  IInv'
<1> DEFINE r == [op |-> "deadletter", topic |-> call[c].topic, msg |-> call[c].msg,
                 todo |-> call[c].todo \ {ch}]
<1>1. call[c] \in Call /\ call[c].op = "deliver"
  BY DEF ChannelFull, IInv, Types
<1>2. /\ call[c].topic \in Topic /\ call[c].msg \in Message /\ call[c].todo \in SUBSET Nat
      /\ call[c] = [op |-> "deliver", topic |-> call[c].topic, msg |-> call[c].msg,
                    todo |-> call[c].todo]
  BY <1>1, CallFacts
<1>3. r \in Call
  BY <1>2, CallForms
<1>4. call' = [call EXCEPT ![c] = r]
  BY DEF ChannelFull
<1>5. Quiet(c, r) /\ UNCHANGED <<broker, lock, topics, published>>
  BY <1>4, UnchangedOpen DEF ChannelFull, Quiet, locks, IInv, Types
<1>6. /\ r.op = "deadletter" /\ r.topic = call[c].topic /\ r.msg = call[c].msg
      /\ r.todo \subseteq call[c].todo
  OBVIOUS
<1> HIDE DEF r
<1>7. Locked'
  BY <1>1, <1>4, <1>5, <1>6 DEF IInv, Types, Locked
<1> QED
  BY <1>1, <1>3, <1>5, <1>6, <1>7, QuietKeepsIInv DEF IInv, Types

LEMMA DeadLetterKeepsIInv ==
  ASSUME IInv, NEW c \in Thread, addToDeadLetterQueue(c)
  PROVE  IInv'
<1> DEFINE r == [op |-> "deliver", topic |-> call[c].topic, msg |-> call[c].msg,
                 todo |-> call[c].todo]
<1>1. call[c] \in Call /\ call[c].op = "deadletter"
  BY DEF addToDeadLetterQueue, IInv, Types
<1>2. /\ call[c].topic \in Topic /\ call[c].msg \in Message /\ call[c].todo \in SUBSET Nat
      /\ call[c] = [op |-> "deadletter", topic |-> call[c].topic, msg |-> call[c].msg,
                    todo |-> call[c].todo]
  BY <1>1, CallFacts
<1>3. r \in Call
  BY <1>2, CallForms
<1>4. call' = [call EXCEPT ![c] = r]
  <2>1. call' = [call EXCEPT ![c] = [call[c] EXCEPT !.op = "deliver"]]
    BY DEF addToDeadLetterQueue
  <2>2. [call[c] EXCEPT !.op = "deliver"] = r
    BY <1>1, RoundFacts
  <2> QED
    BY <2>1, <2>2
<1>5. Quiet(c, r) /\ UNCHANGED <<broker, lock, topics, published>>
  BY <1>4, UnchangedOpen DEF addToDeadLetterQueue, Quiet, locks, IInv, Types
<1>6. /\ r.op = "deliver" /\ r.topic = call[c].topic /\ r.msg = call[c].msg
      /\ r.todo \subseteq call[c].todo
  OBVIOUS
<1> HIDE DEF r
<1>7. Locked'
  BY <1>1, <1>4, <1>5, <1>6 DEF IInv, Types, Locked
<1> QED
  BY <1>1, <1>3, <1>5, <1>6, <1>7, QuietKeepsIInv DEF IInv, Types

(* The lock that is released was the thread's own.                         *)
LEMMA PublishedKeepsIInv ==
  ASSUME IInv, NEW c \in Thread, Published(c)
  PROVE  IInv'
<1>1. call[c] \in Call /\ call[c].op = "deliver" /\ call[c].topic \in Topic
  BY CallFacts DEF Published, IInv, Types
<1>2. /\ call' = [call EXCEPT ![c] = Idle] /\ lock' = [lock EXCEPT ![call[c].topic] = Free]
      /\ UNCHANGED <<broker, topics, published>>
  BY DEF Published
<1>3. Quiet(c, Idle)
  BY <1>2, UnchangedOpen DEF Published, Quiet, IInv, Types
<1>4. lock' \in [Topic -> Thread \cup {Free}]
  BY <1>1, <1>2 DEF IInv, Types
<1>5. Locked'
  <2> SUFFICES ASSUME NEW d \in Thread
               PROVE  /\ call'[d].op \in {"subscribe", "unsubscribe", "stats"} => broker' = d
                      /\ call'[d].op \in {"deliver", "deadletter"} => lock'[call'[d].topic] = d
    BY DEF Locked
  <2>1. CASE d = c
    BY <1>2, <2>1, CallForms DEF IInv, Types
  <2>2. CASE d # c
    <3>1. call'[d] = call[d]
      BY <1>2, <2>2 DEF IInv, Types
    <3>2. lock[call[c].topic] = c
      BY <1>1 DEF IInv, Locked
    <3>3. call[d].op \in {"deliver", "deadletter"} =>
            lock[call[d].topic] = d /\ call[d].topic \in Topic
      BY CallFacts DEF IInv, Types, Locked
    <3> QED
      BY <1>1, <1>2, <2>2, <3>1, <3>2, <3>3 DEF IInv, Types, Locked
  <2> QED
    BY <2>1, <2>2
<1> QED
  BY <1>1, <1>2, <1>3, <1>4, <1>5, CallForms, QuietKeepsIInv DEF IInv, Types

----------------------------------------------------------------------------
(* Calls that take no topic's lock for long: Poll, GetStats, and the first *)
(* half of a merge.                                                        *)
LEMMA PollKeepsIInv ==
  ASSUME IInv, NEW c \in Thread, NEW s \in Sub, Poll(c, s)
  PROVE  IInv'
<1> DEFINE r == [op |-> "poll", channel |-> registered[s], got |-> 0]
<1>1. call[c].op = "idle" /\ call' = [call EXCEPT ![c] = r] /\ UNCHANGED <<topics, published>>
  BY CallForms DEF Poll
<1>2. r \in Call
  BY CallForms DEF IInv, Types
<1>3. Quiet(c, r) /\ UNCHANGED <<broker, lock>>
  BY <1>1, UnchangedOpen DEF Poll, Quiet, locks, IInv, Types
<1>4. r.op = "poll" /\ r.channel \in 1 .. Len(channels)
  BY DEF Poll, IInv, Types, Made
<1> HIDE DEF r
<1>5. Locked'
  BY <1>1, <1>3, <1>4 DEF IInv, Types, Locked
<1> QED
  BY <1>1, <1>2, <1>3, <1>4, <1>5, QuietKeepsIInv DEF IInv, Types

LEMMA ReceiveKeepsIInv ==
  ASSUME IInv, NEW c \in Thread, Receive(c)
  PROVE  IInv'
<1> DEFINE ch == call[c].channel
           r == [op |-> "poll", channel |-> ch, got |-> call[c].got + 1]
<1>1. /\ call[c] \in Call /\ call[c].op = "poll" /\ channels \in Seq(ChannelState)
      /\ channels[ch].queue # <<>> /\ ch \in 1 .. Len(channels)
  BY DEF Receive, IInv, Types, Made
<1>2. /\ call[c].channel \in Nat /\ call[c].got \in Nat
      /\ call[c] = [op |-> "poll", channel |-> call[c].channel, got |-> call[c].got]
  BY <1>1, CallFacts
<1>3. r \in Call
  BY <1>2, CallForms
<1>4. call' = [call EXCEPT ![c] = r]
  <2>1. call' = [call EXCEPT ![c] = [call[c] EXCEPT !.got = call[c].got + 1]]
    BY DEF Receive
  <2> QED
    BY <1>1, <1>2, <2>1, PollFacts
<1>5. /\ channels' \in Seq(ChannelState) /\ Len(channels') = Len(channels)
      /\ \A k : Open(k) => Open(k)'
  <2>1. channels[ch].queue \in Seq(Message)
    <3>1. channels[ch] \in ChannelState
      BY <1>1
    <3> QED
      BY <3>1 DEF ChannelState
  <2>2. Tail(channels[ch].queue) \in Seq(Message)
    BY <1>1, <2>1
  <2>3. channels' = [channels EXCEPT ![ch].queue = Tail(channels[ch].queue)]
    BY DEF Receive
  <2> QED
    BY <1>1, <2>2, <2>3, QueueKeepsOpen
<1>6. Quiet(c, r) /\ UNCHANGED <<broker, lock, topics, published>>
  BY <1>4, <1>5 DEF Receive, Quiet, locks
<1>7. r.op = "poll" /\ r.channel \in 1 .. Len(channels)
  BY <1>1
<1> HIDE DEF r
<1>8. Locked'
  BY <1>1, <1>4, <1>6, <1>7 DEF IInv, Types, Locked
<1> QED
  BY <1>1, <1>3, <1>6, <1>7, <1>8, QuietKeepsIInv DEF IInv, Types

LEMMA PolledKeepsIInv ==
  ASSUME IInv, NEW c \in Thread, Polled(c)
  PROVE  IInv'
<1>1. call[c].op = "poll" /\ call' = [call EXCEPT ![c] = Idle] /\ UNCHANGED <<topics, published>>
  BY DEF Polled
<1>2. Quiet(c, Idle) /\ UNCHANGED <<broker, lock>>
  BY <1>1, UnchangedOpen DEF Polled, Quiet, locks, IInv, Types
<1>3. Idle.op = "idle" /\ Idle \in Call
  BY CallForms
<1>4. Locked'
  BY <1>1, <1>2, <1>3 DEF IInv, Types, Locked
<1> QED
  BY <1>1, <1>2, <1>3, <1>4, QuietKeepsIInv DEF IInv, Types

LEMMA GetStatsKeepsIInv ==
  ASSUME IInv, NEW c \in Thread, GetStats(c)
  PROVE  IInv'
<1> DEFINE r == [op |-> "stats", todo |-> topics]
<1>1. /\ call[c].op = "idle" /\ call' = [call EXCEPT ![c] = r] /\ broker = Free /\ broker' = c
      /\ UNCHANGED <<lock, topics, published>>
  BY CallForms DEF GetStats
<1>2. r \in Call
  BY CallForms DEF IInv, Types
<1>3. Quiet(c, r)
  BY <1>1, UnchangedOpen DEF GetStats, Quiet, IInv, Types
<1>4. r.op = "stats"
  OBVIOUS
<1> HIDE DEF r
<1>5. Locked'
  BY <1>1, <1>4, LocksAssumption DEF IInv, Types, Locked
<1> QED
  BY <1>1, <1>2, <1>3, <1>4, <1>5, QuietKeepsIInv DEF IInv, Types

LEMMA CountTopicKeepsIInv ==
  ASSUME IInv, NEW c \in Thread, CountTopic(c)
  PROVE  IInv'
<1>1. PICK t \in call[c].todo : call' = [call EXCEPT ![c].todo = @ \ {t}]
  BY DEF CountTopic
<1> DEFINE r == [op |-> "stats", todo |-> call[c].todo \ {t}]
<1>2. call[c] \in Call /\ call[c].op = "stats"
  BY DEF CountTopic, IInv, Types
<1>3. call[c].todo \in SUBSET Topic
  BY <1>2, CallFacts
<1>4. r \in Call
  BY <1>3, CallForms
<1>5. call' = [call EXCEPT ![c] = r]
  <2>1. call[c] \in [op : {"stats"}, todo : SUBSET Topic]
    BY <1>2 DEF Call
  <2>2. [call[c] EXCEPT !.todo = call[c].todo \ {t}] = r
    BY <2>1
  <2> QED
    BY <1>1, <2>2
<1>6. Quiet(c, r) /\ UNCHANGED <<broker, lock, topics, published>>
  BY <1>5, UnchangedOpen DEF CountTopic, Quiet, locks, IInv, Types
<1>7. r.op = "stats"
  OBVIOUS
<1> HIDE DEF r
<1>8. Locked'
  BY <1>2, <1>5, <1>6, <1>7 DEF IInv, Types, Locked
<1> QED
  BY <1>2, <1>4, <1>6, <1>7, <1>8, QuietKeepsIInv DEF IInv, Types

LEMMA CountedKeepsIInv ==
  ASSUME IInv, NEW c \in Thread, Counted(c)
  PROVE  IInv'
<1>1. /\ call[c].op = "stats" /\ call' = [call EXCEPT ![c] = Idle] /\ broker' = Free
      /\ UNCHANGED <<lock, topics, published>>
  BY DEF Counted
<1>2. Quiet(c, Idle)
  BY <1>1, UnchangedOpen DEF Counted, Quiet, IInv, Types
<1>3. Idle.op = "idle" /\ Idle \in Call
  BY CallForms
<1>4. broker = c
  BY <1>1 DEF IInv, Locked
<1>5. Locked'
  BY <1>1, <1>3, <1>4 DEF IInv, Types, Locked
<1> QED
  BY <1>1, <1>2, <1>3, <1>5, QuietKeepsIInv DEF IInv, Types

LEMMA MergeSnapshotKeepsIInv ==
  ASSUME IInv, NEW c \in Thread, NEW t \in Topic, MergeSnapshot(c, t)
  PROVE  IInv'
<1>1. PICK peer \in SUBSET (PeerMessages \cup Elements(arrived[t])) :
        call' = [call EXCEPT ![c] = [op |-> "merge", topic |-> t, peer |-> peer]]
  BY DEF MergeSnapshot
<1> DEFINE r == [op |-> "merge", topic |-> t, peer |-> peer]
<1>2. call[c].op = "idle"
  BY CallForms DEF MergeSnapshot
<1>3. r \in Call
  <2>1. arrived[t] \in Seq(Message)
    BY DEF IInv, Types
  <2>2. Elements(arrived[t]) \subseteq Message /\ IsFiniteSet(Elements(arrived[t]))
    BY <2>1, ElementsFacts
  <2>3. PeerMessages \subseteq Message /\ IsFiniteSet(PeerMessages)
    BY PeerAssumption DEF Message
  <2>4. peer \in SUBSET Message /\ IsFiniteSet(peer)
    BY <2>2, <2>3, FS_Union, FS_Subset
  <2> QED
    BY <2>4, CallForms
<1>4. Quiet(c, r) /\ topics' \subseteq Topic /\ UNCHANGED <<broker, lock, published>>
  BY <1>1, UnchangedOpen DEF MergeSnapshot, Quiet, locks, IInv, Types
<1>5. r.op = "merge" /\ call' = [call EXCEPT ![c] = r]
  BY <1>1
<1> HIDE DEF r
<1>6. Locked'
  BY <1>2, <1>4, <1>5 DEF IInv, Types, Locked
<1> QED
  BY <1>2, <1>3, <1>4, <1>5, <1>6, QuietKeepsIInv DEF IInv, Types

----------------------------------------------------------------------------
(* A new channel is open, and nobody's until the subscription is entered.  *)
LEMMA SubscribeKeepsIInv ==
  ASSUME IInv, NEW c \in Thread, NEW s \in Sub, NEW t \in Topic, NEW match \in Matches,
         Subscribe(c, s, t, match)
  PROVE  IInv'
<1>0. channels \in Seq(ChannelState) /\ Len(channels) \in Nat
  BY DEF IInv, Types
<1>2. PICK new \in Nat : new = Len(channels) + 1
  BY <1>0
<1> DEFINE r == [op |-> "subscribe", sub |-> s, topic |-> t, channel |-> new]
<1>1. /\ call[c].op = "idle" /\ call' = [call EXCEPT ![c] = r]
      /\ broker = Free /\ broker' = c /\ topics' = topics \cup {t}
      /\ channels' = Append(channels, [queue |-> <<>>, open |-> TRUE, match |-> match])
      /\ named' = [named EXCEPT ![s] = @ \cup {t}]
      /\ UNCHANGED <<lock, subscribers, registered, published, arrived>>
  BY <1>2, CallForms DEF Subscribe
<1>3. [queue |-> <<>>, open |-> TRUE, match |-> match] \in ChannelState
  BY DEF ChannelState
<1>4. /\ channels' \in Seq(ChannelState) /\ Len(channels') = Len(channels) + 1
      /\ \A ch \in 1 .. Len(channels) : channels'[ch] = channels[ch]
      /\ channels'[new].open = TRUE
  BY <1>0, <1>1, <1>2, <1>3
<1>5. (\A ch : Open(ch) => Open(ch)') /\ Open(new)'
  BY <1>0, <1>2, <1>4 DEF Open
<1>6. /\ call'[c] = r /\ r \in Call /\ \A d \in Thread \ {c} : call'[d] = call[d]
      /\ r.op = "subscribe" /\ r.channel = new /\ r.topic = t /\ r.sub = s
  BY <1>1, <1>2, CallForms DEF IInv, Types
<1> HIDE DEF r
<1>7. Types'
  BY <1>1, <1>4, <1>6 DEF IInv, Types
<1>8. Locked'
  BY <1>1, <1>6, LocksAssumption DEF IInv, Locked
<1>9. Connected'
  <2>1. \A u \in Topic, v \in Sub : subscribers[u][v] # new
    BY <1>0, <1>2 DEF IInv, Connected, Open
  <2>2. ASSUME NEW d \in Thread
        PROVE  /\ call'[d].op = "subscribe" =>
                    /\ Open(call[d].channel)' /\ call'[d].channel # 0
                    /\ \A u \in Topic, v \in Sub : subscribers[u][v] # call'[d].channel
               /\ call'[d].op \in {"deliver", "deadletter"} =>
                    \A ch \in call'[d].todo :
                      ch # 0 /\ \E v \in Sub : subscribers[call'[d].topic][v] = ch
    <3>1. CASE d = c
      <4>1. Open(call[d].channel)' <=> Open(new)'
        BY <1>6, <3>1
      <4> QED
        BY <1>0, <1>2, <1>5, <1>6, <2>1, <3>1, <4>1
    <3>2. CASE d # c
      BY <1>5, <1>6, <3>2 DEF IInv, Connected
    <3> QED
      BY <3>1, <3>2
  <2> QED
    BY <1>1, <1>5, <2>2 DEF IInv, Connected
<1>10. Made'
  BY <1>0, <1>1, <1>2, <1>4, <1>6 DEF IInv, Made
<1>11. Registered'
  <2>1. named'[s] = named[s] \cup {t} /\ \A v \in Sub \ {s} : named'[v] = named[v]
    BY <1>1 DEF IInv, Types
  <2>2. ASSUME NEW d \in Thread, call'[d].op \in {"subscribe", "unsubscribe"}
        PROVE  call'[d].topic \in named'[call'[d].sub]
    <3>1. CASE d = c
      BY <1>6, <2>1, <3>1
    <3>2. CASE d # c
      <4>1. call[d] \in Call /\ call'[d] = call[d]
        BY <1>6, <3>2 DEF IInv, Types
      <4>2. call[d].sub \in Sub /\ call[d].topic \in named[call[d].sub]
        BY <2>2, <4>1, CallFacts DEF IInv, Registered
      <4> QED
        BY <2>1, <4>1, <4>2
    <3> QED
      BY <3>1, <3>2
  <2>3. ASSUME NEW u \in Topic, NEW v \in Sub, named'[v] = {u}
        PROVE  \/ registered[v] = subscribers[u][v]
               \/ \E d \in Thread : call'[d].op \in {"subscribe", "unsubscribe"} /\ call'[d].sub = v
    <3>1. CASE v = s
      BY <1>6, <3>1
    <3>2. CASE v # s
      BY <1>1, <1>6, <2>1, <2>3, <3>2 DEF IInv, Registered
    <3> QED
      BY <3>1, <3>2
  <2> QED
    BY <1>1, <2>2, <2>3 DEF Registered
<1>12. DeliveredInOrder'
  BY <1>1, <1>6 DEF IInv, DeliveredInOrder
<1> QED
  BY <1>7, <1>8, <1>9, <1>10, <1>11, <1>12 DEF IInv

(* Whoever holds the broker's lock is the only one to subscribe or         *)
(* unsubscribe, and a topic whose lock is free has no publish under way.   *)
LEMMA Alone ==
  ASSUME IInv, NEW c \in Thread, call[c].op \in {"subscribe", "unsubscribe"},
         lock[call[c].topic] = Free, NEW d \in Thread
  PROVE  /\ broker = c
         /\ d # c => call[d].op \notin {"subscribe", "unsubscribe", "stats"}
         /\ call[d].op \in {"deliver", "deadletter"} =>
              call[d].topic \in Topic /\ call[d].topic # call[c].topic
<1>1. call[d] \in Call
  BY DEF IInv, Types
<1>2. call[d].op \in {"deliver", "deadletter"} => call[d].topic \in Topic
  BY <1>1, CallFacts
<1> QED
  BY <1>2, LocksAssumption DEF IInv, Locked

LEMMA SubscribedKeepsIInv ==
  ASSUME IInv, NEW c \in Thread, Subscribed(c)
  PROVE  IInv'
<1> DEFINE s == call[c].sub
           t == call[c].topic
           new == call[c].channel
<1>1. /\ call[c].op = "subscribe" /\ lock[t] = Free
      /\ subscribers' = [subscribers EXCEPT ![t][s] = new]
      /\ registered' = [registered EXCEPT ![s] = new]
      /\ broker' = Free /\ call' = [call EXCEPT ![c] = Idle]
      /\ UNCHANGED <<lock, topics, channels, published, arrived, named>>
  BY DEF Subscribed, Register
<1>2. call[c] \in Call /\ s \in Sub /\ t \in Topic /\ new \in Nat
  BY <1>1, CallFacts DEF IInv, Types
<1>3. /\ call'[c] = Idle /\ Idle.op = "idle" /\ Idle \in Call
      /\ \A d \in Thread \ {c} : call'[d] = call[d]
  BY <1>1, CallForms DEF IInv, Types
<1>4. /\ Open(new) /\ new # 0 /\ \A u \in Topic, v \in Sub : subscribers[u][v] # new
      /\ t \in named[s]
  BY <1>1 DEF IInv, Connected, Registered
<1>5. \A ch : Open(ch)' = Open(ch)
  BY <1>1 DEF Open
<1>6. /\ subscribers'[t][s] = new
      /\ \A u \in Topic, v \in Sub : (u # t \/ v # s) => subscribers'[u][v] = subscribers[u][v]
      /\ subscribers' \in [Topic -> [Sub -> Nat]]
      /\ registered'[s] = new /\ \A v \in Sub \ {s} : registered'[v] = registered[v]
      /\ registered' \in [Sub -> Nat]
  BY <1>1, <1>2 DEF IInv, Types
<1>7. \A d \in Thread :
        /\ d # c => call[d].op \notin {"subscribe", "unsubscribe", "stats"}
        /\ call[d].op \in {"deliver", "deadletter"} => call[d].topic \in Topic /\ call[d].topic # t
  BY <1>1, Alone
<1> HIDE DEF s, t, new
<1>8. Types'
  BY <1>1, <1>3, <1>6 DEF IInv, Types
<1>9. Locked'
  BY <1>1, <1>3, <1>7 DEF IInv, Locked
<1>10. Connected'
  <2>1. \A u \in Topic, v \in Sub : subscribers'[u][v] # 0 => Open(subscribers'[u][v])
    BY <1>4, <1>6 DEF IInv, Connected
  <2>2. \A u1, u2 \in Topic, v1, v2 \in Sub :
          subscribers'[u1][v1] = subscribers'[u2][v2] /\ subscribers'[u1][v1] # 0
            => u1 = u2 /\ v1 = v2
    BY <1>4, <1>6 DEF IInv, Connected
  <2>3. \A d \in Thread : call'[d].op # "subscribe"
    BY <1>3, <1>7
  <2>4. ASSUME NEW d \in Thread, call'[d].op \in {"deliver", "deadletter"}, NEW ch \in call'[d].todo
        PROVE  ch # 0 /\ \E v \in Sub : subscribers'[call'[d].topic][v] = ch
    <3>1. d # c /\ call'[d] = call[d] /\ call[d].topic \in Topic /\ call[d].topic # t
      BY <1>3, <1>7, <2>4
    <3>2. ch # 0 /\ \E v \in Sub : subscribers[call[d].topic][v] = ch
      BY <2>4, <3>1 DEF IInv, Connected
    <3> QED
      BY <1>6, <3>1, <3>2
  <2> QED
    BY <1>1, <1>5, <2>1, <2>2, <2>3, <2>4 DEF Connected, Open
<1>11. Made'
  BY <1>1, <1>3, <1>4, <1>6 DEF IInv, Made, Open
<1>12. Registered'
  <2>1. \A d \in Thread : call'[d].op \notin {"subscribe", "unsubscribe"}
    BY <1>3, <1>7
  <2>2. ASSUME NEW u \in Topic, NEW v \in Sub, named[v] = {u}
        PROVE  registered'[v] = subscribers'[u][v]
    <3>1. CASE v = s
      BY <1>4, <1>6, <2>2, <3>1
    <3>2. CASE v # s
      <4>1. registered[v] = subscribers[u][v]
        BY <1>7, <2>2, <3>2 DEF IInv, Registered, s
      <4> QED
        BY <1>6, <3>2, <4>1
    <3> QED
      BY <3>1, <3>2
  <2> QED
    BY <1>1, <2>1, <2>2 DEF Registered
<1>13. DeliveredInOrder'
  BY <1>1, <1>3 DEF IInv, DeliveredInOrder
<1> QED
  BY <1>8, <1>9, <1>10, <1>11, <1>12, <1>13 DEF IInv

----------------------------------------------------------------------------
LEMMA UnsubscribeKeepsIInv ==
  ASSUME IInv, NEW c \in Thread, NEW s \in Sub, NEW t \in Topic, Unsubscribe(c, s, t)
  PROVE  IInv'
<1> DEFINE r == [op |-> "unsubscribe", sub |-> s, topic |-> t]
<1>1. /\ call[c].op = "idle" /\ call' = [call EXCEPT ![c] = r]
      /\ broker = Free /\ broker' = c
      /\ named' = [named EXCEPT ![s] = @ \cup {t}]
      /\ UNCHANGED <<lock, topics, channels, subscribers, registered, published, arrived>>
  BY CallForms DEF Unsubscribe
<1>2. /\ call'[c] = r /\ r \in Call /\ \A d \in Thread \ {c} : call'[d] = call[d]
      /\ r.op = "unsubscribe" /\ r.topic = t /\ r.sub = s
  BY <1>1, CallForms DEF IInv, Types
<1> HIDE DEF r
<1>3. Types'
  BY <1>1, <1>2 DEF IInv, Types
<1>4. Locked'
  BY <1>1, <1>2, LocksAssumption DEF IInv, Locked
<1>5. \A ch : Open(ch)' = Open(ch)
  BY <1>1 DEF Open
<1>6. Connected'
  <2>1. ASSUME NEW d \in Thread
        PROVE  /\ call'[d].op = "subscribe" =>
                    /\ Open(call[d].channel) /\ call'[d].channel # 0
                    /\ call'[d].channel = call[d].channel
                    /\ \A u \in Topic, v \in Sub : subscribers[u][v] # call'[d].channel
               /\ call'[d].op \in {"deliver", "deadletter"} =>
                    \A ch \in call'[d].todo :
                      ch # 0 /\ \E v \in Sub : subscribers[call'[d].topic][v] = ch
    <3>1. CASE d = c
      BY <1>2, <3>1
    <3>2. CASE d # c
      BY <1>2, <3>2 DEF IInv, Connected
    <3> QED
      BY <3>1, <3>2
  <2> QED
    BY <1>1, <1>5, <2>1 DEF IInv, Connected
<1>7. Made'
  BY <1>1, <1>2 DEF IInv, Made
<1>8. Registered'
  <2>1. named'[s] = named[s] \cup {t} /\ \A v \in Sub \ {s} : named'[v] = named[v]
    BY <1>1 DEF IInv, Types
  <2>2. ASSUME NEW d \in Thread, call'[d].op \in {"subscribe", "unsubscribe"}
        PROVE  call'[d].topic \in named'[call'[d].sub]
    <3>1. CASE d = c
      BY <1>2, <2>1, <3>1
    <3>2. CASE d # c
      <4>1. call[d] \in Call /\ call'[d] = call[d]
        BY <1>2, <3>2 DEF IInv, Types
      <4>2. call[d].sub \in Sub /\ call[d].topic \in named[call[d].sub]
        BY <2>2, <4>1, CallFacts DEF IInv, Registered
      <4> QED
        BY <2>1, <4>1, <4>2
    <3> QED
      BY <3>1, <3>2
  <2>3. ASSUME NEW u \in Topic, NEW v \in Sub, named'[v] = {u}
        PROVE  \/ registered[v] = subscribers[u][v]
               \/ \E d \in Thread : call'[d].op \in {"subscribe", "unsubscribe"} /\ call'[d].sub = v
    <3>1. CASE v = s
      BY <1>2, <3>1
    <3>2. CASE v # s
      BY <1>1, <1>2, <2>1, <2>3, <3>2 DEF IInv, Registered
    <3> QED
      BY <3>1, <3>2
  <2> QED
    BY <1>1, <2>2, <2>3 DEF Registered
<1>9. DeliveredInOrder'
  BY <1>1, <1>2 DEF IInv, DeliveredInOrder
<1> QED
  BY <1>3, <1>4, <1>6, <1>7, <1>8, <1>9 DEF IInv

(* The channel that is closed belongs to a topic whose lock is free: no    *)
(* publish is going to send on it.                                         *)
LEMMA UnsubscribedKeepsIInv ==
  ASSUME IInv, NEW c \in Thread, Unsubscribed(c)
  PROVE  IInv'
<1>1. PICK s, t, old : s = call[c].sub /\ t = call[c].topic /\ old = subscribers[t][s]
  OBVIOUS
<1>2. /\ call[c].op = "unsubscribe" /\ lock[t] = Free
      /\ channels' = IF old = 0 THEN channels ELSE [channels EXCEPT ![old].open = FALSE]
      /\ subscribers' = [subscribers EXCEPT ![t][s] = 0]
      /\ registered' = [registered EXCEPT ![s] = 0]
      /\ broker' = Free /\ call' = [call EXCEPT ![c] = Idle]
      /\ UNCHANGED <<lock, topics, published, arrived, named>>
  BY <1>1 DEF Unsubscribed, Forget
<1>3. s \in Sub /\ t \in Topic /\ old \in Nat
  <2>1. call[c] \in Call /\ subscribers \in [Topic -> [Sub -> Nat]]
    BY DEF IInv, Types
  <2>2. call[c].sub \in Sub /\ call[c].topic \in Topic
    BY <1>2, <2>1, CallFacts
  <2> QED
    BY <1>1, <2>1, <2>2
<1>4. /\ call'[c] = Idle /\ Idle.op = "idle" /\ Idle \in Call
      /\ \A d \in Thread \ {c} : call'[d] = call[d]
  BY <1>2, CallForms DEF IInv, Types
<1>5. channels \in Seq(ChannelState) /\ (old # 0 => old \in 1 .. Len(channels))
  BY <1>1, <1>3 DEF IInv, Types, Connected, Open
<1>6. /\ channels' \in Seq(ChannelState) /\ Len(channels') = Len(channels)
      /\ \A ch \in 1 .. Len(channels) : ch # old => channels'[ch] = channels[ch]
  <2>1. CASE old = 0
    BY <1>2, <1>5, <2>1
  <2>2. CASE old # 0
    <3>1. channels[old] \in ChannelState
      BY <1>5, <2>2
    <3>2. [channels[old] EXCEPT !.open = FALSE] \in ChannelState
      BY <3>1 DEF ChannelState
    <3>3. channels' = [channels EXCEPT ![old] = [channels[old] EXCEPT !.open = FALSE]]
      BY <1>2, <2>2
    <3> QED
      BY <1>5, <2>2, <3>2, <3>3
  <2> QED
    BY <2>1, <2>2
<1>7. \A ch : Open(ch) /\ ch # old => Open(ch)'
  BY <1>6 DEF Open
<1>8. /\ subscribers'[t][s] = 0
      /\ \A u \in Topic, v \in Sub : (u # t \/ v # s) => subscribers'[u][v] = subscribers[u][v]
      /\ subscribers' \in [Topic -> [Sub -> Nat]]
      /\ registered'[s] = 0 /\ \A v \in Sub \ {s} : registered'[v] = registered[v]
      /\ registered' \in [Sub -> Nat]
  BY <1>2, <1>3 DEF IInv, Types
<1>9. \A d \in Thread :
        /\ d # c => call[d].op \notin {"subscribe", "unsubscribe", "stats"}
        /\ call[d].op \in {"deliver", "deadletter"} => call[d].topic \in Topic /\ call[d].topic # t
  BY <1>1, <1>2, Alone
<1>10. Types'
  BY <1>2, <1>4, <1>6, <1>8 DEF IInv, Types
<1>11. Locked'
  BY <1>2, <1>4, <1>9 DEF IInv, Locked
<1>12. Connected'
  <2>1. ASSUME NEW u \in Topic, NEW v \in Sub, subscribers'[u][v] # 0
        PROVE  Open(subscribers[u][v])' /\ subscribers'[u][v] = subscribers[u][v]
    <3>1. (u # t \/ v # s) /\ subscribers'[u][v] = subscribers[u][v]
      BY <1>8, <2>1
    <3>2. subscribers[u][v] # old
      BY <1>1, <1>3, <2>1, <3>1 DEF IInv, Connected
    <3>3. Open(subscribers[u][v])
      BY <2>1, <3>1 DEF IInv, Connected
    <3>4. PICK ch : ch = subscribers[u][v]
      OBVIOUS
    <3>5. Open(ch)' /\ ch = subscribers'[u][v]
      BY <1>7, <3>1, <3>2, <3>3, <3>4
    <3> QED
      BY <3>1, <3>5
  <2>2. \A u1, u2 \in Topic, v1, v2 \in Sub :
          subscribers'[u1][v1] = subscribers'[u2][v2] /\ subscribers'[u1][v1] # 0
            => u1 = u2 /\ v1 = v2
    BY <1>8 DEF IInv, Connected
  <2>3. \A d \in Thread : call'[d].op # "subscribe"
    BY <1>2, <1>4, <1>9
  <2>4. ASSUME NEW d \in Thread, call'[d].op \in {"deliver", "deadletter"}, NEW ch \in call'[d].todo
        PROVE  ch # 0 /\ \E v \in Sub : subscribers'[call'[d].topic][v] = ch
    <3>1. d # c /\ call'[d] = call[d] /\ call[d].topic \in Topic /\ call[d].topic # t
      BY <1>4, <1>9, <2>4
    <3>2. ch # 0 /\ \E v \in Sub : subscribers[call[d].topic][v] = ch
      BY <2>4, <3>1 DEF IInv, Connected
    <3> QED
      BY <1>8, <3>1, <3>2
  <2> QED
    BY <2>1, <2>2, <2>3, <2>4 DEF Connected
<1>13. Made'
  <2>1. Len(channels) \in Nat /\ 0 \in 0 .. Len(channels)
    BY <1>5
  <2>2. \A v \in Sub : registered'[v] \in 0 .. Len(channels)
    BY <1>8, <2>1 DEF IInv, Made
  <2>3. \A d \in Thread : call'[d].op = "poll" => call'[d].channel \in 1 .. Len(channels)
    BY <1>4 DEF IInv, Made
  <2> QED
    BY <1>6, <2>2, <2>3 DEF Made
<1>14. Registered'
  <2>1. \A d \in Thread : call'[d].op \notin {"subscribe", "unsubscribe"}
    BY <1>4, <1>9
  <2>2. ASSUME NEW u \in Topic, NEW v \in Sub, named[v] = {u}
        PROVE  registered'[v] = subscribers'[u][v]
    <3>1. CASE v = s
      <4>1. u = t
        BY <1>1, <1>2, <2>2, <3>1 DEF IInv, Registered
      <4> QED
        BY <1>8, <3>1, <4>1
    <3>2. CASE v # s
      <4>1. registered[v] = subscribers[u][v]
        BY <1>1, <1>9, <2>2, <3>2 DEF IInv, Registered
      <4> QED
        BY <1>8, <3>2, <4>1
    <3> QED
      BY <3>1, <3>2
  <2> QED
    BY <1>2, <2>1, <2>2 DEF Registered
<1>15. DeliveredInOrder'
  BY <1>2, <1>4 DEF IInv, DeliveredInOrder
<1> QED
  BY <1>10, <1>11, <1>12, <1>13, <1>14, <1>15 DEF IInv

----------------------------------------------------------------------------
(* What a topic's lock protects: its history, and who is sent a message.   *)
LEMMA RecordedKeepsIInv ==
  ASSUME IInv, NEW c \in Thread, Recorded(c)
  PROVE  IInv'
<1>1. PICK t, m : t = call[c].topic /\ m = call[c].msg
  OBVIOUS
<1> DEFINE r == [op |-> "deliver", topic |-> t, msg |-> m, todo |-> Receivers(t)]
<1>2. /\ call[c].op = "publish" /\ lock[t] = Free
      /\ lock' = [lock EXCEPT ![t] = c] /\ call' = [call EXCEPT ![c] = r]
      /\ arrived' = [arrived EXCEPT ![t] = Append(@, m)]
      /\ UNCHANGED <<broker, topics, channels, subscribers, registered, published, named>>
  BY <1>1 DEF Recorded, Record
<1>3. t \in Topic /\ m \in Message
  BY <1>1, <1>2, CallFacts DEF IInv, Types
<1>4. \A ch \in Receivers(t) : ch # 0 /\ \E v \in Sub : subscribers[t][v] = ch
  BY DEF Receivers
<1>5. Receivers(t) \in SUBSET Nat
  BY <1>3, <1>4 DEF IInv, Types
<1>6. /\ call'[c] = r /\ r \in Call /\ \A d \in Thread \ {c} : call'[d] = call[d]
      /\ r.op = "deliver" /\ r.topic = t /\ r.msg = m /\ r.todo = Receivers(t)
  BY <1>2, <1>3, <1>5, CallForms DEF IInv, Types
<1> HIDE DEF r
<1>7. /\ arrived'[t] = Append(arrived[t], m) /\ arrived[t] \in Seq(Message)
      /\ \A u \in Topic \ {t} : arrived'[u] = arrived[u]
      /\ lock'[t] = c /\ \A u \in Topic \ {t} : lock'[u] = lock[u]
  BY <1>2, <1>3 DEF IInv, Types
<1>8. \A d \in Thread : call[d].op \in {"deliver", "deadletter"} =>
        call[d].topic \in Topic \ {t} /\ lock[call[d].topic] = d
  BY <1>2, LocksAssumption, CallFacts DEF IInv, Types, Locked
<1>9. Types'
  <2>1. Append(arrived[t], m) \in Seq(Message)
    BY <1>3, <1>7
  <2>2. arrived' \in [Topic -> Seq(Message)]
    BY <1>2, <1>3, <2>1 DEF IInv, Types
  <2>3. lock' \in [Topic -> Thread \cup {Free}]
    BY <1>2 DEF IInv, Types
  <2> QED
    BY <1>2, <1>6, <2>2, <2>3 DEF IInv, Types
<1>10. Locked'
  BY <1>2, <1>6, <1>7, <1>8 DEF IInv, Locked
<1>11. Connected'
  <2>1. \A ch : Open(ch)' = Open(ch)
    BY <1>2 DEF Open
  <2>2. ASSUME NEW d \in Thread
        PROVE  /\ call'[d].op = "subscribe" =>
                    /\ Open(call[d].channel) /\ call'[d].channel # 0
                    /\ call'[d].channel = call[d].channel
                    /\ \A u \in Topic, v \in Sub : subscribers[u][v] # call'[d].channel
               /\ call'[d].op \in {"deliver", "deadletter"} =>
                    \A ch \in call'[d].todo :
                      ch # 0 /\ \E v \in Sub : subscribers[call'[d].topic][v] = ch
    <3>1. CASE d = c
      BY <1>4, <1>6, <3>1
    <3>2. CASE d # c
      BY <1>6, <3>2 DEF IInv, Connected
    <3> QED
      BY <3>1, <3>2
  <2> QED
    BY <1>2, <2>1, <2>2 DEF IInv, Connected
<1>12. Made'
  BY <1>2, <1>6 DEF IInv, Made
<1>13. Registered'
  BY <1>2, <1>6 DEF IInv, Registered
<1>14. DeliveredInOrder'
  <2> SUFFICES ASSUME NEW d \in Thread, call'[d].op \in {"deliver", "deadletter"}
               PROVE  LET known == arrived'[call'[d].topic]
                      IN  known # <<>> /\ known[Len(known)] = call'[d].msg
    BY DEF DeliveredInOrder
  <2>1. CASE d = c
    BY <1>3, <1>6, <1>7, <2>1
  <2>2. CASE d # c
    <3>1. call'[d] = call[d] /\ arrived'[call[d].topic] = arrived[call[d].topic]
      BY <1>6, <1>7, <1>8, <2>2
    <3> QED
      BY <3>1 DEF IInv, DeliveredInOrder
  <2> QED
    BY <2>1, <2>2
<1> QED
  BY <1>9, <1>10, <1>11, <1>12, <1>13, <1>14 DEF IInv

LEMMA MergedKeepsIInv ==
  ASSUME IInv, NEW c \in Thread, Merged(c)
  PROVE  IInv'
<1>1. PICK t : t = call[c].topic
  OBVIOUS
<1>2. /\ call[c].op = "merge" /\ lock[t] = Free /\ call' = [call EXCEPT ![c] = Idle]
      /\ \E new \in SortedByTimestamp(call[c].peer \ Elements(arrived[t])) :
           arrived' = [arrived EXCEPT ![t] = @ \o new]
      /\ UNCHANGED <<broker, lock, topics, channels, subscribers, registered, published, named>>
  BY <1>1 DEF Merged, Merge, locks
<1>3. PICK new \in SortedByTimestamp(call[c].peer \ Elements(arrived[t])) :
        arrived' = [arrived EXCEPT ![t] = @ \o new]
  BY <1>2
<1>4. t \in Topic /\ call[c].peer \in SUBSET Message /\ IsFiniteSet(call[c].peer)
  BY <1>1, <1>2, CallFacts DEF IInv, Types
<1>5. new \in Seq(Message)
  <2> DEFINE S == call[c].peer \ Elements(arrived[t])
  <2>1. IsFiniteSet(S) /\ Cardinality(S) \in Nat /\ S \subseteq Message
    BY <1>4, FS_Subset, FS_CardinalityType
  <2>2. new \in [1 .. Cardinality(S) -> S]
    BY DEF SortedByTimestamp
  <2> HIDE DEF S
  <2>3. new \in [1 .. Cardinality(S) -> Message]
    BY <2>1, <2>2
  <2> QED
    BY <2>1, <2>3
<1>6. /\ call'[c] = Idle /\ Idle.op = "idle" /\ Idle \in Call
      /\ \A d \in Thread \ {c} : call'[d] = call[d]
  BY <1>2, CallForms DEF IInv, Types
<1>7. Types'
  <2>1. arrived[t] \o new \in Seq(Message)
    BY <1>4, <1>5 DEF IInv, Types
  <2>2. arrived' \in [Topic -> Seq(Message)]
    BY <1>3, <1>4, <2>1 DEF IInv, Types
  <2> QED
    BY <1>2, <1>6, <2>2 DEF IInv, Types
<1>8. Locked'
  BY <1>2, <1>6 DEF IInv, Locked
<1>9. Connected'
  <2>1. \A ch : Open(ch)' = Open(ch)
    BY <1>2 DEF Open
  <2>2. ASSUME NEW d \in Thread, call'[d].op # "idle"
        PROVE  call'[d] = call[d]
    BY <1>6, <2>2
  <2> QED
    BY <1>2, <2>1, <2>2 DEF IInv, Connected
<1>10. Made'
  BY <1>2, <1>6 DEF IInv, Made
<1>11. Registered'
  BY <1>2, <1>6 DEF IInv, Registered
<1>12. DeliveredInOrder'
  <2> SUFFICES ASSUME NEW d \in Thread, call'[d].op \in {"deliver", "deadletter"}
               PROVE  LET known == arrived'[call'[d].topic]
                      IN  known # <<>> /\ known[Len(known)] = call'[d].msg
    BY DEF DeliveredInOrder
  <2>1. d # c /\ call'[d] = call[d]
    BY <1>6
  <2>2. call[d].topic \in Topic /\ lock[call[d].topic] = d
    BY <2>1, CallFacts DEF IInv, Types, Locked
  <2>3. arrived'[call[d].topic] = arrived[call[d].topic]
    BY <1>2, <1>3, <2>2, LocksAssumption DEF IInv, Types
  <2> QED
    BY <2>1, <2>3 DEF IInv, DeliveredInOrder
<1> QED
  BY <1>7, <1>8, <1>9, <1>10, <1>11, <1>12 DEF IInv

(* A step that changes at most the set of topics.                          *)
LEMMA StutterKeepsIInv ==
  ASSUME IInv, topics' \subseteq Topic,
         UNCHANGED <<locks, call, subscribers, registered, channels, published, arrived, named>>
  PROVE  IInv'
<1>1. Types' /\ Locked'
  BY DEF IInv, Types, Locked, locks
<1>2. Connected'
  BY DEF IInv, Connected, Open
<1>3. Made' /\ Registered' /\ DeliveredInOrder'
  BY DEF IInv, Made, Registered, DeliveredInOrder
<1> QED
  BY <1>1, <1>2, <1>3 DEF IInv

LEMMA NextKeepsIInv == IInv /\ [Next]_vars => IInv'
<1> SUFFICES ASSUME IInv, [Next]_vars
             PROVE  IInv'
  OBVIOUS
<1>1. ASSUME NEW c \in Thread, NEW t \in Topic, NEW s \in Sub, NEW match \in Matches,
             Subscribe(c, s, t, match)
      PROVE  IInv'
  BY <1>1, SubscribeKeepsIInv
<1>2. ASSUME NEW c \in Thread, NEW t \in Topic, NEW s \in Sub, Unsubscribe(c, s, t)
      PROVE  IInv'
  BY <1>2, UnsubscribeKeepsIInv
<1>3. ASSUME NEW c \in Thread, NEW t \in Topic, Publish(c, t) \/ MergeSnapshot(c, t)
      PROVE  IInv'
  BY <1>3, PublishKeepsIInv, MergeSnapshotKeepsIInv
<1>4. ASSUME NEW c \in Thread, NEW ch \in DOMAIN channels, DeliverTo(c, ch) \/ ChannelFull(c, ch)
      PROVE  IInv'
  BY <1>4, DeliverToKeepsIInv, ChannelFullKeepsIInv
<1>5. ASSUME NEW c \in Thread, NEW s \in Sub, Poll(c, s)
      PROVE  IInv'
  BY <1>5, PollKeepsIInv
<1>6. ASSUME NEW c \in Thread, Subscribed(c) \/ Unsubscribed(c)
      PROVE  IInv'
  BY <1>6, SubscribedKeepsIInv, UnsubscribedKeepsIInv
<1>7. ASSUME NEW c \in Thread, Recorded(c) \/ addToDeadLetterQueue(c) \/ Published(c)
      PROVE  IInv'
  BY <1>7, RecordedKeepsIInv, DeadLetterKeepsIInv, PublishedKeepsIInv
<1>8. ASSUME NEW c \in Thread, Receive(c) \/ Polled(c)
      PROVE  IInv'
  BY <1>8, ReceiveKeepsIInv, PolledKeepsIInv
<1>9. ASSUME NEW c \in Thread, GetStats(c) \/ CountTopic(c) \/ Counted(c)
      PROVE  IInv'
  BY <1>9, GetStatsKeepsIInv, CountTopicKeepsIInv, CountedKeepsIInv
<1>10. ASSUME NEW c \in Thread, Merged(c)
       PROVE  IInv'
  BY <1>10, MergedKeepsIInv
<1>11. ASSUME NEW t \in Topic, SubscribeInvalidPattern(t)
       PROVE  IInv'
  <2>1. topics' \subseteq Topic
    BY <1>11 DEF SubscribeInvalidPattern, IInv, Types
  <2> QED
    BY <1>11, <2>1, StutterKeepsIInv DEF SubscribeInvalidPattern
<1>12. CASE UNCHANGED vars
  BY <1>12, StutterKeepsIInv DEF vars, IInv, Types
<1> QED
  BY <1>1, <1>2, <1>3, <1>4, <1>5, <1>6, <1>7, <1>8, <1>9, <1>10, <1>11, <1>12 DEF Next

(* The strengthened invariant holds in every reachable state.              *)
THEOREM Invariance == Spec => []IInv
BY InitIInv, NextKeepsIInv, PTL DEF Spec

(* No publish ever sends on a closed channel, which would panic, whatever  *)
(* number of goroutines subscribe, unsubscribe and publish.                *)
THEOREM ClosedIsForgottenHolds == Spec => []ClosedIsForgotten
<1>1. IInv => ClosedIsForgotten
  <2> SUFFICES ASSUME IInv
               PROVE  ClosedIsForgotten
    OBVIOUS
  <2>1. \A t \in Topic, s \in Sub : subscribers[t][s] # 0 => channels[subscribers[t][s]].open
    BY DEF IInv, Connected, Open
  <2>2. ASSUME NEW c \in Thread, call[c].op = "deliver", NEW ch \in call[c].todo
        PROVE  channels[ch].open
    <3>1. call[c].topic \in Topic
      BY <2>2, CallFacts DEF IInv, Types
    <3> QED
      BY <2>1, <2>2, <3>1 DEF IInv, Connected
  <2> QED
    BY <2>1, <2>2 DEF ClosedIsForgotten
<1> QED
  BY <1>1, Invariance, PTL

(* A subscriber of one topic polls the channel that topic delivers to.     *)
THEOREM PollableHolds == Spec => []Pollable
<1>1. IInv => Pollable
  BY LocksAssumption DEF IInv, Locked, Registered, Pollable
<1> QED
  BY <1>1, Invariance, PTL

(* Messages reach the channels in the order their topic recorded them.     *)
THEOREM DeliveredInOrderHolds == Spec => []DeliveredInOrder
<1>1. IInv => DeliveredInOrder
  BY DEF IInv
<1> QED
  BY <1>1, Invariance, PTL

----------------------------------------------------------------------------
(* y came to the topic after x, or carries a stamp that is no older.       *)
After(list, x, y) ==
  \A i, j \in DOMAIN list : list[i] = x /\ list[j] = y => j > i \/ y.ts >= x.ts

(* What a topic may keep in place of the message it came to know i-th.     *)
Later(list, i) == {j \in DOMAIN list \ {i} : j > i \/ list[j].ts >= list[i].ts}

(* A history of the messages a topic came to know: in an order that trims  *)
(* the right ones.                                                         *)
InTurn(history, list) ==
  \A k, l \in DOMAIN history :
    k < l => history[k] # history[l] /\ After(list, history[k], history[l])

Kept(history, list) ==
  /\ history \in Seq(Message)
  /\ Elements(history) \subseteq Elements(list)
  /\ InTurn(history, list)
  /\ \A i \in DOMAIN list :
       list[i] \in Elements(history) \/ Cardinality(Later(list, i)) >= maxHistory

(* What Last leaves out is at the front.                                   *)
LEMMA LastFacts ==
  ASSUME NEW list \in Seq(Message), NEW n \in Nat
  PROVE  LET out == Last(list, n)
         IN  /\ out \in Seq(Message)
             /\ \E b \in Nat :
                  /\ Len(out) + b = Len(list)
                  /\ b # 0 => Len(out) = n
                  /\ \A k \in 1 .. Len(out) : out[k] = list[k + b]
<1>1. CASE Len(list) <= n
  <2>1. Last(list, n) = list
    BY <1>1 DEF Last
  <2>2. \A k \in 1 .. Len(list) : list[k] = list[k + 0]
    OBVIOUS
  <2> QED
    BY <2>1, <2>2
<1>2. CASE Len(list) > n
  <2>1. PICK b \in Nat : Len(list) = n + b /\ b # 0
    BY <1>2
  <2>2. Last(list, n) = SubSeq(list, b + 1, Len(list))
    BY <1>2, <2>1 DEF Last
  <2>3. /\ SubSeq(list, b + 1, Len(list)) \in Seq(Message)
        /\ Len(SubSeq(list, b + 1, Len(list))) = n
        /\ \A k \in 1 .. n : SubSeq(list, b + 1, Len(list))[k] = list[k + b]
    <3> DEFINE m == Len(list)
               s == SubSeq(list, b + 1, m)
    <3>1. b + 1 \in Nat \ {0} /\ m \in Nat /\ m = n + b /\ m - (b + 1) + 1 = n
      BY <2>1
    <3>2. \A k \in b + 1 .. m : list[k] \in Message
      BY <3>1
    <3>3. \A k \in 1 .. n : (b + 1) + k - 1 = k + b
      BY <3>1
    <3>4. s \in Seq(Message) /\ Len(s) = n /\ \A k \in 1 .. n : s[k] = list[(b + 1) + k - 1]
      BY <3>1, <3>2
    <3> HIDE DEF s
    <3>5. \A k \in 1 .. n : s[k] = list[k + b]
      BY <3>3, <3>4
    <3> QED
      BY <3>4, <3>5 DEF s
  <2> QED
    BY <2>1, <2>2, <2>3
<1> QED
  BY <1>1, <1>2

(* Distinct messages that a topic got later, or with a later stamp, count. *)
LEMMA LaterFacts ==
  ASSUME NEW list \in Seq(Message), NEW i \in DOMAIN list, NEW out \in Seq(Message),
         \A k, l \in DOMAIN out : k < l => out[k] # out[l],
         \A k \in DOMAIN out :
           \E j \in DOMAIN list : list[j] = out[k] /\ j # i /\ (j > i \/ out[k].ts >= list[i].ts)
  PROVE  IsFiniteSet(Later(list, i)) /\ Cardinality(Later(list, i)) >= Len(out)
<1> DEFINE f == [k \in DOMAIN out |-> CHOOSE j \in Later(list, i) : list[j] = out[k]]
<1>1. DOMAIN list = 1 .. Len(list) /\ DOMAIN out = 1 .. Len(out) /\ Len(list) \in Nat /\ Len(out) \in Nat
  OBVIOUS
<1>2. IsFiniteSet(Later(list, i))
  <2>1. IsFiniteSet(1 .. Len(list))
    BY <1>1, FS_Interval
  <2>2. Later(list, i) \subseteq 1 .. Len(list)
    BY <1>1 DEF Later
  <2> QED
    BY <2>1, <2>2, FS_Subset
<1>3. \A k \in DOMAIN out : \E j \in Later(list, i) : list[j] = out[k]
  BY DEF Later
<1>4. \A k \in DOMAIN out : f[k] \in Later(list, i) /\ list[f[k]] = out[k]
  BY <1>3
<1>5. f \in [DOMAIN out -> Later(list, i)]
  BY <1>4
<1> HIDE DEF f
<1>6. \A k, l \in DOMAIN out : f[k] = f[l] => k = l
  BY <1>1, <1>4
<1>7. f \in Injection(DOMAIN out, Later(list, i))
  BY <1>5, <1>6 DEF Injection, IsInjective
<1>8. Cardinality(DOMAIN out) <= Cardinality(Later(list, i))
  BY <1>2, <1>7, FS_Injection
<1>9. Cardinality(DOMAIN out) = Len(out)
  <2>1. 1 \in Int /\ Len(out) \in Int
    BY <1>1
  <2>2. Cardinality(1 .. Len(out)) = IF 1 > Len(out) THEN 0 ELSE Len(out) - 1 + 1
    BY <2>1, FS_Interval
  <2> QED
    BY <1>1, <2>2
<1>10. Cardinality(Later(list, i)) \in Nat
  BY <1>2, FS_CardinalityType
<1> QED
  BY <1>1, <1>2, <1>8, <1>9, <1>10

(* What comes later only adds to them.                                     *)
LEMMA LaterGrows ==
  ASSUME NEW list \in Seq(Message), NEW new \in Seq(Message), NEW i \in DOMAIN list
  PROVE  Cardinality(Later(list \o new, i)) >= Cardinality(Later(list, i))
<1>1. /\ list \o new \in Seq(Message) /\ DOMAIN (list \o new) = 1 .. Len(list \o new)
      /\ DOMAIN list \subseteq DOMAIN (list \o new) /\ Len(list \o new) \in Nat
      /\ \A j \in DOMAIN list : (list \o new)[j] = list[j]
  OBVIOUS
<1>2. Later(list, i) \subseteq Later(list \o new, i)
  BY <1>1 DEF Later
<1>3. IsFiniteSet(Later(list \o new, i))
  <2>1. IsFiniteSet(1 .. Len(list \o new))
    BY <1>1, FS_Interval
  <2>2. Later(list \o new, i) \subseteq 1 .. Len(list \o new)
    BY <1>1 DEF Later
  <2> QED
    BY <2>1, <2>2, FS_Subset
<1>4. /\ Cardinality(Later(list, i)) \in Nat /\ Cardinality(Later(list \o new, i)) \in Nat
      /\ Cardinality(Later(list, i)) <= Cardinality(Later(list \o new, i))
  BY <1>2, <1>3, FS_Subset, FS_CardinalityType
<1> QED
  BY <1>4

(* Trimming keeps what it should, of any list of the history and all that  *)
(* is new that has its messages in turn.                                   *)
LEMMA TrimKeeps ==
  ASSUME NEW history, NEW list \in Seq(Message), Kept(history, list),
         NEW new \in Seq(Message), NEW whole \in Seq(Message),
         Elements(history) \subseteq Elements(whole), Elements(new) \subseteq Elements(whole),
         Elements(whole) \subseteq Elements(list \o new), InTurn(whole, list \o new)
  PROVE  Kept(Last(whole, maxHistory), list \o new)
<1> DEFINE all == list \o new
           out == Last(whole, maxHistory)
<1>1. maxHistory \in Nat
  BY BoundsAssumption
<1>2. /\ all \in Seq(Message) /\ DOMAIN all = 1 .. Len(all)
      /\ DOMAIN list = 1 .. Len(list) /\ Len(list) \in Nat /\ Len(new) \in Nat /\ Len(all) = Len(list) + Len(new)
      /\ \A i \in DOMAIN list : i \in DOMAIN all /\ all[i] = list[i]
      /\ \A i \in DOMAIN all \ DOMAIN list : all[i] \in Elements(new)
  BY DEF Elements
<1>3. out \in Seq(Message)
  BY <1>1, LastFacts
<1>4. PICK b \in Nat :
        /\ Len(out) + b = Len(whole)
        /\ b # 0 => Len(out) = maxHistory
        /\ \A k \in 1 .. Len(out) : out[k] = whole[k + b]
  BY <1>1, LastFacts
<1> HIDE DEF out, all
<1>5. /\ DOMAIN out = 1 .. Len(out) /\ DOMAIN whole = 1 .. Len(whole)
      /\ Len(out) \in Nat /\ Len(whole) \in Nat
      /\ \A k \in DOMAIN out : k + b \in DOMAIN whole /\ out[k] = whole[k + b]
  <2>1. /\ DOMAIN out = 1 .. Len(out) /\ DOMAIN whole = 1 .. Len(whole)
        /\ Len(out) \in Nat /\ Len(whole) \in Nat
    BY <1>3
  <2> QED
    BY <1>4, <2>1
<1>6. Elements(out) \subseteq Elements(all)
  BY <1>5 DEF Elements, all
<1>7. InTurn(out, all)
  BY <1>5 DEF InTurn, all
<1>8. ASSUME NEW i \in DOMAIN all, all[i] \notin Elements(out), all[i] \in Elements(whole)
      PROVE  Cardinality(Later(all, i)) >= maxHistory
  <2>1. PICK k \in DOMAIN whole : whole[k] = all[i]
    BY <1>8 DEF Elements
  <2>2. k <= b
    <3>1. SUFFICES ASSUME k > b
                   PROVE  FALSE
      BY <1>4, <1>5
    <3>2. k - b \in DOMAIN out /\ out[k - b] = whole[k]
      BY <1>4, <1>5, <3>1
    <3> QED
      BY <1>8, <2>1, <3>2 DEF Elements
  <2>3. b # 0 /\ Len(out) = maxHistory
    BY <1>4, <1>5, <2>2
  <2>4. ASSUME NEW l \in DOMAIN out
        PROVE  \E j \in DOMAIN all : all[j] = out[l] /\ j # i /\ (j > i \/ out[l].ts >= all[i].ts)
    <3>1. l + b \in DOMAIN whole /\ k < l + b /\ out[l] = whole[l + b]
      BY <1>4, <1>5, <2>2
    <3>2. whole[k] # whole[l + b] /\ After(all, whole[k], whole[l + b])
      BY <3>1 DEF InTurn, all
    <3>3. PICK j \in DOMAIN all : all[j] = whole[l + b]
      BY <3>1 DEF Elements, all
    <3> QED
      BY <2>1, <3>1, <3>2, <3>3 DEF After
  <2>5. \A l, m \in DOMAIN out : l < m => out[l] # out[m]
    BY <1>7 DEF InTurn
  <2>6. Cardinality(Later(all, i)) >= Len(out)
    BY <1>2, <1>3, <2>4, <2>5, LaterFacts DEF all
  <2> QED
    BY <2>3, <2>6
<1>9. ASSUME NEW i \in DOMAIN all, all[i] \notin Elements(out)
      PROVE  Cardinality(Later(all, i)) >= maxHistory
  <2>1. CASE all[i] \in Elements(whole)
    BY <1>8, <1>9, <2>1
  <2>2. CASE all[i] \notin Elements(whole)
    <3>1. i \in DOMAIN list /\ list[i] \notin Elements(history)
      BY <1>2, <2>2
    <3>2. Cardinality(Later(list, i)) >= maxHistory
      BY <3>1 DEF Kept
    <3>3. Cardinality(Later(all, i)) >= Cardinality(Later(list, i))
      BY <3>1, LaterGrows DEF all
    <3>4. Cardinality(Later(list, i)) \in Nat /\ Cardinality(Later(all, i)) \in Nat
      <4>1. IsFiniteSet(1 .. Len(list)) /\ IsFiniteSet(1 .. Len(all))
        BY <1>2, FS_Interval
      <4>2. Later(list, i) \subseteq 1 .. Len(list) /\ Later(all, i) \subseteq 1 .. Len(all)
        BY <1>2 DEF Later
      <4> QED
        BY <4>1, <4>2, FS_Subset, FS_CardinalityType
    <3> QED
      BY <1>1, <3>2, <3>3, <3>4
  <2> QED
    BY <2>1, <2>2
<1>10. Kept(out, all)
  BY <1>3, <1>6, <1>7, <1>9 DEF Kept
<1> QED
  BY <1>10 DEF out, all

(* Every topic keeps such a history of what it came to know.               *)
Histories ==
  /\ messages \in [Topic -> Seq(Message)]
  /\ \A t \in Topic : Kept(messages[t], arrived[t])

(* A message about to be recorded is new everywhere; a peer's messages are *)
(* its own or came from here.                                              *)
Unrecorded ==
  /\ published <= MaxPublishes
  /\ \A t \in Topic : \A m \in Elements(arrived[t]) : m \in PeerMessages \/ m.id <= published
  /\ \A c \in Thread :
       /\ call[c].op = "publish" =>
            /\ call[c].msg.id <= published
            /\ \A t \in Topic : call[c].msg \notin Elements(arrived[t])
            /\ call[c].msg \notin PeerMessages
            /\ \A d \in Thread \ {c} : call[d].op = "publish" => call[d].msg # call[c].msg
       /\ call[c].op = "merge" =>
            call[c].peer \subseteq PeerMessages \cup Elements(arrived[call[c].topic])

HInv == IInv /\ Histories /\ Unrecorded

----------------------------------------------------------------------------
(* A step that adds no message and starts no call that would.              *)
Aside ==
  /\ UNCHANGED <<messages, arrived, published>>
  /\ \A d \in Thread : call'[d].op \in {"publish", "merge"} => call'[d] = call[d]

LEMMA AsideKeeps ==
  ASSUME HInv, Aside
  PROVE  Histories' /\ Unrecorded'
<1>1. Histories'
  BY DEF HInv, Aside, Histories
<1>2. Unrecorded'
  BY DEF HInv, Aside, Unrecorded
<1> QED
  BY <1>1, <1>2

(* What two lists hold one behind the other.                               *)
LEMMA AppendFacts ==
  ASSUME NEW list \in Seq(Message), NEW new \in Seq(Message)
  PROVE  /\ list \o new \in Seq(Message)
         /\ Elements(list \o new) = Elements(list) \cup Elements(new)
         /\ DOMAIN list = 1 .. Len(list) /\ Len(list) \in Nat
         /\ \A i \in DOMAIN (list \o new) : i \notin DOMAIN list => (list \o new)[i] \in Elements(new)
<1>1. /\ list \o new \in Seq(Message) /\ DOMAIN (list \o new) = 1 .. Len(list) + Len(new)
      /\ DOMAIN list = 1 .. Len(list) /\ DOMAIN new = 1 .. Len(new)
      /\ Len(list) \in Nat /\ Len(new) \in Nat
      /\ \A i \in 1 .. Len(list) : (list \o new)[i] = list[i]
      /\ \A i \in 1 .. Len(new) : (list \o new)[Len(list) + i] = new[i]
  OBVIOUS
<1>2. \A i \in DOMAIN (list \o new) :
        i \notin DOMAIN list => i - Len(list) \in DOMAIN new /\ (list \o new)[i] = new[i - Len(list)]
  BY <1>1
<1>3. \A i \in DOMAIN new : Len(list) + i \in DOMAIN (list \o new)
  BY <1>1
<1>4. Elements(list \o new) \subseteq Elements(list) \cup Elements(new)
  BY <1>1, <1>2 DEF Elements
<1>5. \A i \in DOMAIN new : (list \o new)[Len(list) + i] = new[i]
  BY <1>1
<1>6. Elements(list) \subseteq Elements(list \o new)
  <2>1. \A i \in DOMAIN list : i \in DOMAIN (list \o new) /\ (list \o new)[i] = list[i]
    BY <1>1
  <2> QED
    BY <2>1 DEF Elements
<1>7. Elements(new) \subseteq Elements(list \o new)
  BY <1>3, <1>5 DEF Elements
<1> QED
  BY <1>1, <1>2, <1>4, <1>6, <1>7 DEF Elements

(* Publish makes a message that nobody has.                                *)
LEMMA PublishKeepsHInv ==
  ASSUME HInv, NEW c \in Thread, NEW t \in Topic, Publish(c, t)
  PROVE  Histories' /\ Unrecorded'
<1> DEFINE m == [id |-> published + 1, ts |-> published \div PerMilli]
<1>1. /\ published \in Nat /\ published' = published + 1 /\ published < MaxPublishes
      /\ UNCHANGED <<messages, arrived>>
      /\ call' = [call EXCEPT ![c] = [op |-> "publish", topic |-> t, msg |-> m]]
      /\ MaxPublishes \in Nat
  BY BoundsAssumption DEF Publish, HInv, IInv, Types
<1>2. m.id = published + 1
  OBVIOUS
<1> HIDE DEF m
<1>3. /\ call'[c].op = "publish" /\ call'[c].msg = m
      /\ \A d \in Thread \ {c} : call'[d] = call[d]
  BY <1>1 DEF HInv, IInv, Types
<1>4. \A x \in Message : x.id \in Nat
  BY DEF Message
<1>5. Histories'
  BY <1>1 DEF HInv, Histories
<1>6. \A u \in Topic : \A x \in Elements(arrived[u]) : x \in Message
  BY ElementsFacts DEF HInv, IInv, Types
<1>7. m \notin PeerMessages
  BY <1>1, <1>2, PeerAssumption
<1>8. \A u \in Topic : m \notin Elements(arrived[u])
  BY <1>1, <1>2, <1>6, <1>7 DEF HInv, Unrecorded
<1>9. \A d \in Thread : call[d].op = "publish" => call[d].msg \in Message /\ call[d].msg.id <= published
  BY CallFacts DEF HInv, IInv, Types, Unrecorded
<1>10. \A d \in Thread : call[d].op = "publish" => call[d].msg # m /\ call[d].msg.id <= published'
  BY <1>1, <1>2, <1>4, <1>9
<1>11. \A u \in Topic : \A x \in Elements(arrived[u]) : x \in PeerMessages \/ x.id <= published'
  BY <1>1, <1>4, <1>6 DEF HInv, Unrecorded
<1>12. \A d \in Thread \ {c} :
         /\ call'[d].op = "publish" =>
              /\ call'[d].msg.id <= published'
              /\ \A u \in Topic : call'[d].msg \notin Elements(arrived'[u])
              /\ call'[d].msg \notin PeerMessages
              /\ call'[d].msg # m
              /\ \A e \in Thread \ {d} : call[e].op = "publish" => call[e].msg # call'[d].msg
         /\ call'[d].op = "merge" =>
              call'[d].peer \subseteq PeerMessages \cup Elements(arrived'[call'[d].topic])
  BY <1>1, <1>3, <1>10 DEF HInv, Unrecorded
<1>13. Unrecorded'
  BY <1>1, <1>2, <1>3, <1>7, <1>8, <1>10, <1>11, <1>12 DEF Unrecorded
<1> QED
  BY <1>5, <1>13

LEMMA MergeSnapshotKeepsHInv ==
  ASSUME HInv, NEW c \in Thread, NEW t \in Topic, MergeSnapshot(c, t)
  PROVE  Histories' /\ Unrecorded'
<1>1. PICK peer \in SUBSET (PeerMessages \cup Elements(arrived[t])) :
        call' = [call EXCEPT ![c] = [op |-> "merge", topic |-> t, peer |-> peer]]
  BY DEF MergeSnapshot
<1>2. UNCHANGED <<messages, arrived, published>>
  BY DEF MergeSnapshot
<1>3. /\ call'[c].op = "merge" /\ call'[c].topic = t /\ call'[c].peer = peer
      /\ \A d \in Thread \ {c} : call'[d] = call[d]
  BY <1>1 DEF HInv, IInv, Types
<1>4. Histories'
  BY <1>2 DEF HInv, Histories
<1>5. \A d \in Thread : call'[d].op = "publish" => call'[d] = call[d]
  BY <1>3
<1>6. \A d \in Thread : call'[d].op = "merge" =>
        call'[d].peer \subseteq PeerMessages \cup Elements(arrived[call'[d].topic])
  BY <1>1, <1>3 DEF HInv, Unrecorded
<1>7. Unrecorded'
  BY <1>2, <1>5, <1>6 DEF HInv, Unrecorded
<1> QED
  BY <1>4, <1>7

(* Messages enter a history under the topic's lock, new ones last or all   *)
(* in the order of their stamps.                                           *)
LEMMA RecordedKeepsHInv ==
  ASSUME HInv, NEW c \in Thread, Recorded(c)
  PROVE  Histories' /\ Unrecorded'
<1>1. PICK t, m : t = call[c].topic /\ m = call[c].msg
  OBVIOUS
<1>2. /\ call[c].op = "publish" /\ published' = published
      /\ messages' = [messages EXCEPT ![t] = Last(Append(messages[t], m), maxHistory)]
      /\ arrived' = [arrived EXCEPT ![t] = Append(arrived[t], m)]
      /\ \A d \in Thread : call'[d].op \in {"publish", "merge"} => d # c /\ call'[d] = call[d]
  BY <1>1 DEF Recorded, Record, HInv, IInv, Types
<1>3. t \in Topic /\ m \in Message
  BY <1>1, <1>2, CallFacts DEF HInv, IInv, Types
<1>4. PICK history, list : history = messages[t] /\ list = arrived[t]
  OBVIOUS
<1>5. /\ list \in Seq(Message) /\ history \in Seq(Message) /\ Kept(history, list)
      /\ m \notin Elements(list) /\ m \notin Elements(history)
  <2>1. list \in Seq(Message) /\ history \in Seq(Message) /\ Kept(history, list)
    BY <1>3, <1>4 DEF HInv, Histories, IInv, Types
  <2>2. m \notin Elements(list)
    BY <1>1, <1>2, <1>3, <1>4 DEF HInv, Unrecorded
  <2> QED
    BY <2>1, <2>2 DEF Kept
<1>6. PICK new, whole : new = <<m>> /\ whole = history \o new
  OBVIOUS
<1>7. /\ new \in Seq(Message) /\ Elements(new) = {m}
      /\ whole = Append(history, m) /\ list \o new = Append(list, m)
      /\ Len(new) = 1
  BY <1>3, <1>5, <1>6 DEF Elements
<1>8. /\ whole \in Seq(Message) /\ Elements(whole) = Elements(history) \cup {m}
      /\ Elements(list \o new) = Elements(list) \cup {m}
  <2>1. history \o new \in Seq(Message) /\ Elements(history \o new) = Elements(history) \cup Elements(new)
    BY <1>5, <1>7, AppendFacts
  <2>2. Elements(list \o new) = Elements(list) \cup Elements(new)
    BY <1>5, <1>7, AppendFacts
  <2> QED
    BY <1>6, <1>7, <2>1, <2>2
<1>9. InTurn(whole, list \o new)
  <2>1. SUFFICES ASSUME NEW k \in DOMAIN whole, NEW l \in DOMAIN whole, k < l
                 PROVE  whole[k] # whole[l] /\ After(list \o new, whole[k], whole[l])
    BY DEF InTurn
  <2>2. /\ k \in DOMAIN history /\ whole[k] = history[k]
        /\ l \in DOMAIN history => whole[l] = history[l]
        /\ l \notin DOMAIN history => whole[l] = m
    BY <1>5, <1>6, <1>7, <2>1
  <2>3. /\ DOMAIN (list \o new) = 1 .. Len(list) + 1 /\ DOMAIN list = 1 .. Len(list) /\ Len(list) \in Nat
        /\ \A i \in DOMAIN list : (list \o new)[i] = list[i]
        /\ (list \o new)[Len(list) + 1] = m
    BY <1>5, <1>6, <1>7
  <2>4. \A i \in DOMAIN (list \o new) : (list \o new)[i] # m => i \in DOMAIN list
    BY <2>3
  <2>5. \A i \in DOMAIN (list \o new) : (list \o new)[i] = m => i = Len(list) + 1
    BY <1>5, <2>3 DEF Elements
  <2>6. history[k] # m
    BY <1>5, <2>2 DEF Elements
  <2>7. CASE l \in DOMAIN history
    <3>1. history[k] # history[l] /\ After(list, history[k], history[l]) /\ history[l] # m
      BY <1>5, <2>1, <2>2, <2>7 DEF Kept, InTurn, Elements
    <3>2. After(list \o new, history[k], history[l])
      BY <2>3, <2>4, <2>6, <3>1 DEF After
    <3> QED
      BY <2>2, <2>7, <3>1, <3>2
  <2>8. CASE l \notin DOMAIN history
    <3>1. After(list \o new, history[k], m)
      BY <2>3, <2>4, <2>5, <2>6 DEF After
    <3> QED
      BY <2>2, <2>6, <2>8, <3>1
  <2> QED
    BY <2>7, <2>8
<1>10. Kept(Last(whole, maxHistory), list \o new)
  <2>1. Elements(history) \subseteq Elements(list)
    BY <1>5 DEF Kept
  <2> QED
    BY <1>5, <1>7, <1>8, <1>9, <2>1, TrimKeeps
<1>11. /\ messages'[t] = Last(whole, maxHistory) /\ arrived'[t] = list \o new
       /\ \A u \in Topic \ {t} : messages'[u] = messages[u] /\ arrived'[u] = arrived[u]
       /\ DOMAIN messages' = Topic
  BY <1>2, <1>3, <1>4, <1>7 DEF HInv, Histories, IInv, Types
<1>12. Histories'
  <2>1. \A u \in Topic : Kept(messages'[u], arrived'[u])
    BY <1>10, <1>11 DEF HInv, Histories
  <2>2. \A u \in Topic : messages'[u] \in Seq(Message)
    BY <2>1 DEF Kept
  <2>3. messages' \in [Topic -> Seq(Message)]
    BY <1>2, <1>11, <2>2 DEF HInv, Histories
  <2> QED
    BY <2>1, <2>3 DEF Histories
<1>13. Unrecorded'
  <2>1. \A u \in Topic : Elements(arrived[u]) \subseteq Elements(arrived'[u])
                         /\ Elements(arrived'[u]) \subseteq Elements(arrived[u]) \cup {m}
    BY <1>4, <1>8, <1>11
  <2>2. m.id <= published /\ \A d \in Thread \ {c} : call[d].op = "publish" => call[d].msg # m
    BY <1>1, <1>2 DEF HInv, Unrecorded
  <2>3. \A u \in Topic : \A x \in Elements(arrived'[u]) : x \in PeerMessages \/ x.id <= published
    BY <2>1, <2>2 DEF HInv, Unrecorded
  <2>4. ASSUME NEW d \in Thread, call'[d].op = "publish"
        PROVE  /\ call'[d].msg.id <= published
               /\ \A u \in Topic : call'[d].msg \notin Elements(arrived'[u])
               /\ call'[d].msg \notin PeerMessages
               /\ \A e \in Thread \ {d} : call'[e].op = "publish" => call'[e].msg # call'[d].msg
    <3>1. d # c /\ call'[d] = call[d]
      BY <1>2, <2>4
    <3>2. call[d].msg # m
      BY <2>2, <2>4, <3>1
    <3>3. \A e \in Thread \ {d} : call'[e].op = "publish" => call'[e].msg # call'[d].msg
      BY <1>2, <2>4, <3>1 DEF HInv, Unrecorded
    <3>4. \A u \in Topic : call[d].msg \notin Elements(arrived'[u])
      BY <2>1, <2>4, <3>1, <3>2 DEF HInv, Unrecorded
    <3> QED
      BY <2>4, <3>1, <3>3, <3>4 DEF HInv, Unrecorded
  <2>5. ASSUME NEW d \in Thread, call'[d].op = "merge"
        PROVE  call'[d].peer \subseteq PeerMessages \cup Elements(arrived'[call'[d].topic])
    <3>1. call'[d] = call[d] /\ call[d].topic \in Topic
      BY <1>2, <2>5, CallFacts DEF HInv, IInv, Types
    <3> QED
      BY <2>1, <2>5, <3>1 DEF HInv, Unrecorded
  <2> QED
    BY <1>2, <2>3, <2>4, <2>5 DEF HInv, Unrecorded
<1> QED
  BY <1>12, <1>13

(* A sorted set of messages has each of them once.                         *)
LEMMA SortedFacts ==
  ASSUME NEW S \in SUBSET Message, IsFiniteSet(S), NEW s \in SortedByTimestamp(S)
  PROVE  /\ s \in Seq(Message) /\ Elements(s) = S
         /\ \A k, l \in DOMAIN s : k < l => s[k] # s[l] /\ s[k].ts <= s[l].ts
<1> DEFINE n == Cardinality(S)
<1>1. n \in Nat
  BY FS_CardinalityType
<1>2. /\ s \in [1 .. n -> S] /\ Elements(s) = S
      /\ \A i, j \in 1 .. n : i < j => s[i].ts <= s[j].ts
  BY DEF SortedByTimestamp
<1> HIDE DEF n
<1>3. s \in Surjection(1 .. n, S)
  BY <1>2 DEF Surjection, Elements
<1>4. IsFiniteSet(1 .. n) /\ Cardinality(1 .. n) = n
  <2>1. 1 \in Int /\ n \in Int
    BY <1>1
  <2>2. IsFiniteSet(1 .. n) /\ Cardinality(1 .. n) = IF 1 > n THEN 0 ELSE n - 1 + 1
    BY <2>1, FS_Interval
  <2> QED
    BY <1>1, <2>2
<1>5. s \in Injection(1 .. n, S)
  BY <1>3, <1>4, FS_Surjection DEF n
<1>6. s \in [1 .. n -> Message]
  BY <1>2
<1>7. s \in Seq(Message) /\ DOMAIN s = 1 .. n
  BY <1>1, <1>6
<1> QED
  BY <1>1, <1>2, <1>5, <1>7 DEF Injection, IsInjective

LEMMA MergedKeepsHInv ==
  ASSUME HInv, NEW c \in Thread, Merged(c)
  PROVE  Histories' /\ Unrecorded'
<1>1. PICK t, peer : t = call[c].topic /\ peer = call[c].peer
  OBVIOUS
<1>2. PICK history, list : history = messages[t] /\ list = arrived[t]
  OBVIOUS
<1>3. /\ call[c].op = "merge" /\ published' = published
      /\ \A d \in Thread : call'[d].op \in {"publish", "merge"} => d # c /\ call'[d] = call[d]
  BY DEF Merged, Merge, HInv, IInv, Types, Idle
<1>4. /\ t \in Topic /\ peer \in SUBSET Message /\ IsFiniteSet(peer)
      /\ peer \subseteq PeerMessages \cup Elements(list)
  BY <1>1, <1>2, <1>3, CallFacts DEF HInv, IInv, Types, Unrecorded
<1>5. PICK whole \in SortedByTimestamp(Elements(history) \cup peer) :
        /\ messages' = [messages EXCEPT ![t] = Last(whole, maxHistory)]
        /\ arrived' \in {[arrived EXCEPT ![t] = list \o new] :
                          new \in SortedByTimestamp(peer \ Elements(list))}
  BY <1>1, <1>2 DEF Merged, Merge, Union
<1>6. PICK new \in SortedByTimestamp(peer \ Elements(list)) : arrived' = [arrived EXCEPT ![t] = list \o new]
  BY <1>5
<1>7. list \in Seq(Message) /\ history \in Seq(Message) /\ Kept(history, list)
  BY <1>2, <1>4 DEF HInv, Histories, IInv, Types
<1>8. /\ whole \in Seq(Message) /\ Elements(whole) = Elements(history) \cup peer
      /\ \A k, l \in DOMAIN whole : k < l => whole[k] # whole[l] /\ whole[k].ts <= whole[l].ts
  <2>1. PICK S : S = Elements(history) \cup peer
    OBVIOUS
  <2>2. S \in SUBSET Message /\ IsFiniteSet(S)
    BY <1>4, <1>7, <2>1, ElementsFacts, FS_Union
  <2> QED
    BY <1>5, <2>1, <2>2, SortedFacts
<1>9. new \in Seq(Message) /\ Elements(new) = peer \ Elements(list)
  <2>1. PICK S : S = peer \ Elements(list)
    OBVIOUS
  <2>2. S \in SUBSET Message /\ S \in SUBSET peer /\ IsFiniteSet(S)
    BY <1>4, <2>1, FS_Subset
  <2> QED
    BY <1>6, <2>1, <2>2, SortedFacts
<1>10. Elements(list \o new) = Elements(list) \cup peer
  <2>1. Elements(list \o new) = Elements(list) \cup Elements(new)
    BY <1>7, <1>9, AppendFacts
  <2> QED
    BY <1>9, <2>1
<1>11. InTurn(whole, list \o new)
  <2>1. ASSUME NEW k \in DOMAIN whole, NEW l \in DOMAIN whole, k < l
        PROVE  whole[k] # whole[l] /\ After(list \o new, whole[k], whole[l])
    <3>1. whole[k] # whole[l] /\ whole[k].ts <= whole[l].ts /\ whole[k] \in Message /\ whole[l] \in Message
      BY <1>8, <2>1
    <3>2. whole[l].ts >= whole[k].ts
      BY <3>1 DEF Message
    <3> QED
      BY <3>1, <3>2 DEF After
  <2> QED
    BY <2>1 DEF InTurn
<1>12. Kept(Last(whole, maxHistory), list \o new)
  <2>1. /\ Elements(history) \subseteq Elements(whole) /\ Elements(new) \subseteq Elements(whole)
        /\ Elements(whole) \subseteq Elements(list \o new)
    BY <1>7, <1>8, <1>9, <1>10 DEF Kept
  <2> QED
    BY <1>7, <1>8, <1>9, <1>11, <2>1, TrimKeeps
<1>13. /\ messages'[t] = Last(whole, maxHistory) /\ arrived'[t] = list \o new
       /\ \A u \in Topic \ {t} : messages'[u] = messages[u] /\ arrived'[u] = arrived[u]
       /\ DOMAIN messages' = Topic
  BY <1>4, <1>5, <1>6 DEF HInv, Histories, IInv, Types
<1>14. Histories'
  <2>1. \A u \in Topic : Kept(messages'[u], arrived'[u])
    BY <1>12, <1>13 DEF HInv, Histories
  <2>2. \A u \in Topic : messages'[u] \in Seq(Message)
    BY <2>1 DEF Kept
  <2>3. messages' \in [Topic -> Seq(Message)]
    BY <1>5, <1>13, <2>2 DEF HInv, Histories
  <2> QED
    BY <2>1, <2>3 DEF Histories
<1>15. Unrecorded'
  <2>1. \A u \in Topic : /\ Elements(arrived[u]) \subseteq Elements(arrived'[u])
                         /\ Elements(arrived'[u]) \subseteq Elements(arrived[u]) \cup PeerMessages
    BY <1>2, <1>4, <1>10, <1>13
  <2>2. \A u \in Topic : \A x \in Elements(arrived'[u]) : x \in PeerMessages \/ x.id <= published
    BY <2>1 DEF HInv, Unrecorded
  <2>3. ASSUME NEW d \in Thread, call'[d].op = "publish"
        PROVE  /\ call'[d].msg.id <= published
               /\ \A u \in Topic : call'[d].msg \notin Elements(arrived'[u])
               /\ call'[d].msg \notin PeerMessages
               /\ \A e \in Thread \ {d} : call'[e].op = "publish" => call'[e].msg # call'[d].msg
    <3>1. d # c /\ call'[d] = call[d]
      BY <1>3, <2>3
    <3>2. \A e \in Thread \ {d} : call'[e].op = "publish" => call'[e].msg # call'[d].msg
      BY <1>3, <2>3, <3>1 DEF HInv, Unrecorded
    <3>3. \A u \in Topic : call[d].msg \notin Elements(arrived'[u])
      BY <2>1, <2>3, <3>1 DEF HInv, Unrecorded
    <3> QED
      BY <2>3, <3>1, <3>2, <3>3 DEF HInv, Unrecorded
  <2>4. ASSUME NEW d \in Thread, call'[d].op = "merge"
        PROVE  call'[d].peer \subseteq PeerMessages \cup Elements(arrived'[call'[d].topic])
    <3>1. call'[d] = call[d] /\ call[d].topic \in Topic
      BY <1>3, <2>4, CallFacts DEF HInv, IInv, Types
    <3> QED
      BY <2>1, <2>4, <3>1 DEF HInv, Unrecorded
  <2> QED
    BY <1>3, <2>2, <2>3, <2>4 DEF HInv, Unrecorded
<1> QED
  BY <1>14, <1>15

LEMMA InitHInv == Init => HInv
<1> SUFFICES ASSUME Init
             PROVE  HInv
  OBVIOUS
<1>1. PICK none : none = <<>>
  OBVIOUS
<1>2. none \in Seq(Message) /\ DOMAIN none = {} /\ Elements(none) = {}
  BY <1>1 DEF Elements
<1>3. Kept(none, none)
  BY <1>2 DEF Kept, InTurn
<1>4. \A t \in Topic : messages[t] = none /\ arrived[t] = none
  BY <1>1 DEF Init
<1>5. messages \in [Topic -> Seq(Message)]
  BY <1>2, <1>4 DEF Init
<1>6. Histories
  BY <1>3, <1>4, <1>5 DEF Histories
<1>7. Unrecorded
  BY <1>2, <1>4, BoundsAssumption DEF Init, Unrecorded, Idle
<1> QED
  BY <1>6, <1>7, InitIInv DEF HInv

(* All other steps leave the histories alone.                              *)
LEMMA OthersAreAside ==
  ASSUME HInv, NEW c \in Thread,
         \/ \E t \in Topic, s \in Sub, match \in Matches : Subscribe(c, s, t, match)
         \/ \E t \in Topic, s \in Sub : Unsubscribe(c, s, t)
         \/ \E ch \in DOMAIN channels : DeliverTo(c, ch) \/ ChannelFull(c, ch)
         \/ \E s \in Sub : Poll(c, s)
         \/ Subscribed(c) \/ Unsubscribed(c) \/ addToDeadLetterQueue(c) \/ Published(c)
         \/ Receive(c) \/ Polled(c) \/ GetStats(c) \/ CountTopic(c) \/ Counted(c)
  PROVE  Aside
<1>1. /\ UNCHANGED <<messages, arrived, published>>
      /\ \E r : r.op \notin {"publish", "merge"} /\ call' = [call EXCEPT ![c] = r]
  <2>1. call[c] \in Call
    BY DEF HInv, IInv, Types
  <2>2. CASE \/ \E t \in Topic, s \in Sub, match \in Matches : Subscribe(c, s, t, match)
             \/ \E t \in Topic, s \in Sub : Unsubscribe(c, s, t)
    BY <2>2 DEF Subscribe, Unsubscribe
  <2>3. CASE \E ch \in DOMAIN channels : DeliverTo(c, ch) \/ ChannelFull(c, ch)
    <3>1. PICK ch : DeliverTo(c, ch) \/ ChannelFull(c, ch)
      BY <2>3
    <3>2. PICK x, S : x = call[c] /\ S = x.todo \ {ch}
      OBVIOUS
    <3>3. /\ x \in Call /\ x.op = "deliver" /\ UNCHANGED <<messages, arrived, published>>
          /\ \/ call' = [call EXCEPT ![c] = [x EXCEPT !.todo = S]]
             \/ call' = [call EXCEPT ![c] = [op |-> "deadletter", topic |-> x.topic, msg |-> x.msg, todo |-> S]]
      BY <2>1, <3>1, <3>2 DEF DeliverTo, ChannelFull
    <3>4. [x EXCEPT !.todo = S] = [op |-> "deliver", topic |-> x.topic, msg |-> x.msg, todo |-> S]
      BY <3>3, RoundFacts
    <3> QED
      BY <3>3, <3>4
  <2>4. CASE \/ \E s \in Sub : Poll(c, s)
             \/ GetStats(c)
    BY <2>4 DEF Poll, GetStats
  <2>5. CASE Subscribed(c) \/ Unsubscribed(c) \/ Published(c) \/ Polled(c) \/ Counted(c)
    BY <2>5, CallForms DEF Subscribed, Register, Unsubscribed, Forget, Published, Polled, Counted
  <2>6. CASE addToDeadLetterQueue(c)
    <3>1. PICK x : x = call[c]
      OBVIOUS
    <3>2. /\ x \in Call /\ x.op = "deadletter" /\ UNCHANGED <<messages, arrived, published>>
          /\ call' = [call EXCEPT ![c] = [x EXCEPT !.op = "deliver"]]
      BY <2>1, <2>6, <3>1 DEF addToDeadLetterQueue
    <3>3. [x EXCEPT !.op = "deliver"] = [op |-> "deliver", topic |-> x.topic, msg |-> x.msg, todo |-> x.todo]
      BY <3>2, RoundFacts
    <3> QED
      BY <3>2, <3>3
  <2>7. CASE Receive(c)
    BY <2>1, <2>7, CallFacts, PollFacts DEF Receive
  <2>8. CASE CountTopic(c)
    <3>1. PICK x : x = call[c]
      OBVIOUS
    <3>2. PICK S : /\ x \in Call /\ x.op = "stats" /\ UNCHANGED <<messages, arrived, published>>
                   /\ call' = [call EXCEPT ![c] = [x EXCEPT !.todo = S]]
      BY <2>1, <2>8, <3>1 DEF CountTopic
    <3>3. [x EXCEPT !.todo = S] = [op |-> "stats", todo |-> S]
      BY <3>2, CallFacts
    <3> QED
      BY <3>2, <3>3
  <2> QED
    BY <2>2, <2>3, <2>4, <2>5, <2>6, <2>7, <2>8
<1>2. PICK r : r.op \notin {"publish", "merge"} /\ call' = [call EXCEPT ![c] = r]
  BY <1>1
<1>3. call'[c] = r /\ \A d \in Thread \ {c} : call'[d] = call[d]
  BY <1>2 DEF HInv, IInv, Types
<1> QED
  BY <1>1, <1>2, <1>3 DEF Aside

LEMMA NextKeepsHInv == HInv /\ [Next]_vars => HInv'
<1> SUFFICES ASSUME HInv, [Next]_vars
             PROVE  Histories' /\ Unrecorded'
  BY NextKeepsIInv DEF HInv
<1>1. ASSUME NEW c \in Thread, NEW t \in Topic, Publish(c, t) \/ MergeSnapshot(c, t)
      PROVE  Histories' /\ Unrecorded'
  BY <1>1, PublishKeepsHInv, MergeSnapshotKeepsHInv
<1>2. ASSUME NEW c \in Thread, Recorded(c) \/ Merged(c)
      PROVE  Histories' /\ Unrecorded'
  BY <1>2, RecordedKeepsHInv, MergedKeepsHInv
<1>3. ASSUME NEW t \in Topic, SubscribeInvalidPattern(t)
      PROVE  Aside
  BY <1>3 DEF SubscribeInvalidPattern, Aside
<1>4. CASE UNCHANGED vars
  BY <1>4, AsideKeeps DEF vars, Aside
<1> QED
  BY <1>1, <1>2, <1>3, <1>4, OthersAreAside, AsideKeeps DEF Next

(* A message leaves a topic's history only for maxHistory others that came *)
(* later or are no older; publishes and merges trim in any order, and no   *)
(* history has a message twice.                                            *)
THEOREM HistoryKeepsNewestHolds == Spec => []HistoryKeepsNewest
<1>1. ASSUME HInv
      PROVE  HistoryKeepsNewest
  <2>1. SUFFICES ASSUME NEW t \in Topic
                 PROVE  /\ Cardinality(Elements(messages[t])) = Len(messages[t])
                        /\ \A i \in DOMAIN arrived[t] :
                             \/ arrived[t][i] \in Elements(messages[t])
                             \/ Cardinality(Later(arrived[t], i)) >= maxHistory
    BY DEF HistoryKeepsNewest, Later
  <2>2. Kept(messages[t], arrived[t])
    BY <1>1 DEF HInv, Histories
  <2>3. PICK history, n : history = messages[t] /\ n = Len(history)
    OBVIOUS
  <2>4. /\ history \in Seq(Message) /\ n \in Nat /\ DOMAIN history = 1 .. n
        /\ \A k, l \in 1 .. n : history[k] = history[l] => k = l
    <3>1. history \in Seq(Message) /\ n \in Nat /\ DOMAIN history = 1 .. n
      BY <2>2, <2>3 DEF Kept
    <3>2. \A k, l \in 1 .. n : k < l => history[k] # history[l]
      BY <2>2, <2>3, <3>1 DEF Kept, InTurn
    <3> QED
      BY <3>1, <3>2
  <2>5. IsFiniteSet(1 .. n) /\ Cardinality(1 .. n) = n
    <3>1. 1 \in Int /\ n \in Int
      BY <2>4
    <3>2. IsFiniteSet(1 .. n) /\ Cardinality(1 .. n) = IF 1 > n THEN 0 ELSE n - 1 + 1
      BY <3>1, FS_Interval
    <3> QED
      BY <2>4, <3>2
  <2>6. history \in [1 .. n -> Elements(history)]
    BY <2>4 DEF Elements
  <2>7. history \in Surjection(1 .. n, Elements(history)) /\ history \in Injection(1 .. n, Elements(history))
    BY <2>4, <2>6 DEF Surjection, Injection, IsInjective, Elements
  <2>8. Cardinality(Elements(history)) = n
    BY <2>5, <2>7, FS_Surjection
  <2> QED
    BY <2>2, <2>3, <2>8 DEF Kept
<1> QED
  BY <1>1, InitHInv, NextKeepsHInv, PTL DEF Spec
=============================================================================
