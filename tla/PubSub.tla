------------------------------- MODULE PubSub -------------------------------
(***************************************************************************)
(* The pub/sub broker of a node: its two levels of locks, the channels of  *)
(* its subscribers, the dead-letter queue, and the message histories with  *)
(* the merge of a peer's.                                                  *)
(*                                                                         *)
(* A call runs in a thread.  What a call does between two operations on a  *)
(* lock or a channel is one step; a call that waits for a lock it needs    *)
(* later holds those it has.  The broker's lock is taken for reading by    *)
(* Poll, for one look-up, and by GetStats, which is modelled as holding it *)
(* alone.                                                                  *)
(***************************************************************************)
EXTENDS Naturals, Sequences, FiniteSets

CONSTANTS
  Thread,         \* the goroutines that serve calls
  Free,           \* the owner of a lock nobody holds
  Topic, Sub,     \* names of topics and of subscribers
  Matches,        \* what a subscription's pattern says of its topic: {TRUE} or BOOLEAN
  Capacity,       \* messages a channel buffers
  maxHistory,     \* messages of a topic's history
  maxDLQSize,     \* messages of the dead-letter queue
  Limit,          \* messages a Poll asks for
  PerMilli,       \* messages published here with the same stamp
  PeerMessages,   \* what a peer's history of a topic holds
  MaxSubscribes,  \* bound: subscriptions
  MaxPublishes    \* bound: messages published here

ASSUME LocksAssumption == Free \notin Thread

ASSUME BoundsAssumption ==
  /\ {Capacity, maxHistory, Limit, PerMilli} \subseteq Nat \ {0}
  /\ {maxDLQSize, MaxSubscribes, MaxPublishes} \subseteq Nat

ASSUME PeerAssumption ==
  /\ IsFiniteSet(PeerMessages)
  /\ \A m \in PeerMessages : m \in [id : Nat, ts : Nat] /\ m.id > MaxPublishes

VARIABLES
  broker,       \* who holds PubSubBroker.mu
  lock,         \* lock[t]: who holds Topic.mu of t
  call,         \* call[c]: what thread c is doing
  topics,       \* the topics that exist
  subscribers,  \* subscribers[t][s]: s's channel in topic t, 0 for none
  registered,   \* registered[s]: the channel Poll finds for s, 0 for none
  channels,     \* every channel made, in order
  messages,     \* messages[t]: t's history
  deadLetters,  \* the dead-letter queue
  published,    \* messages published here so far
  arrived,      \* history: arrived[t]: the messages t came to know, in order
  named         \* history: named[s]: topics a Subscribe or Unsubscribe of s named

locks == <<broker, lock>>

vars == <<locks, call, topics, subscribers, registered, channels, messages,
          deadLetters, published, arrived, named>>

Idle == [op |-> "idle"]

Message == [id : Nat, ts : Nat]

Init ==
  /\ broker = Free
  /\ lock = [t \in Topic |-> Free]
  /\ call = [c \in Thread |-> Idle]
  /\ topics = {}
  /\ subscribers = [t \in Topic |-> [s \in Sub |-> 0]]
  /\ registered = [s \in Sub |-> 0]
  /\ channels = <<>>
  /\ messages = [t \in Topic |-> <<>>]
  /\ deadLetters = <<>>
  /\ published = 0
  /\ arrived = [t \in Topic |-> <<>>]
  /\ named = [s \in Sub |-> {}]

(* The last n elements of a sequence.                                      *)
Last(s, n) == IF Len(s) <= n THEN s ELSE SubSeq(s, Len(s) - n + 1, Len(s))

----------------------------------------------------------------------------
(* Subscribe: the broker's lock for the whole call.  The topic is made     *)
(* before the pattern is compiled, and stays when that fails.              *)
Subscribe(c, s, t, match) ==
  /\ call[c] = Idle
  /\ broker = Free
  /\ Len(channels) < MaxSubscribes
  /\ broker' = c
  /\ topics' = topics \cup {t}
  /\ channels' = Append(channels, [queue |-> <<>>, open |-> TRUE, match |-> match])
  /\ call' = [call EXCEPT ![c] =
                [op |-> "subscribe", sub |-> s, topic |-> t, channel |-> Len(channels) + 1]]
  /\ named' = [named EXCEPT ![s] = @ \cup {t}]
  /\ UNCHANGED <<lock, subscribers, registered, messages, deadLetters, published, arrived>>

SubscribeInvalidPattern(t) ==
  /\ broker = Free
  /\ topics' = topics \cup {t}
  /\ UNCHANGED <<locks, call, subscribers, registered, channels, messages, deadLetters,
                 published, arrived, named>>

(* Then the topic's lock: the channel replaces one the subscriber had in   *)
(* the topic, which nobody closes.                                         *)
Register(c, channel) ==
  LET s == call[c].sub
      t == call[c].topic
  IN  /\ call[c].op = "subscribe"
      /\ lock[t] = Free
      /\ subscribers' = [subscribers EXCEPT ![t][s] = call[c].channel]
      /\ registered' = [registered EXCEPT ![s] = channel]
      /\ broker' = Free
      /\ call' = [call EXCEPT ![c] = Idle]
      /\ UNCHANGED <<lock, topics, channels, messages, deadLetters, published, arrived, named>>

(* Mutant of Subscribed: a registered subscriber keeps its channel.        *)
SubscribedOnce(c) ==
  LET s == call[c].sub
  IN  Register(c, IF registered[s] = 0 THEN call[c].channel ELSE registered[s])

Subscribed(c) == Register(c, call[c].channel)

(* Unsubscribe, in the same order of locks.                                *)
Unsubscribe(c, s, t) ==
  /\ call[c] = Idle
  /\ broker = Free
  /\ t \in topics
  /\ broker' = c
  /\ call' = [call EXCEPT ![c] = [op |-> "unsubscribe", sub |-> s, topic |-> t]]
  /\ named' = [named EXCEPT ![s] = @ \cup {t}]
  /\ UNCHANGED <<lock, topics, subscribers, registered, channels, messages, deadLetters,
                 published, arrived>>

(* The channel is closed and forgotten in the topic; the registration goes, *)
(* whichever channel of the subscriber it names.                           *)
Forget(c, forgotten) ==
  LET s  == call[c].sub
      t  == call[c].topic
      ch == subscribers[t][s]
  IN  /\ call[c].op = "unsubscribe"
      /\ lock[t] = Free
      /\ channels' = IF ch = 0 THEN channels ELSE [channels EXCEPT ![ch].open = FALSE]
      /\ subscribers' = [subscribers EXCEPT ![t][s] = forgotten]
      /\ registered' = [registered EXCEPT ![s] = 0]
      /\ broker' = Free
      /\ call' = [call EXCEPT ![c] = Idle]
      /\ UNCHANGED <<lock, topics, messages, deadLetters, published, arrived, named>>

(* Mutant of Unsubscribed: the topic keeps the closed channel.             *)
UnsubscribedKept(c) == Forget(c, subscribers[call[c].topic][call[c].sub])

Unsubscribed(c) == Forget(c, 0)

----------------------------------------------------------------------------
(* Publish: the broker's lock is released before the topic's is taken; the *)
(* message gets its stamp and its ID in between.                           *)
Publish(c, t) ==
  /\ call[c] = Idle
  /\ broker = Free
  /\ published < MaxPublishes
  /\ published' = published + 1
  /\ topics' = topics \cup {t}
  /\ call' = [call EXCEPT ![c] =
                [op |-> "publish", topic |-> t,
                 msg |-> [id |-> published + 1, ts |-> published \div PerMilli]]]
  /\ UNCHANGED <<locks, subscribers, registered, channels, messages, deadLetters, arrived, named>>

(* The channels a message goes to: of the subscribers whose pattern        *)
(* matches the topic's name.                                               *)
Receivers(t) ==
  {ch \in {subscribers[t][s] : s \in Sub} \ {0} : channels[ch].match}

Record(c, holder) ==
  LET t == call[c].topic
  IN  /\ call[c].op = "publish"
      /\ lock[t] = Free
      /\ lock' = [lock EXCEPT ![t] = holder]
      /\ messages' = [messages EXCEPT ![t] = Last(Append(@, call[c].msg), maxHistory)]
      /\ arrived' = [arrived EXCEPT ![t] = Append(@, call[c].msg)]
      /\ call' = [call EXCEPT ![c] =
                    [op |-> "deliver", topic |-> t, msg |-> call[c].msg, todo |-> Receivers(t)]]
      /\ UNCHANGED <<broker, topics, subscribers, registered, channels, deadLetters, published, named>>

(* Mutant of Recorded: the topic is unlocked before the loop.              *)
RecordedUnlocked(c) == Record(c, Free)

Recorded(c) == Record(c, c)

(* The loop over the subscribers, in any order, under the topic's lock.    *)
DeliverTo(c, ch) ==
  /\ call[c].op = "deliver"
  /\ ch \in call[c].todo
  /\ Len(channels[ch].queue) < Capacity
  /\ channels' = [channels EXCEPT ![ch].queue = Append(@, call[c].msg)]
  /\ call' = [call EXCEPT ![c].todo = @ \ {ch}]
  /\ UNCHANGED <<locks, topics, subscribers, registered, messages, deadLetters, published,
                 arrived, named>>

(* Mutant of ChannelFull: the send waits for room.                         *)
ChannelFullWaits(c, ch) ==
  /\ call[c].op = "deliver"
  /\ ch \in call[c].todo
  /\ UNCHANGED vars

(* A full channel: addToDeadLetterQueue takes the broker's lock again,     *)
(* while the topic's is held.                                              *)
ChannelFull(c, ch) ==
  /\ call[c].op = "deliver"
  /\ ch \in call[c].todo
  /\ Len(channels[ch].queue) = Capacity
  /\ call' = [call EXCEPT ![c] =
                [op |-> "deadletter", topic |-> @.topic, msg |-> @.msg, todo |-> @.todo \ {ch}]]
  /\ UNCHANGED <<locks, topics, subscribers, registered, channels, messages, deadLetters, published,
                 arrived, named>>

addToDeadLetterQueue(c) ==
  /\ call[c].op = "deadletter"
  /\ broker = Free
  /\ deadLetters' = Last(Append(deadLetters, call[c].msg), maxDLQSize)
  /\ call' = [call EXCEPT ![c].op = "deliver"]
  /\ UNCHANGED <<locks, topics, subscribers, registered, channels, messages, published, arrived, named>>

Published(c) ==
  /\ call[c].op = "deliver"
  /\ call[c].todo = {}
  /\ lock' = [lock EXCEPT ![call[c].topic] = Free]
  /\ call' = [call EXCEPT ![c] = Idle]
  /\ UNCHANGED <<broker, topics, subscribers, registered, channels, messages, deadLetters, published,
                 arrived, named>>

----------------------------------------------------------------------------
(* Poll: the channel is looked up under the lock and read without it.      *)
Poll(c, s) ==
  /\ call[c] = Idle
  /\ broker = Free
  /\ registered[s] # 0
  /\ call' = [call EXCEPT ![c] = [op |-> "poll", channel |-> registered[s], got |-> 0]]
  /\ UNCHANGED <<locks, topics, subscribers, registered, channels, messages, deadLetters, published,
                 arrived, named>>

Receive(c) ==
  LET ch == call[c].channel
  IN  /\ call[c].op = "poll"
      /\ call[c].got < Limit
      /\ channels[ch].queue # <<>>
      /\ channels' = [channels EXCEPT ![ch].queue = Tail(@)]
      /\ call' = [call EXCEPT ![c].got = @ + 1]
      /\ UNCHANGED <<locks, topics, subscribers, registered, messages, deadLetters, published,
                     arrived, named>>

(* Poll returns with what it wants, at a closed channel, when it has       *)
(* something and nothing more is there, or at its deadline.                *)
Polled(c) ==
  /\ call[c].op = "poll"
  /\ call[c].got = 0 \/ call[c].got = Limit \/ channels[call[c].channel].queue = <<>>
  /\ call' = [call EXCEPT ![c] = Idle]
  /\ UNCHANGED <<locks, topics, subscribers, registered, channels, messages, deadLetters, published,
                 arrived, named>>

(* GetStats: every topic's lock in turn, under the broker's.               *)
GetStats(c) ==
  /\ call[c] = Idle
  /\ broker = Free
  /\ broker' = c
  /\ call' = [call EXCEPT ![c] = [op |-> "stats", todo |-> topics]]
  /\ UNCHANGED <<lock, topics, subscribers, registered, channels, messages, deadLetters, published,
                 arrived, named>>

CountTopic(c) ==
  /\ call[c].op = "stats"
  /\ \E t \in call[c].todo :
       /\ lock[t] = Free
       /\ call' = [call EXCEPT ![c].todo = @ \ {t}]
  /\ UNCHANGED <<locks, topics, subscribers, registered, channels, messages, deadLetters, published,
                 arrived, named>>

Counted(c) ==
  /\ call[c].op = "stats"
  /\ call[c].todo = {}
  /\ broker' = Free
  /\ call' = [call EXCEPT ![c] = Idle]
  /\ UNCHANGED <<lock, topics, subscribers, registered, channels, messages, deadLetters, published,
                 arrived, named>>

----------------------------------------------------------------------------
Elements(s) == {s[i] : i \in DOMAIN s}

(* MergeSnapshot, of one topic: as Publish, one lock after the other.  The *)
(* peer holds messages of its own and any it had from here.                *)
MergeSnapshot(c, t) ==
  /\ call[c] = Idle
  /\ broker = Free
  /\ topics' = topics \cup {t}
  /\ \E peer \in SUBSET (PeerMessages \cup Elements(arrived[t])) :
       /\ Cardinality(peer) \in 1 .. maxHistory
       /\ call' = [call EXCEPT ![c] = [op |-> "merge", topic |-> t, peer |-> peer]]
  /\ UNCHANGED <<locks, subscribers, registered, channels, messages, deadLetters, published, arrived, named>>

(* sort.Slice by Timestamp is not stable: messages of the same stamp come  *)
(* in any order.                                                           *)
SortedByTimestamp(S) ==
  {s \in [1 .. Cardinality(S) -> S] :
     /\ Elements(s) = S
     /\ \A i, j \in 1 .. Cardinality(S) : i < j => s[i].ts <= s[j].ts}

Union(c) == Elements(messages[call[c].topic]) \cup call[c].peer

Merge(c, history) ==
  LET t == call[c].topic
  IN  /\ lock[t] = Free
      /\ messages' = [messages EXCEPT ![t] = history]
      /\ arrived' \in {[arrived EXCEPT ![t] = @ \o new] :
                        new \in SortedByTimestamp(call[c].peer \ Elements(arrived[t]))}
      /\ call' = [call EXCEPT ![c] = Idle]
      /\ UNCHANGED <<locks, topics, subscribers, registered, channels, deadLetters, published, named>>

(* Mutant of Merged: the oldest messages are kept.                         *)
MergedOldest(c) ==
  /\ call[c].op = "merge"
  /\ \E s \in SortedByTimestamp(Union(c)) :
       Merge(c, SubSeq(s, 1, IF Len(s) < maxHistory THEN Len(s) ELSE maxHistory))

Merged(c) ==
  /\ call[c].op = "merge"
  /\ \E s \in SortedByTimestamp(Union(c)) : Merge(c, Last(s, maxHistory))

Next ==
  \/ \E c \in Thread :
       \/ \E t \in Topic :
            \/ \E s \in Sub :
                 \/ \E match \in Matches : Subscribe(c, s, t, match)
                 \/ Unsubscribe(c, s, t)
            \/ Publish(c, t)
            \/ MergeSnapshot(c, t)
       \/ \E ch \in DOMAIN channels : DeliverTo(c, ch) \/ ChannelFull(c, ch)
       \/ \E s \in Sub : Poll(c, s)
       \/ Subscribed(c) \/ Unsubscribed(c) \/ Recorded(c) \/ addToDeadLetterQueue(c) \/ Published(c)
       \/ Receive(c) \/ Polled(c)
       \/ GetStats(c) \/ CountTopic(c) \/ Counted(c)
       \/ Merged(c)
  \/ \E t \in Topic : SubscribeInvalidPattern(t)

Spec == Init /\ [][Next]_vars

(* A goroutine runs on; one that waits for a lock gets it if it is         *)
(* released again and again (sync.RWMutex serves waiters in turn).         *)
Step(c) ==
  \/ \E ch \in DOMAIN channels : DeliverTo(c, ch) \/ ChannelFull(c, ch)
  \/ Subscribed(c) \/ Unsubscribed(c) \/ Recorded(c) \/ addToDeadLetterQueue(c) \/ Published(c)
  \/ Receive(c) \/ Polled(c) \/ CountTopic(c) \/ Counted(c) \/ Merged(c)

FairSpec == Spec /\ \A c \in Thread : SF_vars(Step(c))

----------------------------------------------------------------------------
Op == {"idle", "subscribe", "unsubscribe", "publish", "deliver", "deadletter",
       "poll", "stats", "merge"}

Channel == 0 .. MaxSubscribes

(* Every variable has values of its type.  (pubsub.go)                     *)
TypeOK ==
  /\ broker \in Thread \cup {Free}
  /\ lock \in [Topic -> Thread \cup {Free}]
  /\ \A c \in Thread : call[c].op \in Op
  /\ topics \subseteq Topic
  /\ subscribers \in [Topic -> [Sub -> Channel]]
  /\ registered \in [Sub -> Channel]
  /\ \A ch \in DOMAIN channels :
       /\ channels[ch] \in [queue : Seq(Message), open : BOOLEAN, match : BOOLEAN]
       /\ Len(channels[ch].queue) <= Capacity
  /\ \A t \in Topic :
       /\ messages[t] \in Seq(Message)
       /\ Len(messages[t]) <= maxHistory
  /\ deadLetters \in Seq(Message)
  /\ Len(deadLetters) <= maxDLQSize
  /\ published \in 0 .. MaxPublishes

(* No publish can send on a closed channel, which would panic: whatever is *)
(* interleaved, the channels of a topic's subscribers, and the ones a      *)
(* publish has still to visit, are open.                                   *)
ClosedIsForgotten ==
  /\ \A t \in Topic, s \in Sub : subscribers[t][s] # 0 => channels[subscribers[t][s]].open
  /\ \A c \in Thread : call[c].op = "deliver" => \A ch \in call[c].todo : channels[ch].open

(* A subscriber that only ever named one topic polls the channel that      *)
(* topic delivers to, so what it has been sent is not out of its reach.    *)
(* (Of two topics it only polls the one subscribed to last.)               *)
Pollable ==
  broker = Free =>
    \A t \in Topic, s \in Sub :
      named[s] = {t} => registered[s] = subscribers[t][s]

(* Channels get messages in the order their topic recorded them: while a   *)
(* publish hands its message out, or waits for the broker's lock in the    *)
(* middle of that, nothing comes after it in the topic.                    *)
DeliveredInOrder ==
  \A c \in Thread :
    call[c].op \in {"deliver", "deadletter"} =>
      LET known == arrived[call[c].topic]
      IN  known # <<>> /\ known[Len(known)] = call[c].msg

(* Trimming loses nothing that should have been kept: a message missing    *)
(* from a topic's history has maxHistory others that came after it or      *)
(* carry a stamp that is no older; and no message is there twice.          *)
HistoryKeepsNewest ==
  \A t \in Topic :
    /\ Cardinality(Elements(messages[t])) = Len(messages[t])
    /\ \A i \in DOMAIN arrived[t] :
         arrived[t][i] \in Elements(messages[t])
           \/ Cardinality({j \in DOMAIN arrived[t] \ {i} :
                             j > i \/ arrived[t][j].ts >= arrived[t][i].ts}) >= maxHistory

(* A publish that holds t's lock and waits for the broker's, whose holder  *)
(* waits for t's.                                                          *)
Deadlocked ==
  \E c \in Thread :
    /\ call[c].op = "deadletter"
    /\ broker # Free
    /\ LET held == call[broker]
       IN  \/ held.op \in {"subscribe", "unsubscribe"} /\ held.topic = call[c].topic
           \/ held.op = "stats" /\ call[c].topic \in held.todo

(* Every call returns, whatever waits for whatever, unless a publish finds *)
(* a channel full while a call that holds the broker's lock waits for the  *)
(* topic's: the only deadlock there is.                                    *)
CallsReturn ==
  \A c \in Thread : (call[c] # Idle) ~> (call[c] = Idle \/ Deadlocked)
=============================================================================
