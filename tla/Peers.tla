------------------------------- MODULE Peers --------------------------------
(***************************************************************************)
(* Who gossips with whom: nodes that start, crash and join through one     *)
(* another, and what a node makes of its peers' health - the loop of       *)
(* health checks and the loop of gossip rounds, which run side by side and *)
(* record what they saw some time after they saw it.                       *)
(*                                                                         *)
(* A peer's ID is its address.  The test that keeps a node from being its  *)
(* own peer compares it with the node's name, which is not an address, so  *)
(* it keeps nobody out.                                                    *)
(***************************************************************************)
EXTENDS Naturals, FiniteSets

CONSTANTS
  Node,
  Join,              \* Join[n]: the nodes n is told to join when it starts
  Watcher,           \* the nodes whose loops are modelled
  None,              \* no node
  failureThreshold,  \* failures in a row until a peer is unhealthy
  MaxStarts          \* bound: starts of nodes

ASSUME PeersAssumption ==
  /\ Join \in [Node -> SUBSET Node]
  /\ Watcher \subseteq Node
  /\ None \notin Node
  /\ failureThreshold \in Nat \ {0}
  /\ MaxStarts \in Nat

VARIABLES
  up,       \* the nodes that run
  peers,    \* peers[n]: the peers n knows
  health,   \* health[n][p]: FailureCount and IsHealthy of p at n
  joining,  \* joining[n]: the nodes n has still to join
  answer,   \* answer[n]: a join's answer on its way to n
  check,    \* check[n]: the round of health checks n is in
  round,    \* round[n]: the pull and the push of gossip n is in
  starts

vars == <<up, peers, health, joining, answer, check, round, starts>>

New == [failures |-> 0, healthy |-> TRUE]

Idle == [todo |-> {}, peer |-> None, ok |-> FALSE]

Quiet == [kind \in {"pull", "push"} |-> Idle]

NoAnswer == [from |-> None, peers |-> {}]

Init ==
  /\ up = {}
  /\ peers = [n \in Node |-> {}]
  /\ health = [n \in Node |-> [p \in Node |-> New]]
  /\ joining = [n \in Node |-> {}]
  /\ answer = [n \in Node |-> NoAnswer]
  /\ check = [n \in Node |-> Idle]
  /\ round = [n \in Node |-> Quiet]
  /\ starts = 0

----------------------------------------------------------------------------
(* A start: the loops, no peers, and the list of nodes to join.            *)
Start(n) ==
  /\ n \notin up
  /\ starts < MaxStarts
  /\ starts' = starts + 1
  /\ up' = up \cup {n}
  /\ joining' = [joining EXCEPT ![n] = Join[n]]
  /\ UNCHANGED <<peers, health, answer, check, round>>

(* A crash: all of it was in memory.                                       *)
Crash(n) ==
  /\ n \in up
  /\ up' = up \ {n}
  /\ peers' = [peers EXCEPT ![n] = {}]
  /\ health' = [health EXCEPT ![n] = [p \in Node |-> New]]
  /\ joining' = [joining EXCEPT ![n] = {}]
  /\ answer' = [answer EXCEPT ![n] = NoAnswer]
  /\ check' = [check EXCEPT ![n] = Idle]
  /\ round' = [round EXCEPT ![n] = Quiet]
  /\ UNCHANGED starts

(* AddPeer, of several: a known peer keeps its health.                     *)
AddPeers(n, nodes) == peers' = [peers EXCEPT ![n] = @ \cup nodes]

(* handleInternalPeersJoin at s: n is a peer from now on, and is told of   *)
(* the others.                                                             *)
JoinRequest(n, s) ==
  /\ n \in up /\ s \in up
  /\ answer[n] = NoAnswer
  /\ s \in joining[n]
  /\ AddPeers(s, {n})
  /\ answer' = [answer EXCEPT ![n] = [from |-> s, peers |-> peers[s] \ {n}]]
  /\ UNCHANGED <<up, health, joining, check, round, starts>>

(* The rest of joinCluster at n.                                           *)
Joined(n) ==
  /\ answer[n] # NoAnswer
  /\ AddPeers(n, {answer[n].from} \cup answer[n].peers)
  /\ joining' = [joining EXCEPT ![n] = @ \ {answer[n].from}]
  /\ answer' = [answer EXCEPT ![n] = NoAnswer]
  /\ UNCHANGED <<up, health, check, round, starts>>

(* No answer, or it was lost: logged, and never tried again.               *)
JoinFailed(n, s) ==
  /\ n \in up
  /\ s \in joining[n]
  /\ (answer[n] = NoAnswer /\ s \notin up) \/ answer[n].from = s
  /\ joining' = [joining EXCEPT ![n] = @ \ {s}]
  /\ answer' = [answer EXCEPT ![n] = NoAnswer]
  /\ UNCHANGED <<up, peers, health, check, round, starts>>

----------------------------------------------------------------------------
(* RecordSuccess and RecordFailure: p's health at n after a request to it. *)
(* (bound: failures past the threshold are not counted.)                   *)
RecordFailure(n, p) ==
  LET failures == IF health[n][p].failures = failureThreshold THEN failureThreshold
                  ELSE health[n][p].failures + 1
  IN  [failures |-> failures,
       healthy  |-> IF failures >= failureThreshold THEN FALSE ELSE health[n][p].healthy]

(* Mutant of RecordSuccess: the failures are forgotten, the mark is not.   *)
RecordSuccessUnmarked(n, p) == [failures |-> 0, healthy |-> health[n][p].healthy]

RecordSuccess(n, p) == New

Record(n, p, ok) ==
  health' = [health EXCEPT ![n][p] = IF ok THEN RecordSuccess(n, p) ELSE RecordFailure(n, p)]

HealthyPeers(n) == {p \in peers[n] : health[n][p].healthy}

(* performHealthCheck: the peers are listed, then asked one by one.        *)
CheckOf(n, listed) ==
  /\ n \in Watcher /\ n \in up
  /\ check[n] = Idle
  /\ listed # {}
  /\ check' = [check EXCEPT ![n].todo = listed]
  /\ UNCHANGED <<up, peers, health, joining, answer, round, starts>>

(* Mutant of performHealthCheck: unhealthy peers are not asked.            *)
performHealthCheckHealthy(n) == CheckOf(n, HealthyPeers(n))

performHealthCheck(n) == CheckOf(n, peers[n])

Ping(n, p) ==
  /\ check[n].peer = None
  /\ p \in check[n].todo
  /\ check' = [check EXCEPT ![n] = [todo |-> @.todo \ {p}, peer |-> p, ok |-> p \in up]]
  /\ UNCHANGED <<up, peers, health, joining, answer, round, starts>>

Pinged(n) ==
  /\ check[n].peer # None
  /\ Record(n, check[n].peer, check[n].ok)
  /\ check' = [check EXCEPT ![n] = [Idle EXCEPT !.todo = check[n].todo]]
  /\ UNCHANGED <<up, peers, joining, answer, round, starts>>

(* selectPeer.                                                             *)
Candidates(n) == IF HealthyPeers(n) = {} THEN peers[n] ELSE HealthyPeers(n)

(* performGossip's request to a peer, or PushState's, and what comes of    *)
(* it: no peer that answers refuses.                                       *)
Request(n, kind) ==
  /\ n \in Watcher /\ n \in up
  /\ round[n][kind] = Idle
  /\ \E p \in Candidates(n) :
       round' = [round EXCEPT ![n][kind] = [todo |-> {}, peer |-> p, ok |-> p \in up]]
  /\ UNCHANGED <<up, peers, health, joining, answer, check, starts>>

Answered(n, kind) ==
  /\ round[n][kind].peer # None
  /\ Record(n, round[n][kind].peer, round[n][kind].ok)
  /\ round' = [round EXCEPT ![n][kind] = Idle]
  /\ UNCHANGED <<up, peers, joining, answer, check, starts>>

performGossip(n) == Request(n, "pull") \/ Answered(n, "pull")

PushState(n) == Request(n, "push") \/ Answered(n, "push")

CheckStep(n) == performHealthCheck(n) \/ (\E p \in Node : Ping(n, p)) \/ Pinged(n)

Next ==
  \E n \in Node :
    \/ Start(n) \/ Crash(n)
    \/ \E s \in Node : JoinRequest(n, s) \/ JoinFailed(n, s)
    \/ Joined(n)
    \/ CheckStep(n)
    \/ performGossip(n)
    \/ PushState(n)

Spec == Init /\ [][Next]_vars

(* Tickers drive both loops, and requests time out after 5 s, so neither   *)
(* loop stays where it is.                                                 *)
FairSpec == Spec /\ \A n \in Watcher : WF_vars(CheckStep(n)) /\ WF_vars(performGossip(n))

----------------------------------------------------------------------------
(* Every variable has values of its type.  (gossip.go, peer_manager.go)    *)
TypeOK ==
  /\ up \subseteq Node
  /\ \A n \in Node :
       /\ peers[n] \subseteq Node
       /\ n \notin up => peers[n] = {}
       /\ health[n] \in [Node -> [failures : 0 .. failureThreshold, healthy : BOOLEAN]]
       /\ joining[n] \subseteq Node
       /\ check[n].todo \subseteq peers[n]
       /\ {check[n].peer, round[n]["pull"].peer, round[n]["push"].peer} \subseteq peers[n] \cup {None}

Ready(n) == peers[n] = {} \/ HealthyPeers(n) # {}

(* Health follows the facts, though results are recorded late, of two      *)
(* loops: a peer that stays down is unhealthy in the end, one that stays   *)
(* up is healthy, however often it was down before; so a node cut off from *)
(* all its peers is in the end not ready, and one that is not, is.         *)
HealthFollows ==
  \A n \in Watcher, p \in Node :
    /\ <>[](n \in up /\ p \in peers[n] /\ p \notin up) => <>[](~health[n][p].healthy)
    /\ <>[](n \in up /\ p \in peers[n] /\ p \in up) => <>[](health[n][p].healthy /\ Ready(n))

(* Gossip gets through: while some peer stays up, peers that are down do   *)
(* not take all the rounds, though a round goes to any of the candidates.  *)
GossipGetsThrough ==
  \A n \in Watcher, p \in Node :
    <>[](n \in up /\ p \in peers[n] /\ p \in up) => []<>(round[n]["pull"].ok)
=============================================================================
