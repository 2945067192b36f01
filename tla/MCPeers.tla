------------------------------ MODULE MCPeers -------------------------------
EXTENDS Peers, TLC

CONSTANTS a, b, c

\* b and c join a, which joins b if it comes later.
MCJoin == (a :> {b}) @@ (b :> {a}) @@ (c :> {a})

\* Every node is told to join all of them, itself included.
MCJoinAll == [n \in Node |-> Node]
=============================================================================
