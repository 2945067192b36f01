------------------------------ MODULE MCPubSub ------------------------------
EXTENDS PubSub

MCMatches == {TRUE}

MCPeerMessages == {[id |-> 101, ts |-> 0]}
=============================================================================
