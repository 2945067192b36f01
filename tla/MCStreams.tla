----------------------------- MODULE MCStreams ------------------------------
EXTENDS Streams

MCNode == 1 .. 2

MCSymmetry == Permutations(Request)
=============================================================================
