---------------------------- MODULE MCSortedSet -----------------------------
EXTENDS SortedSet

MCNode == 1 .. 2

MCKeeper == {1}

MCMember == 1 .. 3

MCScore == 1 .. 2
=============================================================================
