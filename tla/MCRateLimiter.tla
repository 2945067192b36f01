--------------------------- MODULE MCRateLimiter ---------------------------
(* Instances of RateLimiter for TLC: the largest limit is that of Limits.   *)
EXTENDS RateLimiter, TLC

CONSTANTS n1, n2, n3

MCNode2 == {n1, n2}
MCNode3 == {n1, n2, n3}

MCLimits == {1, 2}

(* No action tells one node from another.                                  *)
MCSymmetry == Permutations(Node)

=============================================================================
