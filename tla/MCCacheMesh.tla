---------------------------- MODULE MCCacheMesh ----------------------------
(* Instances of CacheMesh for TLC: the configurations give every constant   *)
(* its value.  Nodes are ordered, so there is no symmetry.                  *)
EXTENDS CacheMesh
=============================================================================
