---------------------------- MODULE MCDurability ----------------------------
(* Instances of Durability for TLC.                                         *)
EXTENDS Durability, TLC

CONSTANTS auto, api

MCSnapshotter == {auto, api}

(* Snapshotters run the same code.                                          *)
MCSymmetry == Permutations(Snapshotter)

=============================================================================
