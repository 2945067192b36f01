------------------------------- MODULE Quota -------------------------------
(***************************************************************************)
(* What the mesh rate limiter promises for one key, with no mention of      *)
(* counters, gossip or disks: every node of the mesh owns MaxLimit tickets, *)
(* an admission uses up one of the tickets of the node that answers it, and *)
(* a used ticket is never given back.  The mesh-wide bound on admissions is *)
(* therefore |Node| * MaxLimit, not MaxLimit: the limiter is available on   *)
(* every node at all times and pays for it with over-admission.             *)
(***************************************************************************)
EXTENDS Naturals, FiniteSets

CONSTANTS Node, MaxLimit

VARIABLE used   \* the tickets used so far, a set of <<node, serial number>>

AllTickets == Node \X (1 .. MaxLimit)

Init == used = {}

(* Node n admits a request on a ticket of its own that was never used.      *)
Use(n) ==
  \E k \in 1 .. MaxLimit :
    /\ <<n, k>> \notin used
    /\ used' = used \cup {<<n, k>>}

Next == \E n \in Node : Use(n)

Spec == Init /\ [][Next]_used
=============================================================================
