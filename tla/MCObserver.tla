----------------------------- MODULE MCObserver ------------------------------
(* Two workers and two partitions, so that a partition changes hands; one  *)
(* publisher of graph and of plain events, in any order; generations that  *)
(* wrap after two leases of a partition.                                   *)
EXTENDS Observer
=============================================================================
