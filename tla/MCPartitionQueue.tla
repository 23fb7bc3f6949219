-------------------------- MODULE MCPartitionQueue ---------------------------
(* Two identifiers in two supersteps make four keys over a partition of    *)
(* capacity two: coalescing, refusal and both orders of the levels happen. *)
EXTENDS PartitionQueue
=============================================================================
