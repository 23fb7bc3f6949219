---------------------------- MODULE MCPairingHeap ----------------------------
(* Four nodes in two heaps that can be melded, moved and swapped: a root   *)
(* with three children takes both passes of combine_children through a     *)
(* pair and an odd child, two values make ties.                            *)
EXTENDS PairingHeap
=============================================================================
