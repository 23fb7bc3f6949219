----------------------------- MODULE MCScheduler -----------------------------
(* Two producers, so that an insertion and a notification can fall on      *)
(* either side of each step of the timing thread; three requests with two  *)
(* deadlines, so that two share one and a later one can overtake.  Without *)
(* symmetry, which the liveness properties do not allow.                   *)
EXTENDS Scheduler
=============================================================================
