----------------------------- MODULE MCEvaluation -----------------------------
(* A client that waits and one that does not, two workers, so that the     *)
(* round robin and the stages of two evaluations interleave; a trace just  *)
(* long enough for the feedback.                                           *)
EXTENDS Evaluation

CONSTANTS c1, c2

Use(kind, expression) == [kind |-> kind, expression |-> expression]
TwoUses ==
  [c \in Clients |->
     IF c = c1 THEN {Use("word", TRUE)}
     ELSE {Use("f32", TRUE), Use("f32", FALSE), Use("async", TRUE), Use("command", FALSE)}]
=============================================================================
