---------------------------- MODULE MCSchedulerBus ----------------------------
(* A client brings the bus up, changes its subscribers while it is down    *)
(* and starts it again; two requests, one for everybody and one for slot   *)
(* 0, of two supersteps; a merger that may throw either kind of exception. *)
EXTENDS SchedulerBus

CONSTANTS c1, e1

FewUses ==
  [t \in Clients \cup Slots |->
     IF t = Timer THEN {"publish"}
     ELSE IF t = c1 THEN {"subscribe", "unsubscribe", "start"} ELSE {}]

Job(target, superstep) == [target |-> target, id |-> e1, superstep |-> superstep]
SomeJobs == {Job({}, 0), Job({0}, 1)}
=============================================================================
