---------------------------- MODULE DeadlineQueue ----------------------------
(***************************************************************************)
(* What a Scheduler promises (the class comment of scheduler.hpp), with no *)
(* mutex, no condition variable and no lifecycle: requests wait for their  *)
(* deadline; the earliest is taken out, never before its time, and then    *)
(* forwarded, given up, or put back unchanged to be tried again.           *)
(***************************************************************************)
EXTENDS Integers, Sequences

CONSTANTS Deadlines, MaxItems, MaxTime

VARIABLES
  pending,    (* requests waiting                                          *)
  out,        (* {the request being published}, or {}                      *)
  log,        (* requests forwarded, in order                              *)
  failed,     (* requests given up                                         *)
  nextOrder,  (* requests accepted so far                                  *)
  now         (* the clock                                                 *)

vars == <<pending, out, log, failed, nextOrder, now>>

\* "Earliest deadline first, equal deadlines in insertion order."  Seeded bug:
\* equal deadlines in any order.
ByDeadlineOnly(a, b) == a.at <= b.at
Earlier(a, b) == a.at < b.at \/ (a.at = b.at /\ a.order < b.order)

Init ==
  /\ pending = {} /\ out = {} /\ log = <<>> /\ failed = 0 /\ nextOrder = 0 /\ now = 0

Accept(at) ==
  /\ nextOrder < MaxItems
  /\ pending' = pending \cup {[at |-> at, order |-> nextOrder]}
  /\ nextOrder' = nextOrder + 1
  /\ UNCHANGED <<out, log, failed, now>>

Extract ==
  /\ out = {}
  /\ \E r \in pending :
       /\ r.at <= now
       /\ \A x \in pending \ {r} : Earlier(r, x)
       /\ out' = {r} /\ pending' = pending \ {r}
  /\ UNCHANGED <<log, failed, nextOrder, now>>

Forward ==
  /\ \E r \in out : log' = Append(log, r)
  /\ out' = {}
  /\ UNCHANGED <<pending, failed, nextOrder, now>>

Fail ==
  /\ out # {} /\ out' = {}
  /\ failed' = failed + 1
  /\ UNCHANGED <<pending, log, nextOrder, now>>

PutBack ==
  /\ out # {} /\ out' = {}
  /\ pending' = pending \cup out
  /\ UNCHANGED <<log, failed, nextOrder, now>>

Tick ==
  /\ now < MaxTime
  /\ now' = now + 1
  /\ UNCHANGED <<pending, out, log, failed, nextOrder>>

Next ==
  \/ Extract \/ Forward \/ Fail \/ PutBack \/ Tick
  \/ \E at \in Deadlines : Accept(at)

Spec == Init /\ [][Next]_vars
=============================================================================
