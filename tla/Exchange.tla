------------------------------ MODULE Exchange -------------------------------
(***************************************************************************)
(* The exchange of the legacy event layer (source/exchange.cc): it leases  *)
(* partitions to workers, one lease per worker, and holds the superstep    *)
(* barrier of graph mode.  A lease names a partition and a generation; it  *)
(* is closed when the partition's closed_gen is that generation.           *)
(*                                                                         *)
(* Every operation is one step, as its mutex makes it, and is used by the  *)
(* module Observer.  The assertions that push to m_ready are compiled in.  *)
(***************************************************************************)
EXTENDS Integers, Sequences, FiniteSets

CONSTANTS
  NumWorkers,     (* m_num_workers, the parties of the barrier too         *)
  NumPartitions,  (* kMaxNumPartitions                                     *)
  Generations     (* 2^32, where the generation counters wrap              *)

Workers == 1 .. NumWorkers
Partitions == 1 .. NumPartitions
Leases == [pid : Partitions, gen : 0 .. Generations - 1]
NoLease == [pid |-> -1, gen |-> 0]

ASSUME ExchangeAssumption ==
  NumWorkers \in Nat \ {0} /\ NumPartitions \in Nat /\ Generations \in Nat \ {0}

VARIABLES
  ready,      (* m_ready, the queue of the partitions nobody leases        *)
  ctrl,       (* m_ctrl: the last generation and the closed one            *)
  registry,   (* the dispatcher's open lease of each worker                *)
  graphMode,  (* m_graph_mode                                              *)
  superstep,  (* m_graph_superstep                                         *)
  arrived     (* m_graph_arrived                                           *)

leasing == <<ready, ctrl, registry>>
barrier == <<graphMode, superstep, arrived>>

ExchangeInit ==
  /\ ready = [i \in Partitions |-> i]
  /\ ctrl = [p \in Partitions |-> [gen |-> 0, closed |-> 0]]
  /\ registry = [w \in Workers |-> NoLease]
  /\ graphMode = FALSE /\ superstep = 0 /\ arrived = 0

----------------------------------------------------------------------------
(* Leases                                                                  *)

\* Seeded bug: a worker with an open lease is given another one.
NeverOpen(w) == FALSE
HasOpen(w) == registry[w] # NoLease

NextLease == [pid |-> Head(ready), gen |-> (ctrl[Head(ready)].gen + 1) % Generations]

\* Refused, without a state change, when the worker has a lease or none is left.
Acquire(w) ==
  /\ ~HasOpen(w) /\ ready # <<>>
  /\ ready' = Tail(ready)
  /\ ctrl' = [ctrl EXCEPT ![Head(ready)] = [gen |-> NextLease.gen, closed |-> 0]]
  /\ registry' = [registry EXCEPT ![w] = NextLease]

IsClosed(lease) == ctrl[lease.pid].closed = lease.gen

CloseLease(lease) ==
  /\ ctrl' = [ctrl EXCEPT ![lease.pid].closed = lease.gen]
  /\ UNCHANGED <<ready, registry>>

\* The return code, which the workers ignore.
ReleaseCode(w, lease) ==
  CASE ~HasOpen(w) -> -1
    [] HasOpen(w) /\ IsClosed(registry[w]) -> 0
    [] OTHER -> IF registry[w] = lease THEN -3 ELSE -2

\* What is released is the registered lease, if it is closed, whatever lease the
\* caller names.
Release(w, lease) ==
  /\ ctrl' = ctrl
  /\ IF ReleaseCode(w, lease) = 0
       THEN /\ registry' = [registry EXCEPT ![w] = NoLease]
            /\ ready' = Append(ready, registry[w].pid)
       ELSE UNCHANGED <<ready, registry>>

----------------------------------------------------------------------------
(* The superstep barrier                                                   *)

\* begin_graph_epoch() is three atomic accesses under no mutex; the first tells
\* whether the other two follow.
EnterGraphMode == graphMode' = TRUE /\ UNCHANGED <<superstep, arrived>>
ResetSuperstep == superstep' = 0 /\ UNCHANGED <<graphMode, arrived>>
ResetArrived == arrived' = 0 /\ UNCHANGED <<graphMode, superstep>>

\* Seeded bug: the last party does not reset the count.
Unreset == arrived + 1
AfterLast == 0

\* graph_arrive_and_wait() returns at once when graph mode is off or the superstep
\* has moved on; the last party moves it on; the others wait.
Passes(observed) == ~graphMode \/ superstep # observed
Waits(observed) == ~Passes(observed) /\ arrived + 1 < NumWorkers

Arrive(observed) ==
  LET last == ~Passes(observed) /\ ~Waits(observed) IN
  /\ arrived' = IF last THEN AfterLast ELSE IF Waits(observed) THEN arrived + 1 ELSE arrived
  /\ superstep' = IF last THEN observed + 1 ELSE superstep
  /\ graphMode' = graphMode
=============================================================================
