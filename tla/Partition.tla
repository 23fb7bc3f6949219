------------------------------ MODULE Partition ------------------------------
(***************************************************************************)
(* One subscriber's bounded mailbox (include/yellowstone/partition.inl) as *)
(* a value: the record of m_levels, m_index and m_size, with one operator  *)
(* per critical section under the partition's m_mutex.  PartitionQueue     *)
(* gives it a behaviour of its own, EventBus keeps one per subscriber.     *)
(*                                                                         *)
(* An event's payload is the sequence of the publications merged into it,  *)
(* so a contribution that is lost, doubled or misplaced shows.             *)
(***************************************************************************)
EXTENDS Integers, Sequences, FiniteSets

CONSTANTS
  EventIDs,    (* event identifiers                                        *)
  Supersteps,  (* supersteps, ordered as naturals                          *)
  Capacity     (* m_capacity                                               *)

\* The constructor refuses a zero capacity.
ASSUME PartitionAssumption ==
  /\ Capacity \in Nat \ {0}
  /\ Supersteps \subseteq Nat

Keys   == [id : EventIDs, superstep : Supersteps]
Events == [id : EventIDs, superstep : Supersteps, sequence : Nat, payload : Seq(Nat)]

\* The event the bus builds for publication number `sequence`.
Event(id, superstep, sequence) ==
  [id |-> id, superstep |-> superstep, sequence |-> sequence, payload |-> <<sequence>>]

KeyOf(event) == [id |-> event.id, superstep |-> event.superstep]

Elements(list) == {list[i] : i \in DOMAIN list}

EmptyPartition == [levels |-> [s \in {} |-> <<>>], index |-> [k \in {} |-> 0], size |-> 0]

\* Every queued event, over all levels.
Pending(p) == UNION {Elements(p.levels[s]) : s \in DOMAIN p.levels}

----------------------------------------------------------------------------
(* can_accept and push.  m_index maps a key to the list node of its event; *)
(* the model names that node by the event's sequence number.               *)

CanAccept(p, event) == KeyOf(event) \in DOMAIN p.index \/ p.size < Capacity

PushResult(p, event) ==
  IF KeyOf(event) \in DOMAIN p.index THEN "coalesced"
  ELSE IF p.size >= Capacity THEN "full" ELSE "inserted"

\* m_merger: the queued payload takes in the incoming one.  Seeded bug: it is
\* merged twice.
MergeTwice(queued, incoming) ==
  [queued EXCEPT !.payload = queued.payload \o incoming.payload \o incoming.payload]
Merge(queued, incoming) == [queued EXCEPT !.payload = queued.payload \o incoming.payload]

Coalesce(p, event) ==
  LET s     == event.superstep
      level == p.levels[s]
      node  == p.index[KeyOf(event)]
      merged == [i \in DOMAIN level |->
                   IF level[i].sequence = node THEN Merge(level[i], event) ELSE level[i]]
  IN  [p EXCEPT !.levels = [p.levels EXCEPT ![s] = merged]]

LevelOf(p, s) == IF s \in DOMAIN p.levels THEN p.levels[s] ELSE <<>>

\* level.push_back().
Enqueue(level, event) == Append(level, event)

Insert(p, event) ==
  [levels |-> [s \in DOMAIN p.levels \cup {event.superstep} |->
                 IF s = event.superstep THEN Enqueue(LevelOf(p, s), event) ELSE p.levels[s]],
   index  |-> [k \in DOMAIN p.index \cup {KeyOf(event)} |->
                 IF k = KeyOf(event) THEN event.sequence ELSE p.index[k]],
   size   |-> p.size + 1]

Push(p, event) ==
  CASE PushResult(p, event) = "coalesced" -> Coalesce(p, event)
    [] PushResult(p, event) = "inserted"  -> Insert(p, event)
    [] PushResult(p, event) = "full"      -> p

----------------------------------------------------------------------------
(* m_pop_locked: the oldest event of the lowest level, which goes with it  *)
(* when it was the last one.                                               *)

\* Seeded bug: the map is read from the wrong end.
HighestLevel(p) == CHOOSE s \in DOMAIN p.levels : \A r \in DOMAIN p.levels : r <= s
LowestLevel(p) == CHOOSE s \in DOMAIN p.levels : \A r \in DOMAIN p.levels : s <= r

Front(p) == Head(p.levels[LowestLevel(p)])

\* Seeded bug: the emptied level stays in the map.
LevelsKept(p) == [p.levels EXCEPT ![LowestLevel(p)] = Tail(p.levels[LowestLevel(p)])]
LevelsAfterPop(p) ==
  LET low  == LowestLevel(p)
      rest == Tail(p.levels[low])
      left == IF rest = <<>> THEN DOMAIN p.levels \ {low} ELSE DOMAIN p.levels
  IN  [s \in left |-> IF s = low THEN rest ELSE p.levels[s]]

\* Seeded bug: the index entry outlives its event.
IndexKept(p) == p.index
IndexAfterPop(p) == [k \in DOMAIN p.index \ {KeyOf(Front(p))} |-> p.index[k]]

PopFront(p) ==
  [levels |-> LevelsAfterPop(p), index |-> IndexAfterPop(p), size |-> p.size - 1]
=============================================================================
