------------------------------- MODULE Mailbox -------------------------------
(***************************************************************************)
(* What a partition promises (the class comment of partition.hpp), with no *)
(* levels, index or counter: a bounded set of pending events, at most one  *)
(* per key.  An offer is merged into the event of its key, added when      *)
(* there is room, or refused.  A take hands over the event of the lowest   *)
(* superstep that was offered first.                                       *)
(***************************************************************************)
EXTENDS Integers, Sequences, FiniteSets

CONSTANTS EventIDs, Supersteps, Capacity, MaxOffers

VARIABLES
  pending,  (* the events waiting, one per (id, superstep)                 *)
  offers,   (* offers so far, the sequence number of the next one          *)
  taken     (* what the last take handed over, {} when there was nothing   *)

vars == <<pending, offers, taken>>

Entry(id, s) == [id |-> id, superstep |-> s, sequence |-> offers, payload |-> <<offers>>]

Before(a, b) ==
  \/ a.superstep < b.superstep
  \/ a.superstep = b.superstep /\ a.sequence < b.sequence

Init == pending = {} /\ offers = 0 /\ taken = {}

WithKey(id, s) == {e \in pending : e.id = id /\ e.superstep = s}

MergeOffer(id, s) ==
  \E e \in WithKey(id, s) :
     pending' = (pending \ {e}) \cup {[e EXCEPT !.payload = Append(e.payload, offers)]}

AddOffer(id, s) ==
  /\ WithKey(id, s) = {}
  /\ Cardinality(pending) < Capacity
  /\ pending' = pending \cup {Entry(id, s)}

RefuseOffer(id, s) ==
  /\ WithKey(id, s) = {}
  /\ Cardinality(pending) >= Capacity
  /\ pending' = pending

Offer(id, s) ==
  /\ offers < MaxOffers
  /\ offers' = offers + 1
  /\ taken' = taken
  /\ MergeOffer(id, s) \/ AddOffer(id, s) \/ RefuseOffer(id, s)

Take ==
  \E e \in pending :
     /\ \A f \in pending \ {e} : Before(e, f)
     /\ pending' = pending \ {e}
     /\ taken' = {e}
     /\ offers' = offers

TakeNothing == pending = {} /\ taken' = {} /\ UNCHANGED <<pending, offers>>

Next == Take \/ TakeNothing \/ \E id \in EventIDs, s \in Supersteps : Offer(id, s)

Spec == Init /\ [][Next]_vars
=============================================================================
