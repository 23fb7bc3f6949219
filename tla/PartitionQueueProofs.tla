------------------------ MODULE PartitionQueueProofs -------------------------
(***************************************************************************)
(* The partition's views of its queue agree, and it is a Mailbox, for any  *)
(* identifiers, supersteps, capacity and number of offers.  What an        *)
(* operation does is proved in PartitionProofs.                            *)
(***************************************************************************)
EXTENDS PartitionQueue, PartitionProofs

QueueInv == Kept(part, offers) /\ offers \in Nat /\ taken \in SUBSET Events

\* The mailbox counts with the same operator.
LEMMA SameCardinality ==
  ASSUME NEW S
  PROVE  Promise!Cardinality(S) = Cardinality(S)
BY DEF Promise!Cardinality, Cardinality

LEMMA OfferStep ==
  ASSUME QueueInv, NEW id \in EventIDs, NEW s \in Supersteps, Offer(id, s)
  PROVE  QueueInv' /\ Promise!Offer(id, s)
<1> DEFINE event == Event(id, s, offers)
<1>1. /\ event \in Events /\ event.sequence = offers /\ event.superstep = s
      /\ event.payload = <<offers>> /\ event.id = id
      /\ KeyOf(event) = [id |-> id, superstep |-> s]
  BY NewEvent DEF QueueInv, Event, KeyOf
<1>2. /\ part' = Push(part, event) /\ offers' = offers + 1 /\ taken' = taken
      /\ offers < MaxOffers /\ offers \in Nat /\ Kept(part, offers) /\ taken \in SUBSET Events
  BY DEF Offer, QueueInv
<1>3. \A e : e \in Promise!WithKey(id, s) <=> e \in Pending(part) /\ KeyOf(e) = KeyOf(event)
  <2>1. \A e \in Pending(part) : e.id = id /\ e.superstep = s <=> KeyOf(e) = KeyOf(event)
    BY <1>1 DEF KeyOf
  <2> QED BY <2>1 DEF Promise!WithKey
<1>4. part.size = Cardinality(Pending(part))
  BY <1>2 DEF Kept, Counted
<1> HIDE DEF event
<1>5. CASE KeyOf(event) \in DOMAIN part.index
  <2>1. part' = Coalesce(part, event)
    BY <1>2, <1>5 DEF Push, PushResult
  <2>2. Kept(part', offers)
    BY <1>1, <1>2, <1>5, <2>1, Coalesced
  <2>3. PICK e \in Pending(part) :
          /\ KeyOf(e) = KeyOf(event)
          /\ Pending(part') = (Pending(part) \ {e}) \cup {Merge(e, event)}
    BY <1>1, <1>2, <1>5, <2>1, Coalesced
  <2>4. Merge(e, event) = [e EXCEPT !.payload = Append(e.payload, offers)]
    <3>1. e.payload \in Seq(Nat)
      BY <1>2, PendingFacts DEF Events
    <3>2. e.payload \o <<offers>> = Append(e.payload, offers)
      BY <1>2, <3>1
    <3> QED BY <1>1, <3>2 DEF Merge
  <2>5. Pending(part)' =
          (Pending(part) \ {e}) \cup {[e EXCEPT !.payload = Append(e.payload, offers)]}
    BY <2>3, <2>4
  <2>6. Promise!MergeOffer(id, s)
    BY <1>3, <2>3, <2>5 DEF Promise!MergeOffer
  <2> QED BY <1>2, <2>2, <2>6, Numbered DEF QueueInv, Promise!Offer
<1>6. CASE KeyOf(event) \notin DOMAIN part.index
  <2>1. Promise!WithKey(id, s) = {}
    BY <1>2, <1>3, <1>6, PendingFacts
  <2>2. CASE part.size < Capacity
    <3>1. part' = Insert(part, event)
      <4>1. part.size \in Nat /\ ~(part.size >= Capacity)
        BY <1>2, <2>2, PartitionAssumption DEF Kept, Bounded
      <4>2. PushResult(part, event) = "inserted"
        BY <1>6, <4>1 DEF PushResult
      <4> QED BY <1>2, <4>2 DEF Push
    <3>2. /\ Kept(part', offers + 1)
          /\ Pending(part') = Pending(part) \cup {event}
      BY <1>2, <1>6, <2>2, <3>1, Inserted DEF event
    <3>3. event = Promise!Entry(id, s)
      BY DEF event, Event, Promise!Entry
    <3>4. /\ Pending(part)' = Pending(part) \cup {Promise!Entry(id, s)}
          /\ Cardinality(Pending(part)) < Capacity
      BY <1>4, <2>2, <3>2, <3>3
    <3>5. Promise!AddOffer(id, s)
      BY <2>1, <3>4, SameCardinality DEF Promise!AddOffer
    <3> QED BY <1>2, <3>2, <3>5 DEF QueueInv, Promise!Offer
  <2>3. CASE part.size >= Capacity
    <3>1. part' = part
      BY <1>2, <1>6, <2>3 DEF Push, PushResult
    <3>2. Pending(part)' = Pending(part) /\ Cardinality(Pending(part)) >= Capacity
      BY <1>4, <2>3, <3>1
    <3>3. Promise!RefuseOffer(id, s)
      BY <2>1, <3>2, SameCardinality DEF Promise!RefuseOffer
    <3> QED BY <1>2, <3>1, <3>3, Numbered DEF QueueInv, Promise!Offer
  <2>4. part.size < Capacity \/ part.size >= Capacity
    BY <1>2, PartitionAssumption DEF Kept, Bounded
  <2> QED BY <2>2, <2>3, <2>4
<1> QED BY <1>5, <1>6

LEMMA TakeStep ==
  ASSUME QueueInv, Take
  PROVE  QueueInv' /\ Promise!Take
<1> DEFINE f == Front(part)
<1>1. /\ part.size # 0 /\ taken' = {f} /\ part' = PopFront(part) /\ offers' = offers
      /\ offers \in Nat /\ Kept(part, offers)
  BY DEF Take, QueueInv
<1>2. /\ Kept(PopFront(part), offers) /\ f \in Pending(part)
      /\ Pending(PopFront(part)) = Pending(part) \ {f}
      /\ \A e \in Pending(part) \ {f} : Promise!Before(f, e)
  BY <1>1, Popped DEF Promise!Before
<1>3. f \in Events
  BY <1>1, <1>2, PendingFacts
<1> HIDE DEF f
<1>4. Pending(part)' = Pending(part) \ {f}
  BY <1>1, <1>2
<1> QED BY <1>1, <1>2, <1>3, <1>4 DEF QueueInv, Promise!Take

LEMMA TakeNothingStep ==
  ASSUME QueueInv, TakeNothing
  PROVE  QueueInv' /\ Promise!TakeNothing
<1>1. Pending(part) = {}
  BY FS_EmptySet DEF QueueInv, Kept, Counted, TakeNothing
<1> QED BY <1>1 DEF QueueInv, TakeNothing, Promise!TakeNothing, Pending

\* Every reachable partition is kept.
THEOREM QueueInvariance == Spec => []QueueInv
<1>1. Init => QueueInv
  BY EmptyIsKept DEF Init, QueueInv
<1>2. QueueInv /\ [Next]_vars => QueueInv'
  BY OfferStep, TakeStep, TakeNothingStep DEF Next, vars, QueueInv
<1> QED BY <1>1, <1>2, PTL DEF Spec

\* The levels, the index and the count of a partition never disagree, whatever
\* is pushed, merged, refused or popped.
THEOREM ViewsAgree == Spec => [](TypeOK /\ IndexAgrees)
<1>1. ASSUME QueueInv PROVE TypeOK
  <2>1. part = [levels |-> part.levels, index |-> part.index, size |-> part.size]
        /\ part.size \in 0 .. Capacity
    BY <1>1 DEF QueueInv, Kept, Bounded
  <2>2. LevelsOK /\ IndexOK
    BY <1>1 DEF QueueInv, Kept, LevelsTyped, Indexed, LevelsOK, IndexOK
  <2> QED BY <1>1, <2>1, <2>2 DEF QueueInv, TypeOK
<1>2. ASSUME QueueInv PROVE IndexAgrees
  <2>1. Ordered(part, offers) /\ Indexed(part) /\ Counted(part)
    BY <1>2 DEF QueueInv, Kept
  <2> QED BY <2>1 DEF Ordered, Indexed, Counted, IndexAgrees
<1> QED BY <1>1, <1>2, QueueInvariance, PTL

\* The types of a partition: its index and its levels are maps over keys and
\* supersteps, no level is empty, and its size keeps to the capacity.
THEOREM TypesCorrect == Spec => []TypeOK
BY ViewsAgree, PTL

\* A partition is the mailbox of its class comment: what it hands over, merges
\* and refuses is decided by the set of the events waiting alone.
THEOREM PartitionImplementsMailbox == Spec => ImplementsMailbox
<1>1. Init => Promise!Init
  BY EmptyIsKept DEF Init, Promise!Init
<1>2. QueueInv /\ [Next]_vars => [Promise!Next]_(Promise!vars)
  <2>1. QueueInv /\ Next => Promise!Next
    BY OfferStep, TakeStep, TakeNothingStep DEF Next, Promise!Next
  <2>2. UNCHANGED vars => UNCHANGED Promise!vars
    BY DEF vars, Promise!vars, Pending
  <2> QED BY <2>1, <2>2
<1> QED BY <1>1, <1>2, QueueInvariance, PTL DEF Spec, ImplementsMailbox, Promise!Spec
=============================================================================
