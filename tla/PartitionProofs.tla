--------------------------- MODULE PartitionProofs ---------------------------
(***************************************************************************)
(* What every operation on a partition keeps, for any identifiers,         *)
(* supersteps and capacity: the bound on its size (Bounded), and the       *)
(* agreement of its three views of the queue (Kept).  Inside a level       *)
(* events lie in the order of their numbers, and the index gives each      *)
(* event's number: so no key is queued twice, and what is set apart as the *)
(* least event of the set Pending is the head of the lowest level.         *)
(***************************************************************************)
EXTENDS Partition, FiniteSetTheorems, SequenceTheorems, WellFoundedInduction, TLAPS

\* A set of naturals has a least element.
LEMMA LeastExists ==
  ASSUME NEW S, S \subseteq Nat, S # {}
  PROVE  \E m \in S : \A k \in S : m <= k
<1>1. \E m \in S : \A k \in S : ~(<<k, m>> \in OpToRel(<, Nat))
  BY NatLessThanWellFounded, WFMin
<1>2. PICK m \in S : \A k \in S : ~(<<k, m>> \in OpToRel(<, Nat))
  BY <1>1
<1>3. \A k \in S : ~(k < m)
  BY <1>2 DEF OpToRel
<1> QED BY <1>3

\* A partition as a record whose count is within the capacity.
Bounded(p) ==
  /\ p = [levels |-> p.levels, index |-> p.index, size |-> p.size]
  /\ p.size \in 0 .. Capacity

\* A new partition is bounded.
LEMMA EmptyIsBounded == Bounded(EmptyPartition)
BY PartitionAssumption DEF Bounded, EmptyPartition

\* push() never takes the partition above its capacity, whatever it returns.
LEMMA PushKeepsBounded ==
  ASSUME NEW p, Bounded(p), NEW event
  PROVE  Bounded(Push(p, event))
<1> USE PartitionAssumption DEF Bounded
<1>1. CASE PushResult(p, event) = "coalesced"
  <2>1. Push(p, event) = Coalesce(p, event)
    BY <1>1 DEF Push
  <2>2. PICK l : Coalesce(p, event) = [p EXCEPT !.levels = l]
    BY DEF Coalesce
  <2> QED BY <2>1, <2>2
<1>2. CASE PushResult(p, event) = "inserted"
  <2>1. p.size < Capacity
    BY <1>2 DEF PushResult
  <2>2. Push(p, event) = Insert(p, event)
    BY <1>2 DEF Push
  <2>3. PICK l, i : Insert(p, event) = [levels |-> l, index |-> i, size |-> p.size + 1]
    BY DEF Insert
  <2> QED BY <2>1, <2>2, <2>3
<1>3. CASE PushResult(p, event) = "full"
  <2>1. Push(p, event) = p
    BY <1>3 DEF Push
  <2> QED BY <2>1
<1> QED BY <1>1, <1>2, <1>3 DEF PushResult

\* A pop leaves room for one event at least.
LEMMA PopLeavesRoom ==
  ASSUME NEW p, Bounded(p), p.size # 0
  PROVE  Bounded(PopFront(p)) /\ PopFront(p).size < Capacity
<1>1. PICK l, i : PopFront(p) = [levels |-> l, index |-> i, size |-> p.size - 1]
  BY DEF PopFront
<1> QED BY <1>1, PartitionAssumption DEF Bounded

----------------------------------------------------------------------------
(* What a partition keeps whose next event is number n                     *)

LevelsTyped(p) ==
  /\ DOMAIN p.levels \subseteq Supersteps
  /\ \A s \in DOMAIN p.levels : p.levels[s] \in Seq(Events) /\ p.levels[s] # <<>>

\* Levels hold what belongs to them, oldest first.
Ordered(p, n) ==
  \A s \in DOMAIN p.levels :
    /\ \A i \in DOMAIN p.levels[s] : /\ p.levels[s][i].superstep = s
                                     /\ p.levels[s][i].sequence < n
    /\ \A i, j \in DOMAIN p.levels[s] :
         i < j => p.levels[s][i].sequence < p.levels[s][j].sequence

\* Each queued event is indexed, and each index entry is a queued event's.
Indexed(p) ==
  /\ \A s \in DOMAIN p.levels : \A i \in DOMAIN p.levels[s] :
       /\ KeyOf(p.levels[s][i]) \in DOMAIN p.index
       /\ p.index[KeyOf(p.levels[s][i])] = p.levels[s][i].sequence
  /\ \A k \in DOMAIN p.index :
       /\ k \in Keys /\ p.index[k] \in Nat /\ k.superstep \in DOMAIN p.levels
       /\ \E i \in DOMAIN p.levels[k.superstep] : KeyOf(p.levels[k.superstep][i]) = k

Counted(p) ==
  /\ IsFiniteSet(DOMAIN p.index) /\ p.size = Cardinality(DOMAIN p.index)
  /\ IsFiniteSet(Pending(p)) /\ p.size = Cardinality(Pending(p))

Kept(p, n) == Bounded(p) /\ LevelsTyped(p) /\ Ordered(p, n) /\ Indexed(p) /\ Counted(p)

----------------------------------------------------------------------------
(* The queue as a set                                                      *)

LEMMA OneElementMore ==
  ASSUME NEW S, IsFiniteSet(S), NEW x, x \notin S
  PROVE  IsFiniteSet(S \cup {x}) /\ Cardinality(S \cup {x}) = Cardinality(S) + 1
BY FS_AddElement

LEMMA InLevel ==
  ASSUME NEW p, LevelsTyped(p), NEW s \in DOMAIN p.levels
  PROVE  /\ s \in Nat /\ p.levels[s] \in Seq(Events)
         /\ Len(p.levels[s]) \in Nat \ {0}
         /\ DOMAIN p.levels[s] = 1 .. Len(p.levels[s])
         /\ \A i \in DOMAIN p.levels[s] : p.levels[s][i] \in Events
<1>1. p.levels[s] \in Seq(Events) /\ p.levels[s] # <<>> /\ s \in Nat
  BY PartitionAssumption DEF LevelsTyped
<1> QED BY <1>1, EmptySeq, LenProperties, ElementOfSeq

LEMMA InPending ==
  ASSUME NEW p, NEW e
  PROVE  e \in Pending(p) <=>
           \E s \in DOMAIN p.levels : \E i \in DOMAIN p.levels[s] : e = p.levels[s][i]
BY DEF Pending, Elements

LEMMA PendingFacts ==
  ASSUME NEW p, NEW n, Kept(p, n), NEW e \in Pending(p)
  PROVE  /\ e \in Events /\ e.sequence < n
         /\ e.superstep \in DOMAIN p.levels
         /\ \E i \in DOMAIN p.levels[e.superstep] : e = p.levels[e.superstep][i]
         /\ KeyOf(e) \in DOMAIN p.index /\ p.index[KeyOf(e)] = e.sequence
<1>1. PICK s \in DOMAIN p.levels : \E i \in DOMAIN p.levels[s] : e = p.levels[s][i]
  BY InPending
<1>2. PICK i \in DOMAIN p.levels[s] : e = p.levels[s][i]
  BY <1>1
<1> QED BY <1>2, InLevel DEF Kept, Ordered, Indexed

\* No two events of the same key are queued.
LEMMA OnePerKey ==
  ASSUME NEW p, NEW n, Kept(p, n), NEW e \in Pending(p), NEW f \in Pending(p),
         KeyOf(e) = KeyOf(f)
  PROVE  e = f
<1>1. e.superstep = f.superstep /\ e.sequence = f.sequence
  BY PendingFacts DEF KeyOf
<1> DEFINE l == p.levels[e.superstep]
<1>2. PICK i \in DOMAIN l : e = l[i]
  BY PendingFacts
<1>3. PICK j \in DOMAIN l : f = l[j]
  BY <1>1, PendingFacts
<1>4. e.superstep \in DOMAIN p.levels
  BY PendingFacts
<1>5. i \in Nat /\ j \in Nat /\ l[i].sequence \in Nat /\ l[j].sequence \in Nat
  <2>1. DOMAIN l = 1 .. Len(l) /\ Len(l) \in Nat /\ \A m \in DOMAIN l : l[m] \in Events
    BY <1>4, InLevel DEF Kept
  <2> QED BY <2>1 DEF Events
<1>6. ~(i < j) /\ ~(j < i)
  <2>1. \A a, b \in DOMAIN l : a < b => l[a].sequence < l[b].sequence
    BY <1>4 DEF Kept, Ordered
  <2>2. l[i].sequence = l[j].sequence
    BY <1>1, <1>2, <1>3
  <2> HIDE DEF l
  <2> QED BY <2>1, <2>2, <1>5
<1> QED BY <1>2, <1>3, <1>5, <1>6

LEMMA IndexedIsPending ==
  ASSUME NEW p, NEW n, Kept(p, n), NEW k \in DOMAIN p.index
  PROVE  \E e \in Pending(p) : KeyOf(e) = k
BY InPending DEF Kept, Indexed

LEMMA NewEvent ==
  ASSUME NEW id \in EventIDs, NEW s \in Supersteps, NEW n \in Nat
  PROVE  LET e == Event(id, s, n) IN
         /\ e \in Events /\ e.sequence = n /\ e.superstep = s /\ e.payload = <<n>>
         /\ KeyOf(e) \in Keys /\ KeyOf(e).superstep = s
BY DEF Event, Events, Keys, KeyOf

\* A push numbers one more event, whatever becomes of it.
LEMMA Numbered ==
  ASSUME NEW p, NEW n \in Nat, Kept(p, n)
  PROVE  Kept(p, n + 1)
<1>1. \A s \in DOMAIN p.levels : \A i \in DOMAIN p.levels[s] : p.levels[s][i].sequence \in Nat
  BY InLevel DEF Kept, Events
<1>2. Ordered(p, n + 1)
  BY <1>1 DEF Kept, Ordered
<1> QED BY <1>2 DEF Kept

LEMMA EmptyIsKept == Kept(EmptyPartition, 0) /\ Pending(EmptyPartition) = {}
<1>1. /\ DOMAIN EmptyPartition.levels = {} /\ DOMAIN EmptyPartition.index = {}
      /\ EmptyPartition.size = 0
  BY DEF EmptyPartition
<1>2. Pending(EmptyPartition) = {}
  BY <1>1, InPending
<1>3. Counted(EmptyPartition)
  BY <1>1, <1>2, FS_EmptySet DEF Counted
<1> QED BY <1>1, <1>2, <1>3, EmptyIsBounded DEF Kept, LevelsTyped, Ordered, Indexed

----------------------------------------------------------------------------
(* push() of a key that is not queued                                      *)

LEMMA Inserted ==
  ASSUME NEW p, NEW n \in Nat, Kept(p, n), NEW id \in EventIDs, NEW s \in Supersteps,
         NEW event, event = Event(id, s, n),
         KeyOf(event) \notin DOMAIN p.index, p.size < Capacity
  PROVE  Kept(Insert(p, event), n + 1) /\ Pending(Insert(p, event)) = Pending(p) \cup {event}
<1> DEFINE q == Insert(p, event)
<1> DEFINE old == LevelOf(p, s)
<1>1. /\ event \in Events /\ event.sequence = n /\ event.superstep = s
      /\ KeyOf(event) \in Keys /\ KeyOf(event).superstep = s
  BY NewEvent
<1>2. /\ DOMAIN q.levels = DOMAIN p.levels \cup {s}
      /\ q.levels[s] = Append(old, event)
      /\ \A r \in DOMAIN p.levels \ {s} : q.levels[r] = p.levels[r]
      /\ DOMAIN q.index = DOMAIN p.index \cup {KeyOf(event)}
      /\ q.index[KeyOf(event)] = n
      /\ \A k \in DOMAIN p.index : q.index[k] = p.index[k]
      /\ q.size = p.size + 1
      /\ q = [levels |-> q.levels, index |-> q.index, size |-> q.size]
  BY <1>1 DEF Insert, Enqueue
<1> HIDE DEF q
<1>3. /\ old \in Seq(Events) /\ Len(old) \in Nat /\ DOMAIN old = 1 .. Len(old)
      /\ s \notin DOMAIN p.levels => Len(old) = 0
      /\ s \in DOMAIN p.levels => old = p.levels[s]
  <2>1. CASE s \in DOMAIN p.levels
    BY <2>1, InLevel DEF LevelOf, Kept
  <2>2. CASE s \notin DOMAIN p.levels
    BY <2>2, EmptySeq, LenProperties DEF LevelOf
  <2> QED BY <2>1, <2>2
<1> HIDE DEF old
<1>4. /\ Append(old, event) \in Seq(Events) /\ Append(old, event) # <<>>
      /\ DOMAIN Append(old, event) = 1 .. Len(old) + 1
      /\ \A i \in 1 .. Len(old) : Append(old, event)[i] = old[i]
      /\ Append(old, event)[Len(old) + 1] = event
  <2>1. /\ Append(old, event) \in Seq(Events) /\ Len(Append(old, event)) = Len(old) + 1
        /\ \A i \in 1 .. Len(old) + 1 :
             Append(old, event)[i] = IF i <= Len(old) THEN old[i] ELSE event
    BY <1>1, <1>3, AppendProperties
  <2> QED BY <1>3, <2>1, LenProperties, EmptySeq
<1>5. Bounded(q)
  <2>1. p.size \in 0 .. Capacity
    BY DEF Kept, Bounded
  <2> QED BY <1>2, <2>1, PartitionAssumption DEF Bounded
<1>6. LevelsTyped(q)
  BY <1>2, <1>4 DEF Kept, LevelsTyped
<1>7. Pending(q) = Pending(p) \cup {event}
  <2>1. ASSUME NEW e PROVE e \in Pending(q) <=> (e \in Pending(p) \/ e = event)
    <3>1. e \in Pending(q) <=>
            \/ \E r \in DOMAIN p.levels \ {s} : \E i \in DOMAIN p.levels[r] : e = p.levels[r][i]
            \/ \E i \in 1 .. Len(old) + 1 : e = Append(old, event)[i]
      <4>1. e \in Pending(q) <=>
              \/ \E r \in DOMAIN p.levels \ {s} : \E i \in DOMAIN q.levels[r] : e = q.levels[r][i]
              \/ \E i \in DOMAIN q.levels[s] : e = q.levels[s][i]
        BY <1>2, InPending
      <4> QED BY <1>2, <1>4, <4>1
    <3>2. (\E i \in 1 .. Len(old) + 1 : e = Append(old, event)[i]) <=>
            (e = event \/ \E i \in 1 .. Len(old) : e = old[i])
      BY <1>3, <1>4
    <3>3. e \in Pending(p) <=>
            \/ \E r \in DOMAIN p.levels \ {s} : \E i \in DOMAIN p.levels[r] : e = p.levels[r][i]
            \/ \E i \in 1 .. Len(old) : e = old[i]
      BY <1>3, InPending
    <3> QED BY <3>1, <3>2, <3>3
  <2> QED BY <2>1
<1>8. Ordered(q, n + 1)
  <2> SUFFICES ASSUME NEW r \in DOMAIN q.levels
               PROVE  /\ \A i \in DOMAIN q.levels[r] : /\ q.levels[r][i].superstep = r
                                                       /\ q.levels[r][i].sequence < n + 1
                      /\ \A i, j \in DOMAIN q.levels[r] :
                           i < j => q.levels[r][i].sequence < q.levels[r][j].sequence
    BY DEF Ordered
  <2>1. CASE r # s
    <3>1. r \in DOMAIN p.levels /\ q.levels[r] = p.levels[r]
      BY <1>2, <2>1
    <3>2. \A i \in DOMAIN p.levels[r] : p.levels[r][i].sequence \in Nat
      BY <3>1, InLevel DEF Kept, Events
    <3> QED BY <3>1, <3>2 DEF Kept, Ordered
  <2>2. CASE r = s
    <3>1. \A i \in 1 .. Len(old) : /\ old[i].superstep = s /\ old[i].sequence < n
                                   /\ old[i].sequence \in Nat
      <4>1. \A i \in 1 .. Len(old) : old[i] \in Events
        BY <1>3, ElementOfSeq
      <4>2. CASE s \in DOMAIN p.levels
        BY <1>3, <4>1, <4>2 DEF Kept, Ordered, Events
      <4>3. CASE s \notin DOMAIN p.levels
        BY <1>3, <4>3
      <4> QED BY <4>2, <4>3
    <3>2. \A i, j \in 1 .. Len(old) : i < j => old[i].sequence < old[j].sequence
      BY <1>3 DEF Kept, Ordered
    <3> DEFINE new == Append(old, event)
    <3>3. DOMAIN new = 1 .. Len(old) + 1 /\ q.levels[r] = new
      BY <1>2, <1>4, <2>2
    <3>4. ASSUME NEW i \in DOMAIN new
          PROVE  new[i].superstep = s /\ new[i].sequence < n + 1
      <4>1. i \in 1 .. Len(old) \/ i = Len(old) + 1
        BY <1>3, <3>3
      <4> QED BY <1>1, <1>4, <3>1, <4>1
    <3>5. ASSUME NEW i \in DOMAIN new, NEW j \in DOMAIN new, i < j
          PROVE  new[i].sequence < new[j].sequence
      <4>1. i \in 1 .. Len(old) /\ (j \in 1 .. Len(old) \/ j = Len(old) + 1)
        BY <1>3, <3>3, <3>5
      <4> QED BY <1>1, <1>4, <3>1, <3>2, <3>5, <4>1
    <3> HIDE DEF new
    <3> QED BY <2>2, <3>3, <3>4, <3>5
  <2> QED BY <2>1, <2>2
<1>9. Indexed(q)
  <2>1. ASSUME NEW r \in DOMAIN q.levels, NEW i \in DOMAIN q.levels[r]
        PROVE  /\ KeyOf(q.levels[r][i]) \in DOMAIN q.index
               /\ q.index[KeyOf(q.levels[r][i])] = q.levels[r][i].sequence
    <3>1. q.levels[r][i] \in Pending(p) \cup {event}
      BY <1>7, InPending
    <3> QED BY <1>1, <1>2, <3>1, PendingFacts
  <2>2. ASSUME NEW k \in DOMAIN q.index
        PROVE  /\ k \in Keys /\ q.index[k] \in Nat /\ k.superstep \in DOMAIN q.levels
               /\ \E i \in DOMAIN q.levels[k.superstep] : KeyOf(q.levels[k.superstep][i]) = k
    <3>1. CASE k = KeyOf(event)
      BY <1>1, <1>2, <1>3, <1>4, <3>1
    <3>2. CASE k # KeyOf(event)
      <4>1. /\ k \in DOMAIN p.index /\ k \in Keys /\ q.index[k] \in Nat
            /\ k.superstep \in DOMAIN p.levels
        BY <1>2, <3>2 DEF Kept, Indexed
      <4>2. PICK i \in DOMAIN p.levels[k.superstep] : KeyOf(p.levels[k.superstep][i]) = k
        BY <4>1 DEF Kept, Indexed
      <4>3. i \in DOMAIN q.levels[k.superstep]
            /\ q.levels[k.superstep][i] = p.levels[k.superstep][i]
        BY <1>2, <1>3, <1>4, <4>1, <4>2
      <4> QED BY <1>2, <4>1, <4>2, <4>3
    <3> QED BY <3>1, <3>2
  <2> QED BY <2>1, <2>2 DEF Indexed
<1>10. Counted(q)
  <2>1. event \notin Pending(p)
    BY PendingFacts
  <2>2. IsFiniteSet(Pending(q)) /\ Cardinality(Pending(q)) = Cardinality(Pending(p)) + 1
    BY <1>7, <2>1, FS_AddElement DEF Kept, Counted
  <2>3. /\ IsFiniteSet(DOMAIN q.index)
        /\ Cardinality(DOMAIN q.index) = Cardinality(DOMAIN p.index) + 1
    <3>1. IsFiniteSet(DOMAIN p.index) /\ DOMAIN q.index = DOMAIN p.index \cup {KeyOf(event)}
      BY <1>2 DEF Kept, Counted
    <3> QED BY <3>1, OneElementMore
  <2> QED BY <1>2, <2>2, <2>3 DEF Kept, Counted
<1> QED BY <1>5, <1>6, <1>7, <1>8, <1>9, <1>10 DEF Kept, q

----------------------------------------------------------------------------
(* push() of a key that is queued                                          *)

LEMMA MergedEvent ==
  ASSUME NEW e \in Events, NEW event \in Events
  PROVE  /\ Merge(e, event) \in Events /\ KeyOf(Merge(e, event)) = KeyOf(e)
         /\ Merge(e, event).superstep = e.superstep
         /\ Merge(e, event).sequence = e.sequence
         /\ Merge(e, event) = [e EXCEPT !.payload = e.payload \o event.payload]
<1>1. e.payload \o event.payload \in Seq(Nat)
  BY ConcatProperties DEF Events
<1> QED BY <1>1 DEF Merge, Events, KeyOf

LEMMA Coalesced ==
  ASSUME NEW p, NEW n \in Nat, Kept(p, n), NEW event \in Events,
         KeyOf(event) \in DOMAIN p.index
  PROVE  /\ Kept(Coalesce(p, event), n)
         /\ \E e \in Pending(p) :
              /\ KeyOf(e) = KeyOf(event)
              /\ Pending(Coalesce(p, event)) = (Pending(p) \ {e}) \cup {Merge(e, event)}
<1> DEFINE q == Coalesce(p, event)
           s == event.superstep
           l == p.levels[s]
           m == q.levels[s]
<1>1. PICK e \in Pending(p) : KeyOf(e) = KeyOf(event)
  BY IndexedIsPending
<1>2. /\ e \in Events /\ e.superstep = s /\ s \in DOMAIN p.levels
      /\ p.index[KeyOf(event)] = e.sequence
      /\ \E i \in DOMAIN l : e = l[i]
  BY <1>1, PendingFacts DEF KeyOf
<1>3. /\ DOMAIN q.levels = DOMAIN p.levels
      /\ \A r \in DOMAIN p.levels \ {s} : q.levels[r] = p.levels[r]
      /\ q.index = p.index /\ q.size = p.size
      /\ q = [levels |-> q.levels, index |-> q.index, size |-> q.size]
      /\ m = [i \in DOMAIN l |-> IF l[i].sequence = p.index[KeyOf(event)]
                                 THEN Merge(l[i], event) ELSE l[i]]
  BY <1>2 DEF Coalesce, Kept, Bounded
<1> HIDE DEF q
<1>4. /\ DOMAIN l = 1 .. Len(l) /\ Len(l) \in Nat \ {0}
      /\ \A i \in DOMAIN l : /\ l[i] \in Events /\ l[i] \in Pending(p)
                            /\ l[i].superstep = s /\ l[i].sequence \in Nat
  BY <1>2, InLevel, InPending DEF Kept, Ordered, Events
\* The node the index names is the event of that key and no other.
<1>5. \A i \in DOMAIN l : l[i].sequence = e.sequence <=> l[i] = e
  <2> SUFFICES ASSUME NEW i \in DOMAIN l, l[i].sequence = e.sequence PROVE l[i] = e
    OBVIOUS
  <2>1. PICK j \in DOMAIN l : e = l[j]
    BY <1>2
  <2>2. \A a, b \in DOMAIN l : a < b => l[a].sequence < l[b].sequence
    BY <1>2 DEF Kept, Ordered
  <2>3. ~(i < j) /\ ~(j < i) /\ i \in Nat /\ j \in Nat
    BY <1>4, <2>1, <2>2
  <2> QED BY <2>1, <2>3
<1>6. /\ DOMAIN m = DOMAIN l
      /\ \A i \in DOMAIN l : m[i] = IF l[i] = e THEN Merge(e, event) ELSE l[i]
  BY <1>2, <1>3, <1>5
<1>7. \A i \in DOMAIN l : /\ m[i] \in Events /\ KeyOf(m[i]) = KeyOf(l[i])
                          /\ m[i].superstep = l[i].superstep
                          /\ m[i].sequence = l[i].sequence
  <2> HIDE DEF l, m, s
  <2> SUFFICES ASSUME NEW i \in DOMAIN l
               PROVE  /\ m[i] \in Events /\ KeyOf(m[i]) = KeyOf(l[i])
                      /\ m[i].superstep = l[i].superstep /\ m[i].sequence = l[i].sequence
    OBVIOUS
  <2>1. CASE l[i] = e
    <3>1. m[i] = Merge(e, event)
      BY <2>1, <1>6
    <3>2. e \in Events
      BY <1>2
    <3>3. /\ Merge(e, event) \in Events /\ KeyOf(Merge(e, event)) = KeyOf(e)
          /\ Merge(e, event).superstep = e.superstep
          /\ Merge(e, event).sequence = e.sequence
      BY <3>2, MergedEvent
    <3> QED BY <2>1, <3>1, <3>3
  <2>2. CASE l[i] # e
    BY <2>2, <1>4, <1>6
  <2> QED BY <2>1, <2>2
<1>8. m \in Seq(Events) /\ m # <<>>
  <2>1. m \in [1 .. Len(l) -> Events]
    BY <1>3, <1>4, <1>6, <1>7
  <2>2. m \in Seq(Events)
    BY <1>4, <2>1, SeqDef
  <2> QED BY <1>4, <1>6, <2>2, EmptySeq, LenProperties
<1> HIDE DEF l, m, s
<1>9. Bounded(q) /\ LevelsTyped(q)
  BY <1>3, <1>8 DEF Kept, Bounded, LevelsTyped, m
<1>10. Ordered(q, n)
  <2> SUFFICES ASSUME NEW r \in DOMAIN q.levels
               PROVE  /\ \A i \in DOMAIN q.levels[r] : /\ q.levels[r][i].superstep = r
                                                       /\ q.levels[r][i].sequence < n
                      /\ \A i, j \in DOMAIN q.levels[r] :
                           i < j => q.levels[r][i].sequence < q.levels[r][j].sequence
    BY DEF Ordered
  <2>1. CASE r = s
    <3>1. /\ \A i \in DOMAIN l : l[i].superstep = s /\ l[i].sequence < n
          /\ \A i, j \in DOMAIN l : i < j => l[i].sequence < l[j].sequence
      BY <1>2 DEF Kept, Ordered, l
    <3> QED BY <2>1, <3>1, <1>6, <1>7 DEF m
  <2>2. CASE r # s
    BY <2>2, <1>3 DEF Kept, Ordered
  <2> QED BY <2>1, <2>2
<1>11. Indexed(q)
  <2>1. ASSUME NEW r \in DOMAIN q.levels, NEW i \in DOMAIN q.levels[r]
        PROVE  /\ KeyOf(q.levels[r][i]) \in DOMAIN q.index
               /\ q.index[KeyOf(q.levels[r][i])] = q.levels[r][i].sequence
    <3>1. CASE r = s
      <4>1. i \in DOMAIN l /\ q.levels[r][i] = m[i]
        BY <3>1, <1>6 DEF m
      <4>2. KeyOf(l[i]) \in DOMAIN p.index /\ p.index[KeyOf(l[i])] = l[i].sequence
        BY <1>2, <4>1 DEF Kept, Indexed, l
      <4> QED BY <1>3, <1>7, <4>1, <4>2
    <3>2. CASE r # s
      BY <3>2, <2>1, <1>3 DEF Kept, Indexed
    <3> QED BY <3>1, <3>2
  <2>2. ASSUME NEW k \in DOMAIN q.index
        PROVE  /\ k \in Keys /\ q.index[k] \in Nat /\ k.superstep \in DOMAIN q.levels
               /\ \E i \in DOMAIN q.levels[k.superstep] : KeyOf(q.levels[k.superstep][i]) = k
    <3>1. k \in Keys /\ q.index[k] \in Nat /\ k.superstep \in DOMAIN q.levels
      BY <1>3 DEF Kept, Indexed
    <3>2. PICK i \in DOMAIN p.levels[k.superstep] : KeyOf(p.levels[k.superstep][i]) = k
      BY <1>3 DEF Kept, Indexed
    <3>3. CASE k.superstep = s
      BY <3>1, <3>2, <3>3, <1>6, <1>7 DEF l, m
    <3>4. CASE k.superstep # s
      BY <3>1, <3>2, <3>4, <1>3
    <3> QED BY <3>1, <3>3, <3>4
  <2> QED BY <2>1, <2>2 DEF Indexed
<1>12. Pending(q) = (Pending(p) \ {e}) \cup {Merge(e, event)}
  <2>1. ASSUME NEW x PROVE x \in Pending(q) <=> (x \in Pending(p) /\ x # e) \/ x = Merge(e, event)
    <3>1. x \in Pending(q) <=>
            \/ \E r \in DOMAIN p.levels \ {s} : \E i \in DOMAIN p.levels[r] : x = p.levels[r][i]
            \/ \E i \in DOMAIN l : x = m[i]
      <4>1. x \in Pending(q) <=>
              \/ \E r \in DOMAIN p.levels \ {s} : \E i \in DOMAIN q.levels[r] : x = q.levels[r][i]
              \/ \E i \in DOMAIN q.levels[s] : x = q.levels[s][i]
        BY <1>2, <1>3, InPending
      <4> QED BY <1>3, <1>6, <4>1 DEF m
    <3>2. x \in Pending(p) <=>
            \/ \E r \in DOMAIN p.levels \ {s} : \E i \in DOMAIN p.levels[r] : x = p.levels[r][i]
            \/ \E i \in DOMAIN l : x = l[i]
      BY <1>2, InPending DEF l
    <3>3. \A r \in DOMAIN p.levels \ {s} : \A i \in DOMAIN p.levels[r] : p.levels[r][i] # e
      BY <1>2 DEF Kept, Ordered
    <3>4. (\E i \in DOMAIN l : x = m[i]) <=>
            (x = Merge(e, event) \/ \E i \in DOMAIN l : x = l[i] /\ x # e)
      BY <1>2, <1>6
    <3> QED BY <3>1, <3>2, <3>3, <3>4
  <2> QED BY <2>1
<1>13. Counted(q)
  <2>1. IsFiniteSet(Pending(p)) /\ p.size = Cardinality(Pending(p))
        /\ IsFiniteSet(DOMAIN p.index) /\ p.size = Cardinality(DOMAIN p.index)
    BY DEF Kept, Counted
  <2>2. Cardinality(Pending(p)) \in Nat
    BY <2>1, FS_CardinalityType
  <2>3. IsFiniteSet(Pending(p) \ {e}) /\ Cardinality(Pending(p) \ {e}) = Cardinality(Pending(p)) - 1
    BY <2>1, FS_RemoveElement
  <2>4. Merge(e, event) \notin Pending(p) \ {e}
    BY <1>2, MergedEvent, OnePerKey
  <2>5. /\ IsFiniteSet(Pending(q))
        /\ Cardinality(Pending(q)) = Cardinality(Pending(p) \ {e}) + 1
    BY <1>12, <2>3, <2>4, FS_AddElement
  <2> QED BY <1>3, <2>1, <2>2, <2>3, <2>5 DEF Counted
<1> QED BY <1>1, <1>9, <1>10, <1>11, <1>12, <1>13 DEF Kept, q

----------------------------------------------------------------------------
(* pop()                                                                   *)

LEMMA LowestFound ==
  ASSUME NEW p, LevelsTyped(p), DOMAIN p.levels # {}
  PROVE  LowestLevel(p) \in DOMAIN p.levels /\ \A r \in DOMAIN p.levels : LowestLevel(p) <= r
<1>1. DOMAIN p.levels \subseteq Nat
  BY PartitionAssumption DEF LevelsTyped
<1> QED BY <1>1, LeastExists DEF LowestLevel

LEMMA Popped ==
  ASSUME NEW p, NEW n \in Nat, Kept(p, n), p.size # 0
  PROVE  /\ Kept(PopFront(p), n)
         /\ Front(p) \in Pending(p)
         /\ Pending(PopFront(p)) = Pending(p) \ {Front(p)}
         /\ \A e \in Pending(p) \ {Front(p)} :
              \/ Front(p).superstep < e.superstep
              \/ Front(p).superstep = e.superstep /\ Front(p).sequence < e.sequence
<1> DEFINE q == PopFront(p)
           s == LowestLevel(p)
           l == p.levels[s]
           f == Front(p)
<1>1. s \in DOMAIN p.levels /\ \A r \in DOMAIN p.levels : s <= r
  <2>1. Pending(p) # {}
    BY FS_EmptySet DEF Kept, Counted
  <2>2. DOMAIN p.levels # {}
    BY <2>1, InPending
  <2> QED BY <2>2, LowestFound DEF Kept
<1>2. /\ l \in Seq(Events) /\ l # <<>> /\ Len(l) \in Nat \ {0} /\ DOMAIN l = 1 .. Len(l)
      /\ s \in Nat
      /\ \A i \in DOMAIN l : l[i] \in Events /\ l[i].superstep = s /\ l[i].sequence \in Nat
      /\ \A i, j \in DOMAIN l : i < j => l[i].sequence < l[j].sequence
  BY <1>1, InLevel, EmptySeq DEF Kept, Ordered, Events
<1>3. f = l[1] /\ f \in Pending(p) /\ f \in Events /\ f.superstep = s
  <2>1. f = l[1] /\ 1 \in DOMAIN l
    BY <1>2 DEF Front
  <2> QED BY <1>1, <1>2, <2>1, InPending
<1>4. /\ Tail(l) \in Seq(Events) /\ Len(Tail(l)) = Len(l) - 1
      /\ DOMAIN Tail(l) = 1 .. Len(l) - 1
      /\ \A i \in 1 .. Len(l) - 1 : Tail(l)[i] = l[i + 1]
      /\ Tail(l) = <<>> <=> Len(l) = 1
  <2>1. /\ Tail(l) \in Seq(Events) /\ Len(Tail(l)) = Len(l) - 1
        /\ \A i \in 1 .. Len(Tail(l)) : Tail(l)[i] = l[i + 1]
    BY <1>2, HeadTailProperties
  <2>2. DOMAIN Tail(l) = 1 .. Len(Tail(l)) /\ (Tail(l) = <<>> <=> Len(Tail(l)) = 0)
    BY <2>1, LenProperties, EmptySeq
  <2> HIDE DEF l
  <2> QED BY <1>2, <2>1, <2>2
<1>5. /\ DOMAIN q.levels = IF Tail(l) = <<>> THEN DOMAIN p.levels \ {s} ELSE DOMAIN p.levels
      /\ \A r \in DOMAIN p.levels \ {s} : r \in DOMAIN q.levels /\ q.levels[r] = p.levels[r]
      /\ Tail(l) # <<>> => q.levels[s] = Tail(l)
      /\ DOMAIN q.index = DOMAIN p.index \ {KeyOf(f)}
      /\ \A k \in DOMAIN q.index : q.index[k] = p.index[k]
      /\ q.size = p.size - 1
      /\ q = [levels |-> q.levels, index |-> q.index, size |-> q.size]
  BY <1>1 DEF PopFront, LevelsAfterPop, IndexAfterPop
<1>6. Bounded(q)
  BY PopLeavesRoom DEF Kept
<1> HIDE DEF q, f, l, s
<1>7. LevelsTyped(q)
  BY <1>1, <1>4, <1>5 DEF Kept, LevelsTyped
<1>8. Ordered(q, n)
  <2> SUFFICES ASSUME NEW r \in DOMAIN q.levels
               PROVE  /\ \A i \in DOMAIN q.levels[r] : /\ q.levels[r][i].superstep = r
                                                       /\ q.levels[r][i].sequence < n
                      /\ \A i, j \in DOMAIN q.levels[r] :
                           i < j => q.levels[r][i].sequence < q.levels[r][j].sequence
    BY DEF Ordered
  <2>1. CASE r = s
    <3>1. q.levels[r] = Tail(l)
      BY <2>1, <1>5
    <3>2. \A i \in DOMAIN l : l[i].sequence < n
      BY <1>1 DEF Kept, Ordered, l
    <3>3. \A i \in 1 .. Len(l) - 1 : i + 1 \in DOMAIN l /\ i \in Int
      BY <1>2
    <3>4. \A i \in 1 .. Len(l) - 1 : /\ Tail(l)[i].superstep = s
                                    /\ Tail(l)[i].sequence < n
      BY <1>2, <1>4, <3>2, <3>3
    <3>5. \A i, j \in 1 .. Len(l) - 1 : i < j => Tail(l)[i].sequence < Tail(l)[j].sequence
      <4> SUFFICES ASSUME NEW i \in 1 .. Len(l) - 1, NEW j \in 1 .. Len(l) - 1, i < j
                   PROVE  l[i + 1].sequence < l[j + 1].sequence
        BY <1>4
      <4>1. i + 1 < j + 1 /\ i + 1 \in DOMAIN l /\ j + 1 \in DOMAIN l
        BY <3>3
      <4> QED BY <1>2, <4>1
    <3> QED BY <2>1, <3>1, <3>4, <3>5, <1>4
  <2>2. CASE r # s
    BY <2>2, <1>5 DEF Kept, Ordered
  <2> QED BY <2>1, <2>2
<1>9. Pending(q) = Pending(p) \ {f}
  <2>1. ASSUME NEW x PROVE x \in Pending(q) <=> x \in Pending(p) /\ x # f
    <3>1. x \in Pending(q) <=>
            \/ \E r \in DOMAIN p.levels \ {s} : \E i \in DOMAIN p.levels[r] : x = p.levels[r][i]
            \/ \E i \in 1 .. Len(l) - 1 : x = l[i + 1]
      <4>1. CASE Tail(l) = <<>>
        <5>1. x \in Pending(q) <=>
                \E r \in DOMAIN p.levels \ {s} : \E i \in DOMAIN q.levels[r] : x = q.levels[r][i]
          BY <1>5, <4>1, InPending
        <5>2. 1 .. Len(l) - 1 = {}
          BY <1>4, <4>1
        <5> QED BY <1>5, <5>1, <5>2
      <4>2. CASE Tail(l) # <<>>
        <5>1. x \in Pending(q) <=>
                \/ \E r \in DOMAIN p.levels \ {s} : \E i \in DOMAIN q.levels[r] : x = q.levels[r][i]
                \/ \E i \in DOMAIN q.levels[s] : x = q.levels[s][i]
          BY <1>1, <1>5, <4>2, InPending
        <5>2. (\E i \in DOMAIN q.levels[s] : x = q.levels[s][i])
                <=> \E i \in 1 .. Len(l) - 1 : x = l[i + 1]
          BY <1>4, <1>5, <4>2
        <5>3. \A r \in DOMAIN p.levels \ {s} : q.levels[r] = p.levels[r]
          BY <1>5
        <5> QED BY <5>1, <5>2, <5>3
      <4> QED BY <4>1, <4>2
    <3>2. x \in Pending(p) <=>
            \/ \E r \in DOMAIN p.levels \ {s} : \E i \in DOMAIN p.levels[r] : x = p.levels[r][i]
            \/ \E i \in DOMAIN l : x = l[i]
      BY <1>1, InPending DEF l
    <3>3. \A r \in DOMAIN p.levels \ {s} : \A i \in DOMAIN p.levels[r] : p.levels[r][i] # f
      BY <1>3 DEF Kept, Ordered
    <3>4. (\E i \in 1 .. Len(l) - 1 : x = l[i + 1]) <=> (\E i \in DOMAIN l : x = l[i] /\ i # 1)
      <4>1. ASSUME NEW i \in DOMAIN l, i # 1 PROVE i - 1 \in 1 .. Len(l) - 1 /\ i = (i - 1) + 1
        BY <1>2, <4>1
      <4>2. \A i \in 1 .. Len(l) - 1 : i + 1 \in DOMAIN l /\ i + 1 # 1
        BY <1>2
      <4> QED BY <4>1, <4>2
    <3>5. \A i \in DOMAIN l : i # 1 => l[i] # f
      <4>1. \A i \in DOMAIN l : i # 1 => l[1].sequence < l[i].sequence
        BY <1>2
      <4> QED BY <1>2, <1>3, <4>1
    <3> QED BY <3>1, <3>2, <3>3, <3>4, <3>5, <1>3
  <2> QED BY <2>1
<1>10. \A e \in Pending(p) \ {f} :
         f.superstep < e.superstep \/ (f.superstep = e.superstep /\ f.sequence < e.sequence)
  <2> SUFFICES ASSUME NEW e \in Pending(p), e # f
               PROVE  \/ f.superstep < e.superstep
                      \/ f.superstep = e.superstep /\ f.sequence < e.sequence
    OBVIOUS
  <2>1. e.superstep \in DOMAIN p.levels /\ \E i \in DOMAIN p.levels[e.superstep] :
                                              e = p.levels[e.superstep][i]
    BY PendingFacts
  <2>2. e.superstep \in Nat /\ s <= e.superstep
    BY <1>1, <2>1, InLevel DEF Kept
  <2>3. CASE e.superstep = s
    <3>1. PICK i \in DOMAIN l : e = l[i]
      BY <2>1, <2>3 DEF l
    <3>2. i # 1 /\ 1 \in DOMAIN l /\ 1 < i
      BY <1>2, <1>3, <3>1
    <3> QED BY <1>2, <1>3, <2>3, <3>1, <3>2
  <2> QED BY <1>2, <1>3, <2>2, <2>3
<1>11. Indexed(q)
  <2>1. ASSUME NEW r \in DOMAIN q.levels, NEW i \in DOMAIN q.levels[r]
        PROVE  /\ KeyOf(q.levels[r][i]) \in DOMAIN q.index
               /\ q.index[KeyOf(q.levels[r][i])] = q.levels[r][i].sequence
    <3>1. q.levels[r][i] \in Pending(p) \ {f}
      BY <1>9, InPending
    <3>2. KeyOf(q.levels[r][i]) # KeyOf(f)
      BY <1>3, <3>1, OnePerKey
    <3> QED BY <1>5, <3>1, <3>2, PendingFacts
  <2>2. ASSUME NEW k \in DOMAIN q.index
        PROVE  /\ k \in Keys /\ q.index[k] \in Nat /\ k.superstep \in DOMAIN q.levels
               /\ \E i \in DOMAIN q.levels[k.superstep] : KeyOf(q.levels[k.superstep][i]) = k
    <3>1. k \in DOMAIN p.index /\ k # KeyOf(f) /\ k \in Keys /\ q.index[k] \in Nat
      BY <1>5 DEF Kept, Indexed
    <3>2. PICK e \in Pending(p) : KeyOf(e) = k
      BY <3>1, IndexedIsPending
    <3>3. e \in Pending(q) /\ e.superstep = k.superstep
      BY <1>9, <3>1, <3>2 DEF KeyOf
    <3>4. PICK r \in DOMAIN q.levels : \E i \in DOMAIN q.levels[r] : e = q.levels[r][i]
      BY <3>3, InPending
    <3>5. r = k.superstep
      BY <1>8, <3>3, <3>4 DEF Ordered
    <3> QED BY <3>1, <3>2, <3>4, <3>5
  <2> QED BY <2>1, <2>2 DEF Indexed
<1>12. Counted(q)
  <2>1. IsFiniteSet(Pending(p)) /\ p.size = Cardinality(Pending(p))
        /\ IsFiniteSet(DOMAIN p.index) /\ p.size = Cardinality(DOMAIN p.index)
    BY DEF Kept, Counted
  <2>2. IsFiniteSet(Pending(q)) /\ Cardinality(Pending(q)) = Cardinality(Pending(p)) - 1
    BY <1>3, <1>9, <2>1, FS_RemoveElement
  <2>3. KeyOf(f) \in DOMAIN p.index
    BY <1>3, PendingFacts
  <2>4. /\ IsFiniteSet(DOMAIN q.index)
        /\ Cardinality(DOMAIN q.index) = Cardinality(DOMAIN p.index) - 1
    BY <1>5, <2>1, <2>3, FS_RemoveElement
  <2> QED BY <1>5, <2>1, <2>2, <2>4 DEF Counted
<1> QED BY <1>3, <1>6, <1>7, <1>8, <1>9, <1>10, <1>11, <1>12 DEF Kept, q, f
=============================================================================
