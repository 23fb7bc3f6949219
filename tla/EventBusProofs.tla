--------------------------- MODULE EventBusProofs ----------------------------
(***************************************************************************)
(* The bus, by itself and with the scheduler as one of its publishers, for *)
(* any number of threads, subscribers, publications and requests.          *)
(*                                                                         *)
(* m_publish_mutex: PreflightHolds is not inductive.  A push by another    *)
(* publisher would break it, so the mutex has to belong to the one thread  *)
(* that has a fan-out; and a pop would break it for an event that was to   *)
(* be merged into the one popped, had the partition been above its         *)
(* capacity (BusInv).                                                      *)
(*                                                                         *)
(* m_lifecycle_mutex: the workers match the registry between lifecycle     *)
(* calls, because of where in its call its owner can be (LifecycleInv).    *)
(*                                                                         *)
(* What the handlers get to see over the whole history: in order, each     *)
(* publication once, and to all its subscribers or none.  The history of a *)
(* slot (History) relates its partition, what its handler was given and    *)
(* what was pushed to it, below a number n.  A fan-out that is under way   *)
(* splits the slots: those it has reached have the event that it carries,  *)
(* the others have a history below that event's number (HistoryInv).       *)
(*                                                                         *)
(* The scheduler: every step of SchedulerBus is one of the bus or leaves   *)
(* the bus alone, so all of the above holds there too; AttemptInv relates  *)
(* it to the queue: which publication was made for which request, and what *)
(* an attempt that is over has left in the partitions.                     *)
(***************************************************************************)
EXTENDS SchedulerBus, PartitionProofs

FanoutType == [event : SUBSET Events, targets : SUBSET Slots,
               unchecked : SUBSET Slots, unpushed : SUBSET Slots]

Types ==
  /\ pc \in [Threads -> PCs]
  /\ fanout \in [Threads -> FanoutType]
  /\ sequence \in Nat
  /\ subscribers \subseteq Slots
  /\ \A t \in Threads : \A a, b \in fanout[t].event : a = b

\* The publish mutex belongs to the thread that is in publish(), and only that
\* thread has a fan-out.
Exclusive ==
  \A t \in Threads :
    /\ pc[t] = "publish" <=> publishing = t
    /\ pc[t] # "publish" => fanout[t] = NoFanout

PartitionsOK ==
  /\ partition = [s \in Slots |-> partition[s]]
  /\ \A s \in Slots : Bounded(partition[s])

BusInv == Types /\ Exclusive /\ PartitionsOK /\ PreflightHolds

----------------------------------------------------------------------------
(* Only the owner of the mutex has a fan-out.                              *)

LEMMA FanoutIsOwned ==
  ASSUME Exclusive
  PROVE  \A t \in Threads : fanout[t].event # {} => publishing = t
BY DEF Exclusive, NoFanout

LEMMA FreeMeansNone ==
  ASSUME Exclusive, publishing = Free
  PROVE  \A t \in Threads : fanout[t] = NoFanout
BY EventBusAssumption DEF Exclusive

\* A call that ends releases the mutex and leaves no fan-out behind.
LEMMA LeaveStep ==
  ASSUME Types, Exclusive, NEW t \in Threads, pc[t] = "publish", Leave(t)
  PROVE  /\ pc' \in [Threads -> PCs] /\ fanout' \in [Threads -> FanoutType]
         /\ Exclusive' /\ \A u \in Threads : fanout'[u].event = {}
<1>1. publishing = t /\ \A u \in Threads \ {t} : pc[u] # "publish" /\ fanout[u] = NoFanout
  BY DEF Exclusive
<1>2. /\ pc' = [pc EXCEPT ![t] = "idle"] /\ publishing' = Free
      /\ fanout' = [fanout EXCEPT ![t] = NoFanout]
  BY DEF Leave
<1>3. NoFanout \in FanoutType /\ NoFanout.event = {} /\ "idle" \in PCs
  BY DEF NoFanout, FanoutType, PCs
<1>4. /\ pc' \in [Threads -> PCs] /\ fanout' \in [Threads -> FanoutType]
      /\ \A u \in Threads : fanout'[u] = NoFanout /\ pc'[u] # "publish"
  BY <1>1, <1>2, <1>3 DEF Types
<1> QED BY <1>2, <1>3, <1>4, EventBusAssumption DEF Exclusive

\* The lowest of some slots is one of them.
LEMMA LowestIsMember ==
  ASSUME NEW S, S \subseteq Slots, S # {}
  PROVE  Lowest(S) \in S
<1>1. S \subseteq Nat
  BY EventBusAssumption
<1> QED BY <1>1, LeastExists DEF Lowest

----------------------------------------------------------------------------
(* The publisher                                                           *)

LEMMA BeginStep ==
  ASSUME BusInv, NEW t \in Threads, NEW event \in Events, NEW targets \in SUBSET Slots,
         Begin(t, event, targets)
  PROVE  BusInv'
<1> USE DEF BusInv
<1> DEFINE f == [event |-> {event}, targets |-> targets,
                 unchecked |-> targets, unpushed |-> targets]
<1>1. /\ publishing = Free /\ publishing' = t /\ sequence' = sequence + 1
      /\ fanout' = [fanout EXCEPT ![t] = f] /\ pc' = [pc EXCEPT ![t] = "publish"]
      /\ UNCHANGED <<subscribers, partition>>
  BY DEF Begin, PublishMutexFree, registry, delivery
<1>2. f \in FanoutType /\ "publish" \in PCs /\ f.unpushed \ f.unchecked = {}
  BY DEF FanoutType, PCs
<1>3. \A u \in Threads : fanout[u] = NoFanout /\ pc[u] # "publish"
  BY <1>1, FreeMeansNone, EventBusAssumption DEF Exclusive
<1> HIDE DEF f
<1>4. Types'
  <2>1. \A a, b \in fanout'[t].event : a = b
    BY <1>1 DEF Types, f
  <2>2. \A u \in Threads \ {t} : fanout'[u] = fanout[u]
    BY <1>1 DEF Types
  <2> QED BY <1>1, <1>2, <2>1, <2>2 DEF Types
<1>5. Exclusive'
  BY <1>1, <1>3 DEF Exclusive, Types
<1>6. PartitionsOK'
  BY <1>1 DEF PartitionsOK
<1>7. PreflightHolds'
  <2>1. \A u \in Threads \ {t} : fanout'[u].event = {}
    BY <1>1, <1>3 DEF Types, NoFanout
  <2>2. fanout'[t].unpushed \ fanout'[t].unchecked = {}
    BY <1>1, <1>2 DEF Types
  <2> QED BY <2>1, <2>2 DEF PreflightHolds
<1> QED BY <1>4, <1>5, <1>6, <1>7

LEMMA PreflightStep ==
  ASSUME BusInv, NEW t \in Threads, Preflight(t)
  PROVE  BusInv'
<1> USE DEF BusInv
<1>0. PICK s \in Slots, event \in fanout[t].event :
        /\ Checking(t, s)
        /\ IF CanAccept(partition[s], event)
             THEN /\ fanout' = [fanout EXCEPT ![t].unchecked = fanout[t].unchecked \ {s}]
                  /\ UNCHANGED <<publishing, pc>>
             ELSE Leave(t)
  BY DEF Preflight
<1>1. pc[t] = "publish" /\ UNCHANGED <<subscribers, sequence, partition>>
  BY DEF Preflight, registry, delivery
<1>2. PartitionsOK' /\ sequence' \in Nat /\ subscribers' \subseteq Slots
  BY <1>1 DEF PartitionsOK, Types
<1>3. CASE CanAccept(partition[s], event)
  <2>1. /\ fanout' = [fanout EXCEPT ![t].unchecked = fanout[t].unchecked \ {s}]
        /\ UNCHANGED <<publishing, pc>>
    BY <1>0, <1>3
  <2>2. /\ fanout' \in [Threads -> FanoutType]
        /\ fanout'[t].event = fanout[t].event /\ fanout'[t].unpushed = fanout[t].unpushed
        /\ fanout'[t].unchecked = fanout[t].unchecked \ {s}
        /\ \A u \in Threads \ {t} : fanout'[u] = fanout[u]
    BY <2>1 DEF Types, FanoutType
  <2>3. Types' /\ Exclusive'
    BY <1>1, <1>2, <2>1, <2>2 DEF Types, Exclusive
  <2>4. \A e \in fanout[t].event : e = event
    BY DEF Types
  <2>5. PreflightHolds'
    BY <1>1, <1>3, <2>2, <2>4 DEF PreflightHolds
  <2> QED BY <1>2, <2>3, <2>5
<1>4. CASE ~CanAccept(partition[s], event)
  BY <1>0, <1>1, <1>2, <1>4, LeaveStep DEF PreflightHolds, Types
<1> QED BY <1>3, <1>4

LEMMA PushStep ==
  ASSUME BusInv, NEW t \in Threads, PushNext(t)
  PROVE  BusInv'
<1> USE DEF BusInv
<1>0. PICK s \in Slots, event \in fanout[t].event :
        /\ Pushing(t, s)
        /\ partition' = [partition EXCEPT ![s] = Push(partition[s], event)]
        /\ \/ Leave(t)
           \/ /\ fanout' = [fanout EXCEPT ![t].unpushed = RestOf(t, s)]
              /\ UNCHANGED <<publishing, pc>>
  BY Zenon DEF PushNext
<1>1. pc[t] = "publish" /\ UNCHANGED <<subscribers, sequence>>
  BY DEF PushNext, registry
<1>2. /\ partition'[s] = Push(partition[s], event)
      /\ \A r \in Slots \ {s} : partition'[r] = partition[r]
      /\ partition' = [r \in Slots |-> partition'[r]]
  BY <1>0 DEF PartitionsOK
<1>3. PartitionsOK'
  BY <1>2, PushKeepsBounded DEF PartitionsOK
<1>4. CASE Leave(t)
  BY <1>1, <1>3, <1>4, LeaveStep DEF PreflightHolds, Types
<1>5. CASE /\ fanout' = [fanout EXCEPT ![t].unpushed = RestOf(t, s)]
           /\ UNCHANGED <<publishing, pc>>
  <2>1. /\ fanout' \in [Threads -> FanoutType]
        /\ fanout'[t].event = fanout[t].event
        /\ fanout'[t].unchecked = fanout[t].unchecked
        /\ fanout'[t].unpushed = fanout[t].unpushed \ {s}
        /\ \A u \in Threads \ {t} : fanout'[u] = fanout[u]
    BY <1>5 DEF Types, FanoutType, RestOf
  <2>2. Types' /\ Exclusive'
    BY <1>1, <1>5, <2>1 DEF Types, Exclusive
  <2>3. \A u \in Threads \ {t} : fanout'[u].event = {}
    BY <1>1, <2>1 DEF Exclusive, NoFanout
  <2>4. fanout[t].unpushed \subseteq Slots
    BY DEF Types, FanoutType
  <2>5. \A r \in fanout'[t].unpushed \ fanout'[t].unchecked :
          partition'[r] = partition[r] /\ r \in fanout[t].unpushed \ fanout[t].unchecked
    BY <1>2, <2>1, <2>4
  <2>6. PreflightHolds'
    BY <2>1, <2>3, <2>5 DEF PreflightHolds, CanAccept
  <2> QED BY <1>3, <2>2, <2>6
<1> QED BY <1>0, <1>4, <1>5

LEMMA EndingStep ==
  ASSUME BusInv, NEW t \in Threads, MergerFails(t) \/ PublishReturns(t)
  PROVE  BusInv'
<1>1. /\ pc[t] = "publish" /\ Leave(t)
      /\ UNCHANGED <<subscribers, sequence, partition>>
  BY DEF MergerFails, PublishReturns, registry, delivery
<1> QED BY <1>1, LeaveStep DEF BusInv, PreflightHolds, Types, PartitionsOK

----------------------------------------------------------------------------
(* The other calls and the workers                                         *)

\* A step of another call moves one thread between states outside publish().
LEMMA OtherCallStep ==
  ASSUME BusInv, NEW t \in Threads, pc[t] # "publish",
         NEW to \in PCs \ {"publish"}, pc' = [pc EXCEPT ![t] = to],
         UNCHANGED <<publishing, fanout, sequence>>, subscribers' \subseteq Slots
  PROVE  Types' /\ Exclusive'
<1>1. \A u \in Threads : (pc'[u] = "publish") <=> (pc[u] = "publish")
  BY DEF BusInv, Types
<1>2. pc' \in [Threads -> PCs]
  BY DEF BusInv, Types
<1> QED BY <1>1, <1>2 DEF BusInv, Types, Exclusive

\* With no publication under way, any bounded partition will do.
LEMMA NoPublication ==
  ASSUME BusInv, publishing = Free, UNCHANGED fanout
  PROVE  PreflightHolds'
BY FreeMeansNone DEF BusInv, PreflightHolds, NoFanout

LEMMA MembershipStep ==
  ASSUME BusInv, NEW t \in Threads,
         MembershipLocks(t) \/ Subscribe(t) \/ \E s \in Slots : Unsubscribe(t, s)
  PROVE  BusInv'
<1> USE DEF BusInv
<1>1. CASE MembershipLocks(t)
  <2>1. PICK to \in {"add", "remove"} : pc' = [pc EXCEPT ![t] = to]
    BY <1>1 DEF MembershipLocks, Proceeds
  <2>2. /\ UNCHANGED <<publishing, fanout, sequence, subscribers, partition>>
        /\ pc[t] # "publish"
    BY <1>1 DEF MembershipLocks, registry, delivery
  <2>3. Types' /\ Exclusive'
    BY <2>1, <2>2, OtherCallStep DEF PCs, Types
  <2> QED BY <2>2, <2>3 DEF PartitionsOK, PreflightHolds
<1>2. ASSUME Subscribe(t) \/ \E s \in Slots : Unsubscribe(t, s)
      PROVE  BusInv'
  <2>1. /\ pc' = [pc EXCEPT ![t] = "idle"] /\ pc[t] # "publish" /\ publishing = Free
        /\ UNCHANGED <<publishing, fanout, sequence>>
    BY <1>2 DEF Subscribe, Unsubscribe, Returns
  <2>2. subscribers' \subseteq Slots
        /\ \/ UNCHANGED partition
           \/ \E r \in Slots : partition' = [partition EXCEPT ![r] = EmptyPartition]
    <3>1. ASSUME NEW s \in Slots, Unsubscribe(t, s)
          PROVE  /\ subscribers' \subseteq Slots
                 /\ \/ UNCHANGED partition
                    \/ \E r \in Slots : partition' = [partition EXCEPT ![r] = EmptyPartition]
      BY <3>1 DEF Unsubscribe, registry, delivery, Types
    <3>2. CASE Subscribe(t)
      <4>1. CASE Frozen \/ FreeSlots = {}
        BY <3>2, <4>1 DEF Subscribe, registry, delivery, Types
      <4>2. CASE ~Frozen /\ FreeSlots # {}
        <5>1. Lowest(FreeSlots) \in FreeSlots
          BY <4>2, LowestIsMember DEF FreeSlots
        <5> QED BY <3>2, <4>2, <5>1 DEF Subscribe, FreeSlots, Types
      <4> QED BY <4>1, <4>2
    <3> QED BY <1>2, <3>1, <3>2
  <2>3. Types' /\ Exclusive'
    BY <2>1, <2>2, OtherCallStep DEF PCs
  <2>4. PartitionsOK'
    BY <2>2, EmptyIsBounded DEF PartitionsOK
  <2>5. PreflightHolds'
    BY <2>1, NoPublication
  <2> QED BY <2>3, <2>4, <2>5
<1> QED BY <1>1, <1>2

LEMMA LifecycleCallStep ==
  ASSUME BusInv, NEW t \in Threads,
         \/ \E call \in Calls : Call(t, call)
         \/ Start(t) \/ Launch(t) \/ LaunchFails(t) \/ Stop(t) \/ StopWakes(t)
         \/ StopReturns(t)
  PROVE  BusInv'
<1>1. /\ UNCHANGED <<publishing, fanout, sequence, subscribers, partition>>
      /\ pc[t] # "publish"
  BY DEF Call, MayCall, Start, Launch, LaunchFails, Stop, StopWakes, StopReturns, registry,
         delivery
<1>2. \E to \in PCs \ {"publish"} : pc' = [pc EXCEPT ![t] = to]
  BY DEF Call, Calls, Start, Launch, LaunchFails, Stop, StopWakes, StopReturns, Returns,
         Proceeds, PCs
<1>3. Types' /\ Exclusive'
  BY <1>1, <1>2, OtherCallStep DEF BusInv, Types
<1> QED BY <1>1, <1>3 DEF BusInv, PartitionsOK, PreflightHolds

LEMMA WorkersStep ==
  ASSUME BusInv, NEW s \in Slots, WorkerStep(s)
  PROVE  BusInv'
<1> USE DEF BusInv
<1>1. UNCHANGED <<pc, publishing, fanout, sequence, subscribers>>
  BY DEF WorkerStep, registry
<1>2. \/ UNCHANGED partition
      \/ /\ partition[s].size # 0
         /\ partition' = [partition EXCEPT ![s] = PopFront(partition[s])]
  BY DEF WorkerStep, Consume, Poll, FallAsleep, WaitEnds, HandlerReturns, WorkerExits,
         GoesTo, TakeFront, delivery
<1>3. Types' /\ Exclusive'
  BY <1>1 DEF Types, Exclusive
<1>4. CASE UNCHANGED partition
  BY <1>1, <1>3, <1>4 DEF PartitionsOK, PreflightHolds
<1>5. CASE /\ partition[s].size # 0
           /\ partition' = [partition EXCEPT ![s] = PopFront(partition[s])]
  <2>1. /\ partition'[s] = PopFront(partition[s])
        /\ \A r \in Slots \ {s} : partition'[r] = partition[r]
        /\ partition' = [r \in Slots |-> partition'[r]]
    BY <1>5 DEF PartitionsOK
  <2>2. Bounded(partition'[s]) /\ partition'[s].size < Capacity
    BY <1>5, <2>1, PopLeavesRoom DEF PartitionsOK
  <2>3. PartitionsOK'
    BY <2>1, <2>2 DEF PartitionsOK
  <2>4. PreflightHolds'
    BY <1>1, <2>1, <2>2 DEF PreflightHolds, CanAccept, Types, FanoutType
  <2> QED BY <1>3, <2>3, <2>4
<1> QED BY <1>2, <1>4, <1>5

----------------------------------------------------------------------------
(* The theorems                                                            *)

LEMMA BusInit ==
  ASSUME Init
  PROVE  BusInv
<1> USE DEF Init
<1>1. NoFanout \in FanoutType /\ NoFanout.event = {} /\ "idle" \in PCs
  BY DEF NoFanout, FanoutType, PCs
<1>2. Types
  BY <1>1 DEF Types
<1>3. Exclusive
  BY EventBusAssumption DEF Exclusive
<1>4. PartitionsOK /\ PreflightHolds
  BY <1>1, EmptyIsBounded DEF PartitionsOK, PreflightHolds
<1> QED BY <1>2, <1>3, <1>4 DEF BusInv

\* The number of the next publication makes an event of the right type.
LEMMA PublishedEvent ==
  ASSUME BusInv, NEW id \in EventIDs, NEW superstep \in Supersteps
  PROVE  Event(id, superstep, sequence) \in Events
BY DEF BusInv, Types, Event, Events

\* The bus keeps the invariant of its fan-out.
THEOREM BusInvariance == Spec => []BusInv
<1>1. Init => BusInv
  BY BusInit
<1>2. BusInv /\ [Next]_vars => BusInv'
  <2> SUFFICES ASSUME BusInv, [Next]_vars PROVE BusInv'
    OBVIOUS
  <2>1. ASSUME NEW t \in Threads, PublishCall(t) PROVE BusInv'
    <3>1. PICK id \in EventIDs, superstep \in Supersteps :
            Publish(t, id, superstep) \/ \E s \in Slots : PublishOne(t, s, id, superstep)
      BY <2>1 DEF PublishCall
    <3>2. PICK targets \in SUBSET Slots : Begin(t, Event(id, superstep, sequence), targets)
      BY <3>1 DEF Publish, PublishOne, BusInv, Types
    <3> QED BY <3>2, BeginStep, PublishedEvent
  <2>2. ASSUME NEW t \in Threads, PublishStep(t) PROVE BusInv'
    BY <2>2, PreflightStep, PushStep, EndingStep DEF PublishStep
  <2>3. ASSUME NEW t \in Threads, LifecycleStep(t) \/ \E call \in Calls : Call(t, call)
        PROVE  BusInv'
    BY <2>3, MembershipStep, LifecycleCallStep DEF LifecycleStep
  <2>4. ASSUME NEW s \in Slots, WorkerStep(s) PROVE BusInv'
    BY <2>4, WorkersStep
  <2>5. CASE UNCHANGED vars
    BY <2>5 DEF vars, BusInv, Types, Exclusive, PartitionsOK, PreflightHolds
  <2> QED BY <2>1, <2>2, <2>3, <2>4, <2>5 DEF Next
<1> QED BY <1>1, <1>2, PTL DEF Spec

\* What passed the preflight still fits when it is pushed: no push() of a
\* fan-out ever finds its partition full.
THEOREM PreflightSuffices == Spec => []PreflightHolds
<1>1. BusInv => PreflightHolds
  BY DEF BusInv
<1> QED BY <1>1, BusInvariance, PTL

\* No partition ever exceeds its capacity, and publications exclude each other.
THEOREM PublicationsExclusive == Spec => [](PartitionsOK /\ Exclusive)
<1>1. BusInv => PartitionsOK /\ Exclusive
  BY DEF BusInv
<1> QED BY <1>1, BusInvariance, PTL

----------------------------------------------------------------------------
(* The workers and the registry                                            *)

Holding == {"add", "remove", "launch", "wake", "join"}

Matched == \A s \in Slots : worker[s] # "off" <=> (running /\ s \in subscribers)

\* The lifecycle mutex belongs to the thread whose call works under it, and
\* what is true of the workers depends on where in its call that thread is.
LifecycleInv ==
  /\ pc \in [Threads -> PCs] /\ worker = [s \in Slots |-> worker[s]] /\ running \in BOOLEAN
  /\ \A t \in Threads : pc[t] \in Holding <=> lifecycle = t
  /\ joining => \E t \in Threads : pc[t] = "join"
  /\ lifecycle = Free => Matched
  /\ \A t \in Threads :
       /\ pc[t] \in {"add", "remove"} => Matched
       /\ pc[t] = "launch" => running /\ AllJoined
       /\ pc[t] \in {"wake", "join"} => ~running

LEMMA OffStaysOff ==
  ASSUME LifecycleInv, UNCHANGED <<lifecycle, running, subscribers, joining>>,
         worker' = [s \in Slots |-> worker'[s]],
         \A s \in Slots : worker'[s] = "off" <=> worker[s] = "off",
         NEW t \in Threads, pc[t] \notin Holding, NEW to \in PCs \ Holding,
         pc' = [pc EXCEPT ![t] = to]
  PROVE  LifecycleInv'
<1>1. /\ pc' \in [Threads -> PCs] /\ pc'[t] = to
      /\ \A u \in Threads \ {t} : pc'[u] = pc[u]
  BY DEF LifecycleInv
<1>2. \A u \in Threads : pc'[u] \in Holding \/ pc[u] \in Holding => pc'[u] = pc[u]
  BY <1>1
<1>3. Matched' <=> Matched
  BY DEF Matched
<1>4. AllJoined' <=> AllJoined
  BY DEF AllJoined
<1>5. \A u \in Threads : pc[u] = "join" => pc'[u] = "join"
  BY <1>2 DEF Holding
<1> QED BY <1>1, <1>2, <1>3, <1>4, <1>5 DEF LifecycleInv, Holding

\* A step under the mutex, or one that takes or releases it: everything but
\* its owner's position stays where it is.
LEMMA OwnerMoves ==
  ASSUME LifecycleInv, NEW t \in Threads, lifecycle \in {Free, t},
         NEW to \in PCs, pc' = [pc EXCEPT ![t] = to],
         lifecycle' = IF to \in Holding THEN t ELSE Free
  PROVE  /\ pc' \in [Threads -> PCs] /\ pc'[t] = to
         /\ \A u \in Threads \ {t} : pc'[u] = pc[u] /\ pc'[u] \notin Holding
         /\ \A u \in Threads : pc'[u] \in Holding <=> lifecycle' = u
<1>1. /\ pc' \in [Threads -> PCs] /\ pc'[t] = to
      /\ \A u \in Threads \ {t} : pc'[u] = pc[u]
  BY DEF LifecycleInv
<1>2. \A u \in Threads \ {t} : pc[u] \notin Holding
  BY EventBusAssumption DEF LifecycleInv
<1> QED BY <1>1, <1>2, EventBusAssumption

LEMMA PublisherKeepsWorkers ==
  ASSUME LifecycleInv, NEW t \in Threads,
         PublishCall(t) \/ PublishStep(t) \/ \E call \in Calls : Call(t, call)
  PROVE  LifecycleInv'
<1>1. UNCHANGED <<lifecycle, running, subscribers, joining>>
  BY DEF PublishCall, Publish, PublishOne, Begin, PublishStep, Preflight, PushNext,
         MergerFails, PublishReturns, Call, registry
<1>2. /\ worker' = [s \in Slots |-> worker'[s]]
      /\ \A s \in Slots : worker'[s] = "off" <=> worker[s] = "off"
  <2>1. CASE UNCHANGED worker
    BY <2>1 DEF LifecycleInv
  <2>2. CASE PushNext(t)
    <3>1. PICK s \in Slots, event \in fanout[t].event :
            worker' = [worker EXCEPT ![s] =
                         IF worker[s] = "asleep" /\ PushResult(partition[s], event) = "inserted"
                           THEN "polling" ELSE worker[s]]
      BY <2>2, Zenon DEF PushNext
    <3> QED BY <3>1 DEF LifecycleInv
  <2> QED BY <2>1, <2>2 DEF PublishCall, Publish, PublishOne, Begin, PublishStep, Preflight,
             MergerFails, PublishReturns, Call
<1>3. pc[t] \notin Holding /\ \E to \in PCs \ Holding : pc' = [pc EXCEPT ![t] = to]
  <2>1. ASSUME UNCHANGED pc, pc[t] = "publish"
        PROVE  pc[t] \notin Holding /\ \E to \in PCs \ Holding : pc' = [pc EXCEPT ![t] = to]
    <3>1. pc' = [pc EXCEPT ![t] = "publish"]
      BY <2>1 DEF LifecycleInv
    <3> QED BY <2>1, <3>1 DEF PCs, Holding
  <2>2. CASE PublishStep(t)
    <3>1. pc[t] = "publish" /\ (UNCHANGED pc \/ Leave(t))
      <4>1. CASE PushNext(t)
        BY <4>1, Zenon DEF PushNext
      <4> QED BY <2>2, <4>1 DEF PublishStep, Preflight, MergerFails, PublishReturns
    <3> QED BY <2>1, <3>1 DEF Leave, PCs, Holding
  <2>3. CASE PublishCall(t)
    BY <2>3 DEF PublishCall, Publish, PublishOne, Begin, MayCall, PCs, Holding
  <2>4. ASSUME NEW call \in Calls, Call(t, call)
        PROVE  pc[t] \notin Holding /\ \E to \in PCs \ Holding : pc' = [pc EXCEPT ![t] = to]
    BY <2>4 DEF Call, MayCall, Calls, PCs, Holding
  <2> QED BY <2>2, <2>3, <2>4
<1> QED BY <1>1, <1>2, <1>3, OffStaysOff

LEMMA LifecycleKeepsWorkers ==
  ASSUME LifecycleInv, NEW t \in Threads, LifecycleStep(t)
  PROVE  LifecycleInv'
<1> USE DEF LifecycleInv
<1>0. Free \notin Threads /\ pc[t] \in PCs
  BY EventBusAssumption
<1>1. CASE MembershipLocks(t)
  <2>1. PICK to \in {"add", "remove"} :
          /\ pc' = [pc EXCEPT ![t] = to] /\ lifecycle = Free /\ lifecycle' = t
          /\ UNCHANGED <<worker, running, subscribers, joining>>
    BY <1>1 DEF MembershipLocks, Proceeds, registry
  <2>2. to \in PCs /\ to \in Holding
    BY DEF PCs, Holding
  <2>3. /\ pc' \in [Threads -> PCs] /\ pc'[t] = to
        /\ \A u \in Threads \ {t} : pc'[u] = pc[u] /\ pc'[u] \notin Holding
        /\ \A u \in Threads : pc'[u] \in Holding <=> lifecycle' = u
    BY <2>1, <2>2, OwnerMoves
  <2>4. Matched' /\ ~joining
    BY <1>0, <2>1 DEF Matched, Holding
  <2> QED BY <1>0, <2>1, <2>3, <2>4 DEF Holding
<1>2. ASSUME Subscribe(t) \/ \E s \in Slots : Unsubscribe(t, s)
      PROVE  LifecycleInv'
  <2>1. /\ pc' = [pc EXCEPT ![t] = "idle"] /\ lifecycle' = Free /\ pc[t] \in {"add", "remove"}
        /\ UNCHANGED <<worker, running, joining>>
        /\ running => UNCHANGED subscribers
    BY <1>2 DEF Subscribe, Unsubscribe, Returns, Frozen, registry
  <2>2. "idle" \in PCs /\ "idle" \notin Holding /\ lifecycle = t
    BY <2>1 DEF PCs, Holding
  <2>3. /\ pc' \in [Threads -> PCs] /\ pc'[t] = "idle"
        /\ \A u \in Threads \ {t} : pc'[u] = pc[u] /\ pc'[u] \notin Holding
        /\ \A u \in Threads : pc'[u] \in Holding <=> lifecycle' = u
    BY <2>1, <2>2, OwnerMoves
  <2>4. Matched' /\ ~joining
    BY <2>1, <2>2 DEF Matched, Holding
  <2> QED BY <2>1, <2>3, <2>4 DEF Holding
<1>3. CASE Start(t)
  <2>1. PICK to \in {"idle", "launch"} :
          /\ pc' = [pc EXCEPT ![t] = to] /\ lifecycle = Free
          /\ lifecycle' = (IF to = "launch" THEN t ELSE Free)
          /\ (to = "idle") <=> running
          /\ running' = TRUE /\ UNCHANGED <<worker, subscribers, joining>>
    <3>1. CASE running
      BY <1>3, <3>1 DEF Start, Returns, registry
    <3>2. CASE ~running
      BY <1>3, <3>2 DEF Start, Proceeds, registry
    <3> QED BY <3>1, <3>2
  <2>2. to \in PCs /\ (to \in Holding <=> to = "launch")
    BY DEF PCs, Holding
  <2>3. /\ pc' \in [Threads -> PCs] /\ pc'[t] = to
        /\ \A u \in Threads \ {t} : pc'[u] = pc[u] /\ pc'[u] \notin Holding
        /\ \A u \in Threads : pc'[u] \in Holding <=> lifecycle' = u
    BY <2>1, <2>2, OwnerMoves
  <2>4. ~joining /\ Matched
    BY <1>0, <2>1 DEF Holding
  <2>5. running => Matched'
    BY <2>1, <2>4 DEF Matched
  <2>6. ~running => AllJoined'
    BY <2>1, <2>4 DEF Matched, AllJoined
  <2> QED BY <1>0, <2>1, <2>3, <2>4, <2>5, <2>6 DEF Holding
<1>4. CASE Launch(t) \/ LaunchFails(t)
  <2>1. /\ pc' = [pc EXCEPT ![t] = "idle"] /\ lifecycle' = Free /\ pc[t] = "launch"
        /\ UNCHANGED <<subscribers, joining>> /\ running /\ AllJoined
    BY <1>4 DEF Launch, LaunchFails, Returns, registry
  <2>2. "idle" \in PCs /\ "idle" \notin Holding /\ lifecycle = t
    BY <2>1 DEF PCs, Holding
  <2>3. /\ pc' \in [Threads -> PCs] /\ pc'[t] = "idle"
        /\ \A u \in Threads \ {t} : pc'[u] = pc[u] /\ pc'[u] \notin Holding
        /\ \A u \in Threads : pc'[u] \in Holding <=> lifecycle' = u
    BY <2>1, <2>2, OwnerMoves
  <2>4. /\ Matched' /\ worker' = [s \in Slots |-> worker'[s]] /\ running' \in BOOLEAN
    <3>1. CASE Launch(t)
      <4>1. worker' = [s \in Slots |-> IF s \in subscribers THEN "loop" ELSE "off"]
            /\ UNCHANGED running
        BY <3>1 DEF Launch, Launched
      <4> QED BY <2>1, <4>1 DEF Matched
    <3>2. CASE LaunchFails(t)
      BY <2>1, <3>2 DEF LaunchFails, Matched, AllJoined
    <3> QED BY <1>4, <3>1, <3>2
  <2>5. ~joining
    BY <2>1, <2>2 DEF Holding
  <2> QED BY <2>1, <2>3, <2>4, <2>5 DEF Holding
<1>5. CASE Stop(t)
  <2>1. PICK to \in {"idle", "wake"} :
          /\ pc' = [pc EXCEPT ![t] = to] /\ lifecycle = Free
          /\ lifecycle' = (IF to = "wake" THEN t ELSE Free)
          /\ (to = "wake") <=> running
          /\ running' = FALSE /\ UNCHANGED <<worker, subscribers, joining>>
    <3>1. CASE running
      BY <1>5, <3>1 DEF Stop, Proceeds, registry
    <3>2. CASE ~running
      BY <1>5, <3>2 DEF Stop, Returns, registry
    <3> QED BY <3>1, <3>2
  <2>2. to \in PCs /\ (to \in Holding <=> to = "wake")
    BY DEF PCs, Holding
  <2>3. /\ pc' \in [Threads -> PCs] /\ pc'[t] = to
        /\ \A u \in Threads \ {t} : pc'[u] = pc[u] /\ pc'[u] \notin Holding
        /\ \A u \in Threads : pc'[u] \in Holding <=> lifecycle' = u
    BY <2>1, <2>2, OwnerMoves
  <2>4. ~joining /\ Matched
    BY <1>0, <2>1 DEF Holding
  <2>5. ~running => Matched'
    BY <2>1, <2>4 DEF Matched
  <2> QED BY <1>0, <2>1, <2>3, <2>4, <2>5 DEF Holding
<1>6. CASE StopWakes(t)
  <2>1. /\ pc' = [pc EXCEPT ![t] = "join"] /\ pc[t] = "wake" /\ joining' = TRUE
        /\ UNCHANGED <<lifecycle, running, subscribers>>
        /\ worker' = [s \in Slots |-> worker'[s]]
    BY <1>6 DEF StopWakes, registry
  <2>2. "join" \in PCs /\ "join" \in Holding /\ lifecycle = t
    BY <2>1 DEF PCs, Holding
  <2>3. /\ pc' \in [Threads -> PCs] /\ pc'[t] = "join"
        /\ \A u \in Threads \ {t} : pc'[u] = pc[u] /\ pc'[u] \notin Holding
        /\ \A u \in Threads : pc'[u] \in Holding <=> lifecycle' = u
    BY <2>1, <2>2, OwnerMoves
  <2> QED BY <1>0, <2>1, <2>2, <2>3 DEF Holding
<1>7. CASE StopReturns(t)
  <2>1. /\ pc' = [pc EXCEPT ![t] = "idle"] /\ lifecycle' = Free /\ pc[t] = "join"
        /\ joining' = FALSE /\ AllJoined /\ UNCHANGED <<worker, running, subscribers>>
    BY <1>7 DEF StopReturns, Returns, registry
  <2>2. "idle" \in PCs /\ "idle" \notin Holding /\ lifecycle = t
    BY <2>1 DEF PCs, Holding
  <2>3. /\ pc' \in [Threads -> PCs] /\ pc'[t] = "idle"
        /\ \A u \in Threads \ {t} : pc'[u] = pc[u] /\ pc'[u] \notin Holding
        /\ \A u \in Threads : pc'[u] \in Holding <=> lifecycle' = u
    BY <2>1, <2>2, OwnerMoves
  <2>4. Matched'
    BY <2>1 DEF Matched, AllJoined
  <2> QED BY <2>1, <2>3, <2>4 DEF Holding
<1> QED BY <1>1, <1>2, <1>3, <1>4, <1>5, <1>6, <1>7 DEF LifecycleStep

LEMMA WorkerKeepsWorkers ==
  ASSUME LifecycleInv, NEW s \in Slots, WorkerStep(s)
  PROVE  LifecycleInv'
<1> USE DEF LifecycleInv
<1>1. UNCHANGED <<lifecycle, running, subscribers, joining, pc>>
  BY DEF WorkerStep, registry
<1>2. worker[s] # "off" /\ \E state : worker' = [worker EXCEPT ![s] = state]
  BY DEF WorkerStep, Consume, Poll, FallAsleep, WaitEnds, TimesOut, HandlerReturns, WorkerExits,
         GoesTo, TakeFront
<1>3. worker'[s] # "off" \/ joining
  BY <1>2 DEF WorkerStep, Consume, Poll, FallAsleep, WaitEnds, HandlerReturns, WorkerExits,
         GoesTo, TakeFront
<1>4. \A r \in Slots \ {s} : worker'[r] = worker[r]
  BY <1>2
<1>5. worker' = [r \in Slots |-> worker'[r]]
  BY <1>2
<1>6. ~AllJoined
  BY <1>2 DEF AllJoined
<1>7. CASE joining
  <2>1. PICK t \in Threads : pc[t] = "join"
    BY <1>7
  <2>2. lifecycle = t /\ lifecycle # Free
    BY <2>1, EventBusAssumption DEF Holding
  <2>3. \A u \in Threads : pc[u] \notin {"add", "remove"}
    BY <2>1, <2>2 DEF Holding
  <2> QED BY <1>1, <1>5, <1>6, <2>1, <2>2, <2>3
<1>8. CASE ~joining
  <2>1. Matched => Matched'
    BY <1>1, <1>2, <1>3, <1>4, <1>8 DEF Matched
  <2> QED BY <1>1, <1>5, <1>6, <1>8, <2>1
<1> QED BY <1>7, <1>8

\* Where the owner of the lifecycle mutex can be, and what holds there.
THEOREM LifecycleInvariance == Spec => []LifecycleInv
<1>1. Init => LifecycleInv
  BY EventBusAssumption DEF Init, LifecycleInv, Matched, Holding, PCs
<1>2. LifecycleInv /\ [Next]_vars => LifecycleInv'
  <2>1. CASE UNCHANGED vars
    BY <2>1 DEF vars, LifecycleInv, Matched, AllJoined
  <2> QED BY <2>1, PublisherKeepsWorkers, LifecycleKeepsWorkers, WorkerKeepsWorkers DEF Next
<1> QED BY <1>1, <1>2, PTL DEF Spec

\* Between lifecycle calls the workers are those of the subscribers exactly
\* while the bus runs, whoever calls start, stop, subscribe and unsubscribe.
THEOREM RegistryFrozen == Spec => []WorkersMatchRegistry
<1>1. LifecycleInv => WorkersMatchRegistry
  BY DEF LifecycleInv, Matched, WorkersMatchRegistry
<1> QED BY <1>1, LifecycleInvariance, PTL

----------------------------------------------------------------------------
(* The history of a slot                                                   *)

\* A merged payload lists publications below n, in their order.
Increasing(list, n) ==
  \A i \in DOMAIN list : /\ list[i] \in Nat /\ list[i] < n
                         /\ \A j \in DOMAIN list : i < j => list[i] < list[j]

Orderly(p, h, n) ==
  /\ \A e \in Pending(p) : Increasing(e.payload, n)
  /\ \A i \in DOMAIN h : h[i].sequence < n /\ Increasing(h[i].payload, n)
  /\ \A i, j \in DOMAIN h :
       i < j /\ h[j].sequence < h[i].sequence => h[i].superstep < h[j].superstep
  /\ \A i \in DOMAIN h : \A e \in Pending(p) :
       e.sequence < h[i].sequence => h[i].superstep < e.superstep

\* What was pushed shows in one event, queued or handled.
Accounted(p, h, a) ==
  /\ \A q : q \in a <=> \/ \E e \in Pending(p) : q \in Elements(e.payload)
                        \/ \E i \in DOMAIN h : q \in Elements(h[i].payload)
  /\ \A e, f \in Pending(p) : \A q : q \in Elements(e.payload) /\ q \in Elements(f.payload)
                                       => e = f
  /\ \A i, j \in DOMAIN h : \A q : q \in Elements(h[i].payload) /\ q \in Elements(h[j].payload)
                                     => i = j
  /\ \A i \in DOMAIN h : \A e \in Pending(p) : \A q :
       ~(q \in Elements(h[i].payload) /\ q \in Elements(e.payload))

History(p, h, a, n) ==
  /\ Kept(p, n) /\ h \in Seq(Events)
  /\ Orderly(p, h, n) /\ Accounted(p, h, a)

----------------------------------------------------------------------------
(* What the operations on a partition do to a history                      *)

LEMMA Below ==
  ASSUME NEW p, NEW h, NEW a, NEW n \in Nat, History(p, h, a, n)
  PROVE  /\ \A q \in a : q \in Nat /\ q < n
         /\ \A e \in Pending(p) : /\ e \in Events /\ e.sequence \in Nat /\ e.sequence < n
                                  /\ \A q \in Elements(e.payload) : q \in Nat /\ q < n
         /\ \A i \in DOMAIN h : /\ i \in Nat /\ h[i] \in Events /\ h[i].sequence \in Nat
                                /\ \A q \in Elements(h[i].payload) : q \in Nat /\ q < n
<1>1. \A e \in Pending(p) : /\ e \in Events /\ e.sequence \in Nat /\ e.sequence < n
                            /\ \A q \in Elements(e.payload) : q \in Nat /\ q < n
  BY PendingFacts DEF History, Orderly, Increasing, Elements, Events
<1>2. \A i \in DOMAIN h : i \in Nat /\ h[i] \in Events
  BY LenProperties, ElementOfSeq DEF History
<1>3. \A i \in DOMAIN h : /\ h[i].sequence \in Nat
                          /\ \A q \in Elements(h[i].payload) : q \in Nat /\ q < n
  BY <1>2 DEF History, Orderly, Increasing, Elements, Events
<1> QED BY <1>1, <1>2, <1>3 DEF History, Accounted

LEMMA HistoryEmpty ==
  ASSUME NEW n \in Nat
  PROVE  History(EmptyPartition, <<>>, {}, n)
<1>1. Kept(EmptyPartition, n) /\ Pending(EmptyPartition) = {}
  BY EmptyIsKept DEF Kept, Ordered, EmptyPartition
<1>2. <<>> \in Seq(Events) /\ DOMAIN <<>> = {}
  BY EmptySeq, LenProperties
<1> QED BY <1>1, <1>2 DEF History, Orderly, Accounted

LEMMA HistoryLater ==
  ASSUME NEW p, NEW h, NEW a, NEW n \in Nat, History(p, h, a, n)
  PROVE  History(p, h, a, n + 1)
<1>1. Kept(p, n + 1)
  BY Numbered DEF History
<1>2. \A e \in Pending(p) : Increasing(e.payload, n + 1)
  BY DEF History, Orderly, Increasing
<1>3. \A i \in DOMAIN h : h[i].sequence < n + 1 /\ Increasing(h[i].payload, n + 1)
  <2>1. \A i \in DOMAIN h : h[i].sequence \in Nat
    BY Below
  <2> QED BY <2>1 DEF History, Orderly, Increasing
<1> QED BY <1>1, <1>2, <1>3 DEF History, Orderly

LEMMA HistoryPop ==
  ASSUME NEW p, NEW h, NEW a, NEW n \in Nat, History(p, h, a, n), p.size # 0
  PROVE  History(PopFront(p), Append(h, Front(p)), a, n)
<1> DEFINE f == Front(p)
           q == PopFront(p)
           g == Append(h, f)
<1>1. /\ Kept(q, n) /\ f \in Pending(p) /\ Pending(q) = Pending(p) \ {f}
      /\ \A e \in Pending(p) \ {f} :
           f.superstep < e.superstep \/ (f.superstep = e.superstep /\ f.sequence < e.sequence)
  BY Popped DEF History
<1>2. \A e \in Pending(p) : e \in Events /\ e.sequence \in Nat /\ e.superstep \in Nat
  <2>1. \A e \in Pending(p) : e \in Events /\ e.sequence \in Nat
    BY Below
  <2> QED BY <2>1, PartitionAssumption DEF Events
<1>3. /\ g \in Seq(Events) /\ Len(h) \in Nat /\ DOMAIN h = 1 .. Len(h)
      /\ DOMAIN g = 1 .. Len(h) + 1
      /\ \A i \in 1 .. Len(h) : g[i] = h[i]
      /\ g[Len(h) + 1] = f
  <2>1. h \in Seq(Events) /\ f \in Events
    BY <1>1, <1>2 DEF History
  <2> QED BY <2>1, AppendProperties, LenProperties
<1> HIDE DEF f, q, g
<1>4. \A i \in DOMAIN g : (i \in DOMAIN h /\ g[i] = h[i]) \/ (i = Len(h) + 1 /\ g[i] = f)
  BY <1>3
<1>5. DOMAIN g = DOMAIN h \cup {Len(h) + 1} /\ Len(h) + 1 \notin DOMAIN h
  BY <1>3
<1>6. Orderly(q, g, n)
  <2>1. \A e \in Pending(q) : Increasing(e.payload, n)
    BY <1>1 DEF History, Orderly
  <2>2. \A i \in DOMAIN g : g[i].sequence < n /\ Increasing(g[i].payload, n)
    BY <1>1, <1>4, Below DEF History, Orderly
  <2>3. ASSUME NEW i \in DOMAIN g, NEW j \in DOMAIN g, i < j, g[j].sequence < g[i].sequence
        PROVE  g[i].superstep < g[j].superstep
    <3>1. i \in DOMAIN h /\ g[i] = h[i]
      BY <1>3, <2>3
    <3>2. CASE j \in DOMAIN h
      BY <1>3, <2>3, <3>1, <3>2 DEF History, Orderly
    <3>3. CASE j = Len(h) + 1
      BY <1>1, <1>3, <2>3, <3>1, <3>3 DEF History, Orderly
    <3> QED BY <1>4, <3>2, <3>3
  <2>4. ASSUME NEW i \in DOMAIN g, NEW e \in Pending(q), e.sequence < g[i].sequence
        PROVE  g[i].superstep < e.superstep
    <3>1. CASE i \in DOMAIN h /\ g[i] = h[i]
      BY <1>1, <2>4, <3>1 DEF History, Orderly
    <3>2. CASE g[i] = f
      BY <1>1, <1>2, <2>4, <3>2
    <3> QED BY <1>4, <3>1, <3>2
  <2> QED BY <2>1, <2>2, <2>3, <2>4 DEF Orderly
<1>7. Accounted(q, g, a)
  <2>1. ASSUME NEW x
        PROVE  x \in a <=> \/ \E e \in Pending(q) : x \in Elements(e.payload)
                           \/ \E i \in DOMAIN g : x \in Elements(g[i].payload)
    <3>1. x \in a <=> \/ \E e \in Pending(p) : x \in Elements(e.payload)
                      \/ \E i \in DOMAIN h : x \in Elements(h[i].payload)
      BY DEF History, Accounted
    <3>2. (\E i \in DOMAIN g : x \in Elements(g[i].payload)) <=>
            (x \in Elements(f.payload) \/ \E i \in DOMAIN h : x \in Elements(h[i].payload))
      BY <1>3, <1>5
    <3> QED BY <1>1, <3>1, <3>2
  <2>2. \A e, d \in Pending(q) : \A x : x \in Elements(e.payload) /\ x \in Elements(d.payload)
                                          => e = d
    BY <1>1 DEF History, Accounted
  <2>3. ASSUME NEW i \in DOMAIN g, NEW j \in DOMAIN g, NEW x,
               x \in Elements(g[i].payload), x \in Elements(g[j].payload)
        PROVE  i = j
    BY <1>1, <1>4, <2>3 DEF History, Accounted
  <2>4. ASSUME NEW i \in DOMAIN g, NEW e \in Pending(q), NEW x,
               x \in Elements(g[i].payload), x \in Elements(e.payload)
        PROVE  FALSE
    BY <1>1, <1>4, <2>4 DEF History, Accounted
  <2> QED BY <2>1, <2>2, <2>3, <2>4 DEF Accounted
<1> QED BY <1>1, <1>3, <1>6, <1>7 DEF History, f, q, g

LEMMA HistoryPush ==
  ASSUME NEW p, NEW h, NEW a, NEW n \in Nat, History(p, h, a, n),
         NEW id \in EventIDs, NEW s \in Supersteps, NEW event, event = Event(id, s, n),
         CanAccept(p, event)
  PROVE  History(Push(p, event), h, a \cup {n}, n + 1)
<1>1. /\ event \in Events /\ event.sequence = n /\ event.superstep = s
      /\ event.payload = <<n>>
  BY NewEvent
<1> DEFINE q == Push(p, event)
<1>2. \A e \in Pending(p) : /\ e \in Events /\ e.sequence \in Nat /\ e.sequence < n
                            /\ \A x \in Elements(e.payload) : x \in Nat /\ x < n
  BY Below
<1>3. \A i \in DOMAIN h : /\ h[i] \in Events /\ h[i].sequence \in Nat /\ h[i].sequence < n
                          /\ \A x \in Elements(h[i].payload) : x \in Nat /\ x < n
  BY Below DEF History, Orderly
<1>4. \A e \in Pending(p) : Increasing(e.payload, n + 1)
  BY DEF History, Orderly, Increasing
<1>5. \A i \in DOMAIN h : h[i].sequence < n + 1 /\ Increasing(h[i].payload, n + 1)
  BY <1>3 DEF History, Orderly, Increasing
<1>6. CASE KeyOf(event) \notin DOMAIN p.index
  <2>1. q = Insert(p, event) /\ p.size < Capacity
    <3>1. p.size \in Nat /\ p.size < Capacity
      BY <1>6, PartitionAssumption DEF CanAccept, History, Kept, Bounded
    <3>2. PushResult(p, event) = "inserted"
      BY <1>6, <3>1, PartitionAssumption DEF PushResult
    <3> QED BY <3>1, <3>2 DEF Push
  <2>2. Kept(q, n + 1) /\ Pending(q) = Pending(p) \cup {event}
    BY <1>6, <2>1, Inserted DEF History
  <2>3. Elements(event.payload) = {n} /\ Increasing(event.payload, n + 1)
    BY <1>1 DEF Elements, Increasing
  <2> HIDE DEF q
  <2>4. Orderly(q, h, n + 1)
    <3>1. \A e \in Pending(q) : Increasing(e.payload, n + 1)
      BY <1>4, <2>2, <2>3
    <3>2. \A i, j \in DOMAIN h :
            i < j /\ h[j].sequence < h[i].sequence => h[i].superstep < h[j].superstep
      BY DEF History, Orderly
    <3>3. ASSUME NEW i \in DOMAIN h, NEW e \in Pending(q), e.sequence < h[i].sequence
          PROVE  h[i].superstep < e.superstep
      <4>1. e # event
        BY <1>1, <1>3, <3>3
      <4> QED BY <2>2, <3>3, <4>1 DEF History, Orderly
    <3> QED BY <1>5, <3>1, <3>2, <3>3 DEF Orderly
  <2>5. Accounted(q, h, a \cup {n})
    <3>1. \A x : x \in a \cup {n} <=> \/ \E e \in Pending(q) : x \in Elements(e.payload)
                                      \/ \E i \in DOMAIN h : x \in Elements(h[i].payload)
      BY <2>2, <2>3 DEF History, Accounted
    <3>2. \A e \in Pending(p) : n \notin Elements(e.payload)
      BY <1>2
    <3>3. \A i \in DOMAIN h : n \notin Elements(h[i].payload)
      BY <1>3
    <3>4. \A c, d \in Pending(q) : \A x : x \in Elements(c.payload) /\ x \in Elements(d.payload)
                                            => c = d
      <4> SUFFICES ASSUME NEW c \in Pending(q), NEW d \in Pending(q), NEW x,
                          x \in Elements(c.payload), x \in Elements(d.payload)
                   PROVE  c = d
        OBVIOUS
      <4>1. c = event <=> x = n
        BY <2>2, <2>3, <3>2
      <4>2. d = event <=> x = n
        BY <2>2, <2>3, <3>2
      <4>3. CASE x # n
        BY <4>1, <4>2, <4>3, <2>2 DEF History, Accounted
      <4> QED BY <4>1, <4>2, <4>3
    <3>5. \A i \in DOMAIN h : \A d \in Pending(q) : \A x :
            ~(x \in Elements(h[i].payload) /\ x \in Elements(d.payload))
      BY <2>2, <2>3, <3>3 DEF History, Accounted
    <3> QED BY <3>1, <3>4, <3>5 DEF History, Accounted
  <2> QED BY <2>2, <2>4, <2>5 DEF History, q
<1>7. CASE KeyOf(event) \in DOMAIN p.index
  <2>1. q = Coalesce(p, event)
    BY <1>7 DEF Push, PushResult
  <2>2. Kept(q, n + 1)
    BY <1>1, <1>7, <2>1, Coalesced, Numbered DEF History
  <2>3. PICK e \in Pending(p) : Pending(q) = (Pending(p) \ {e}) \cup {Merge(e, event)}
    BY <1>1, <1>7, <2>1, Coalesced DEF History
  <2> DEFINE m == Merge(e, event)
  <2>4. /\ m.superstep = e.superstep /\ m.sequence = e.sequence
        /\ m.payload = e.payload \o <<n>>
    BY <1>1, <1>2, MergedEvent DEF Merge, Events
  <2>5. /\ Elements(m.payload) = Elements(e.payload) \cup {n}
        /\ Increasing(m.payload, n + 1)
    <3>1. e.payload \in Seq(Nat)
      BY <1>2 DEF Events
    <3>2. /\ Len(e.payload) \in Nat /\ DOMAIN e.payload = 1 .. Len(e.payload)
          /\ m.payload = Append(e.payload, n)
      BY <2>4, <3>1, LenProperties
    <3>3. /\ DOMAIN m.payload = 1 .. Len(e.payload) + 1
          /\ \A i \in 1 .. Len(e.payload) : m.payload[i] = e.payload[i]
          /\ m.payload[Len(e.payload) + 1] = n
      BY <3>1, <3>2, AppendProperties, LenProperties
    <3>4. Increasing(e.payload, n)
      BY DEF History, Orderly
    <3> HIDE DEF m
    <3>5. Elements(m.payload) = Elements(e.payload) \cup {n}
      BY <3>2, <3>3 DEF Elements
    <3>6. Increasing(m.payload, n + 1)
      BY <3>2, <3>3, <3>4 DEF Increasing
    <3> QED BY <3>5, <3>6
  <2> HIDE DEF q, m
  <2>6. Pending(q) = (Pending(p) \ {e}) \cup {m}
    BY <2>3 DEF m
  <2>7. Orderly(q, h, n + 1)
    BY <1>4, <1>5, <2>4, <2>5, <2>6 DEF History, Orderly
  <2>8. Accounted(q, h, a \cup {n})
    <3>1. \A x : x \in a \cup {n} <=> \/ \E d \in Pending(q) : x \in Elements(d.payload)
                                      \/ \E i \in DOMAIN h : x \in Elements(h[i].payload)
      BY <2>5, <2>6 DEF History, Accounted
    <3>2. \A d \in Pending(p) : n \notin Elements(d.payload)
      BY <1>2
    <3>3. \A i \in DOMAIN h : n \notin Elements(h[i].payload)
      BY <1>3
    <3>4. \A c, d \in Pending(q) : \A x : x \in Elements(c.payload) /\ x \in Elements(d.payload)
                                            => c = d
      <4> SUFFICES ASSUME NEW c \in Pending(q), NEW d \in Pending(q), NEW x,
                          x \in Elements(c.payload), x \in Elements(d.payload)
                   PROVE  c = d
        OBVIOUS
      <4>1. CASE x = n
        BY <2>6, <3>2, <4>1
      <4>2. CASE x # n
        <5>1. PICK c0 \in Pending(p) : /\ x \in Elements(c0.payload)
                                       /\ c = IF c0 = e THEN m ELSE c0
          BY <2>5, <2>6, <4>2
        <5>2. PICK d0 \in Pending(p) : /\ x \in Elements(d0.payload)
                                       /\ d = IF d0 = e THEN m ELSE d0
          BY <2>5, <2>6, <4>2
        <5>3. c0 = d0
          BY <5>1, <5>2 DEF History, Accounted
        <5> QED BY <5>1, <5>2, <5>3
      <4> QED BY <4>1, <4>2
    <3>5. \A i \in DOMAIN h : \A d \in Pending(q) : \A x :
            ~(x \in Elements(h[i].payload) /\ x \in Elements(d.payload))
      <4> SUFFICES ASSUME NEW i \in DOMAIN h, NEW d \in Pending(q), NEW x,
                          x \in Elements(h[i].payload), x \in Elements(d.payload)
                   PROVE  FALSE
        OBVIOUS
      <4>1. x # n
        BY <3>3
      <4>2. \E d0 \in Pending(p) : x \in Elements(d0.payload)
        BY <2>5, <2>6, <4>1
      <4> QED BY <4>2 DEF History, Accounted
    <3> QED BY <3>1, <3>4, <3>5 DEF History, Accounted
  <2> QED BY <2>2, <2>7, <2>8 DEF History, q
<1> QED BY <1>6, <1>7

----------------------------------------------------------------------------
(* The histories of all slots, and the fan-out under way                   *)

Histories ==
  /\ handled = [s \in Slots |-> handled[s]] /\ accepted = [s \in Slots |-> accepted[s]]
  /\ \A s \in Slots : History(partition[s], handled[s], accepted[s], sequence)

\* The slots a fan-out has pushed to.
Reached(f) == f.targets \ f.unpushed

CarriedBy(f, event) ==
  /\ event.sequence \in Nat /\ sequence = event.sequence + 1
  /\ \E id \in EventIDs, superstep \in Supersteps :
       event = Event(id, superstep, event.sequence)
  /\ f.unpushed \subseteq f.targets
  /\ f.unchecked # {} => f.unpushed = f.targets
  /\ \A s \in Slots \ Reached(f) :
       History(partition[s], handled[s], accepted[s], event.sequence)
  /\ \A s \in Reached(f) : event.sequence \in accepted[s]

Carried == \A t \in Threads : \A event \in fanout[t].event : CarriedBy(fanout[t], event)

HistoryInv == Histories /\ Carried

\* A step that delivers nothing and at most ends a fan-out.
LEMMA NothingDelivered ==
  ASSUME HistoryInv, UNCHANGED <<partition, accepted, handled, sequence>>,
         \A t \in Threads : fanout'[t].event = {} \/ fanout'[t] = fanout[t]
  PROVE  HistoryInv'
<1>1. Histories'
  BY DEF HistoryInv, Histories
<1>2. \A f, event : CarriedBy(f, event) => CarriedBy(f, event)'
  BY DEF CarriedBy, Reached
<1>3. Carried'
  BY <1>2 DEF HistoryInv, Carried
<1> QED BY <1>1, <1>3 DEF HistoryInv

LEMMA BeginHistory ==
  ASSUME BusInv, HistoryInv, NEW t \in Threads, NEW id \in EventIDs,
         NEW superstep \in Supersteps, NEW targets \in SUBSET Slots,
         Begin(t, Event(id, superstep, sequence), targets)
  PROVE  HistoryInv'
<1>0. PICK event, f : /\ event = Event(id, superstep, sequence)
                      /\ f = [event |-> {event}, targets |-> targets,
                              unchecked |-> targets, unpushed |-> targets]
  OBVIOUS
<1>1. /\ publishing = Free /\ sequence' = sequence + 1 /\ fanout' = [fanout EXCEPT ![t] = f]
      /\ UNCHANGED <<partition, accepted, handled>>
  BY <1>0 DEF Begin, PublishMutexFree, delivery
<1>2. sequence \in Nat /\ \A u \in Threads : fanout[u].event = {}
  BY <1>1, FreeMeansNone DEF BusInv, Types, NoFanout
<1>3. Histories'
  BY <1>1, <1>2, HistoryLater DEF HistoryInv, Histories
<1>4. event.sequence = sequence /\ event = Event(id, superstep, event.sequence)
  BY <1>0 DEF Event
<1>5. /\ f.targets = targets /\ f.unpushed = targets /\ f.event = {event}
      /\ Reached(f) = {}
  BY <1>0 DEF Reached
<1>6. CarriedBy(f, event)'
  BY <1>1, <1>2, <1>4, <1>5 DEF CarriedBy, HistoryInv, Histories
<1>7. Carried'
  <2> SUFFICES ASSUME NEW u \in Threads, NEW e \in fanout'[u].event
               PROVE  CarriedBy(fanout[u], e)'
    BY DEF Carried
  <2>1. u = t /\ fanout'[u] = f
    BY <1>1, <1>2 DEF BusInv, Types
  <2>2. e = event
    BY <1>5, <2>1
  <2> QED BY <1>6, <2>1, <2>2 DEF CarriedBy
<1> QED BY <1>3, <1>7 DEF HistoryInv

\* What is pushed has passed the preflight: it is not refused.
LEMMA NeverFull ==
  ASSUME BusInv, NEW t \in Threads, NEW event \in fanout[t].event, NEW s \in Slots,
         s \in fanout[t].unpushed, fanout[t].unchecked = {}
  PROVE  CanAccept(partition[s], event) /\ PushResult(partition[s], event) # "full"
<1>1. CanAccept(partition[s], event)
  BY DEF BusInv, PreflightHolds
<1>2. partition[s].size \in 0 .. Capacity
  BY DEF BusInv, PartitionsOK, Bounded
<1>3. KeyOf(event) \in DOMAIN partition[s].index \/ ~(partition[s].size >= Capacity)
  BY <1>1, <1>2, PartitionAssumption DEF CanAccept
<1> QED BY <1>1, <1>3 DEF PushResult

LEMMA PushingSlot ==
  ASSUME BusInv, NEW t \in Threads, NEW s \in Slots, Pushing(t, s)
  PROVE  s \in fanout[t].unpushed /\ fanout[t].unchecked = {}
<1>1. fanout[t].unpushed \subseteq Slots /\ fanout[t].unpushed # {}
  BY DEF BusInv, Types, FanoutType, Pushing
<1> QED BY <1>1, LowestIsMember DEF Pushing

LEMMA PushHistory ==
  ASSUME BusInv, HistoryInv, NEW t \in Threads, PushNext(t)
  PROVE  HistoryInv'
<1>1. PICK s \in Slots, event \in fanout[t].event :
        /\ Pushing(t, s)
        /\ partition' = [partition EXCEPT ![s] = Push(partition[s], event)]
        /\ IF PushResult(partition[s], event) = "full"
             THEN accepted' = accepted /\ Leave(t)
             ELSE /\ accepted' = [accepted EXCEPT ![s] = accepted[s] \cup {event.sequence}]
                  /\ fanout' = [fanout EXCEPT ![t].unpushed = RestOf(t, s)]
                  /\ UNCHANGED <<publishing, pc>>
  BY Zenon DEF PushNext
<1>2. pc[t] = "publish" /\ UNCHANGED <<sequence, handled>>
  BY DEF PushNext
<1>3. /\ s \in fanout[t].unpushed /\ fanout[t].unchecked = {}
      /\ CanAccept(partition[s], event) /\ PushResult(partition[s], event) # "full"
  BY <1>1, PushingSlot, NeverFull
<1> DEFINE n == event.sequence
           g == [fanout[t] EXCEPT !.unpushed = fanout[t].unpushed \ {s}]
<1>4. CarriedBy(fanout[t], event)
  BY DEF HistoryInv, Carried
<1>5. /\ partition'[s] = Push(partition[s], event) /\ accepted'[s] = accepted[s] \cup {n}
      /\ handled' = handled /\ sequence' = n + 1 /\ n \in Nat
      /\ \A r \in Slots \ {s} : partition'[r] = partition[r] /\ accepted'[r] = accepted[r]
      /\ accepted' = [r \in Slots |-> accepted'[r]]
  BY <1>1, <1>2, <1>3, <1>4 DEF BusInv, PartitionsOK, HistoryInv, Histories, CarriedBy
<1>6. /\ fanout'[t].event = fanout[t].event /\ fanout'[t].targets = fanout[t].targets
      /\ fanout'[t].unchecked = {} /\ fanout'[t].unpushed = fanout[t].unpushed \ {s}
      /\ \A u \in Threads \ {t} : fanout'[u] = fanout[u] /\ fanout'[u].event = {}
  BY <1>1, <1>2, <1>3 DEF BusInv, Types, FanoutType, RestOf, Exclusive, NoFanout
<1>7. s \in fanout[t].targets /\ Reached(fanout'[t]) = Reached(fanout[t]) \cup {s}
  BY <1>3, <1>4, <1>6 DEF CarriedBy, Reached
<1>8. History(partition'[s], handled'[s], accepted'[s], sequence')
  <2>1. History(partition[s], handled[s], accepted[s], n)
    BY <1>3, <1>4 DEF CarriedBy, Reached
  <2>2. PICK id \in EventIDs, superstep \in Supersteps : event = Event(id, superstep, n)
    BY <1>4 DEF CarriedBy
  <2> HIDE DEF n
  <2> QED BY <1>3, <1>5, <2>1, <2>2, HistoryPush
<1>9. Histories'
  <2>1. \A r \in Slots \ {s} : History(partition[r], handled[r], accepted[r], sequence)
    BY DEF HistoryInv, Histories
  <2>2. \A r \in Slots \ {s} : History(partition'[r], handled'[r], accepted'[r], sequence')
    BY <1>2, <1>5, <2>1
  <2>3. handled' = [r \in Slots |-> handled'[r]]
    BY <1>2 DEF HistoryInv, Histories
  <2> QED BY <1>5, <1>8, <2>2, <2>3 DEF Histories
<1>10. \A e \in fanout[t].event : e = event
  BY DEF BusInv, Types
<1>11. CarriedBy(fanout[t], event)'
  <2>1. \A r \in Slots \ Reached(fanout'[t]) :
          History(partition'[r], handled'[r], accepted'[r], n)
    BY <1>4, <1>5, <1>7 DEF CarriedBy
  <2>2. \A r \in Reached(fanout'[t]) : n \in accepted'[r]
    BY <1>3, <1>4, <1>5, <1>7 DEF CarriedBy, BusInv, Types, FanoutType, Reached
  <2> QED BY <1>4, <1>5, <1>6, <2>1, <2>2 DEF CarriedBy
<1>12. Carried'
  BY <1>6, <1>10, <1>11 DEF Carried
<1> QED BY <1>9, <1>12 DEF HistoryInv

LEMMA PublishHistory ==
  ASSUME BusInv, HistoryInv, NEW t \in Threads, PublishStep(t)
  PROVE  HistoryInv'
<1>1. CASE PushNext(t)
  BY <1>1, PushHistory
<1>2. ASSUME Leave(t), pc[t] = "publish", UNCHANGED <<partition, accepted, handled, sequence>>
      PROVE  HistoryInv'
  BY <1>2, LeaveStep, NothingDelivered DEF BusInv
<1>3. CASE MergerFails(t) \/ PublishReturns(t)
  BY <1>2, <1>3 DEF MergerFails, PublishReturns, delivery
<1>4. CASE Preflight(t)
  <2>1. PICK s \in Slots, event \in fanout[t].event :
          IF CanAccept(partition[s], event)
            THEN /\ fanout' = [fanout EXCEPT ![t].unchecked = fanout[t].unchecked \ {s}]
                 /\ UNCHANGED <<publishing, pc>>
            ELSE Leave(t)
    BY <1>4 DEF Preflight
  <2>2. pc[t] = "publish" /\ UNCHANGED <<partition, accepted, handled, sequence>>
    BY <1>4 DEF Preflight, delivery
  <2>3. CASE fanout' = [fanout EXCEPT ![t].unchecked = fanout[t].unchecked \ {s}]
    <3>1. /\ fanout'[t].event = fanout[t].event /\ fanout'[t].targets = fanout[t].targets
          /\ fanout'[t].unchecked \subseteq fanout[t].unchecked
          /\ fanout'[t].unpushed = fanout[t].unpushed
          /\ \A u \in Threads \ {t} : fanout'[u] = fanout[u]
      BY <2>3 DEF BusInv, Types, FanoutType
    <3>2. Histories'
      BY <2>2 DEF HistoryInv, Histories
    <3>3. \A u \in Threads : /\ fanout'[u].event = fanout[u].event
                             /\ Reached(fanout'[u]) = Reached(fanout[u])
                             /\ fanout'[u].targets = fanout[u].targets
                             /\ fanout'[u].unpushed = fanout[u].unpushed
                             /\ fanout'[u].unchecked \subseteq fanout[u].unchecked
      BY <3>1 DEF Reached
    <3>4. Carried'
      BY <2>2, <3>3 DEF HistoryInv, Carried, CarriedBy
    <3> QED BY <3>2, <3>4 DEF HistoryInv
  <2> QED BY <1>2, <2>1, <2>2, <2>3
<1> QED BY <1>1, <1>3, <1>4 DEF PublishStep

LEMMA MembershipHistory ==
  ASSUME BusInv, HistoryInv, NEW t \in Threads,
         Subscribe(t) \/ \E s \in Slots : Unsubscribe(t, s)
  PROVE  HistoryInv'
<1>1. publishing = Free /\ UNCHANGED <<fanout, sequence>>
  BY DEF Subscribe, Unsubscribe
<1>2. \A u \in Threads : fanout'[u].event = {}
  BY <1>1, FreeMeansNone DEF BusInv, NoFanout
<1>3. CASE UNCHANGED delivery
  BY <1>1, <1>2, <1>3, NothingDelivered DEF delivery
<1>4. ASSUME NEW s \in Slots,
             partition' = [partition EXCEPT ![s] = EmptyPartition],
             accepted' = [accepted EXCEPT ![s] = {}],
             handled' = [handled EXCEPT ![s] = <<>>]
      PROVE  HistoryInv'
  <2>1. /\ partition'[s] = EmptyPartition /\ accepted'[s] = {} /\ handled'[s] = <<>>
        /\ \A r \in Slots \ {s} : /\ partition'[r] = partition[r] /\ accepted'[r] = accepted[r]
                                  /\ handled'[r] = handled[r]
        /\ accepted' = [r \in Slots |-> accepted'[r]] /\ handled' = [r \in Slots |-> handled'[r]]
    BY <1>4 DEF BusInv, PartitionsOK, HistoryInv, Histories
  <2>2. Histories'
    BY <1>1, <2>1, HistoryEmpty DEF HistoryInv, Histories, BusInv, Types
  <2> QED BY <1>2, <2>2 DEF HistoryInv, Carried
<1>5. CASE Subscribe(t)
  <2>1. FreeSlots # {} => Lowest(FreeSlots) \in Slots
    BY LowestIsMember DEF FreeSlots
  <2> QED BY <1>3, <1>4, <1>5, <2>1 DEF Subscribe
<1>6. ASSUME NEW s \in Slots, Unsubscribe(t, s) PROVE HistoryInv'
  BY <1>3, <1>4, <1>6 DEF Unsubscribe
<1> QED BY <1>5, <1>6

LEMMA WorkerHistory ==
  ASSUME BusInv, HistoryInv, NEW s \in Slots, WorkerStep(s)
  PROVE  HistoryInv'
<1>1. UNCHANGED <<fanout, sequence>>
  BY DEF WorkerStep
<1>2. \/ UNCHANGED delivery
      \/ partition[s].size # 0 /\ TakeFront(s)
  BY DEF WorkerStep, Consume, Poll, FallAsleep, WaitEnds, HandlerReturns, WorkerExits, GoesTo
<1>3. CASE UNCHANGED delivery
  BY <1>1, <1>3, NothingDelivered DEF delivery
<1>4. CASE partition[s].size # 0 /\ TakeFront(s)
  <2>1. /\ partition'[s] = PopFront(partition[s]) /\ accepted' = accepted
        /\ handled'[s] = Append(handled[s], Front(partition[s]))
        /\ \A r \in Slots \ {s} : partition'[r] = partition[r] /\ handled'[r] = handled[r]
        /\ handled' = [r \in Slots |-> handled'[r]]
    BY <1>4 DEF TakeFront, BusInv, PartitionsOK, HistoryInv, Histories
  <2>2. ASSUME NEW r \in Slots, NEW n \in Nat,
               History(partition[r], handled[r], accepted[r], n)
        PROVE  History(partition'[r], handled'[r], accepted'[r], n)
    <3>1. CASE r = s
      BY <1>4, <2>1, <2>2, <3>1, HistoryPop
    <3>2. CASE r # s
      BY <2>1, <2>2, <3>2
    <3> QED BY <3>1, <3>2
  <2>3. Histories'
    BY <1>1, <2>1, <2>2 DEF HistoryInv, Histories, BusInv, Types
  <2>4. \A f, event : CarriedBy(f, event) => CarriedBy(f, event)'
    BY <1>1, <2>1, <2>2 DEF CarriedBy
  <2>5. Carried'
    BY <1>1, <2>4 DEF HistoryInv, Carried
  <2> QED BY <2>3, <2>5 DEF HistoryInv
<1> QED BY <1>2, <1>3, <1>4

LEMMA OtherHistory ==
  ASSUME BusInv, HistoryInv, NEW t \in Threads,
         \/ \E call \in Calls : Call(t, call)
         \/ MembershipLocks(t) \/ Start(t) \/ Launch(t) \/ LaunchFails(t) \/ Stop(t)
         \/ StopWakes(t) \/ StopReturns(t)
  PROVE  HistoryInv'
<1>1. UNCHANGED <<fanout, sequence, delivery>>
  BY DEF Call, MembershipLocks, Start, Launch, LaunchFails, Stop, StopWakes, StopReturns
<1> QED BY <1>1, NothingDelivered DEF delivery

LEMMA InitHistory ==
  ASSUME Init
  PROVE  HistoryInv
<1>1. Histories
  BY HistoryEmpty DEF Init, Histories
<1>2. Carried
  BY DEF Init, Carried, NoFanout
<1> QED BY <1>1, <1>2 DEF HistoryInv

----------------------------------------------------------------------------
(* The theorems                                                            *)

\* The history of every slot is in order and accounted for.
THEOREM HistoryInvariance == Spec => []HistoryInv
<1>1. Init => HistoryInv
  BY InitHistory
<1>2. BusInv /\ HistoryInv /\ [Next]_vars => HistoryInv'
  <2> SUFFICES ASSUME BusInv, HistoryInv, [Next]_vars PROVE HistoryInv'
    OBVIOUS
  <2>1. ASSUME NEW t \in Threads, PublishCall(t) PROVE HistoryInv'
    <3>1. PICK id \in EventIDs, superstep \in Supersteps :
            Publish(t, id, superstep) \/ \E s \in Slots : PublishOne(t, s, id, superstep)
      BY <2>1 DEF PublishCall
    <3>2. PICK targets \in SUBSET Slots : Begin(t, Event(id, superstep, sequence), targets)
      BY <3>1 DEF Publish, PublishOne, BusInv, Types
    <3> QED BY <3>2, BeginHistory
  <2>2. ASSUME NEW t \in Threads, LifecycleStep(t) \/ \E call \in Calls : Call(t, call)
        PROVE  HistoryInv'
    BY <2>2, MembershipHistory, OtherHistory DEF LifecycleStep
  <2>3. CASE UNCHANGED vars
    BY <2>3, NothingDelivered DEF vars
  <2> QED BY <2>1, <2>2, <2>3, PublishHistory, WorkerHistory DEF Next
<1> QED BY <1>1, <1>2, BusInvariance, PTL DEF Spec

\* Every handler gets its events lowest superstep first, then in the order of
\* their publication, and what was merged in that order too.
THEOREM HandlersInOrder == Spec => []HandledInOrder
<1>1. ASSUME HistoryInv PROVE HandledInOrder
  <2>1. \A s \in Slots : Orderly(partition[s], handled[s], sequence)
    BY <1>1 DEF HistoryInv, Histories, History
  <2> QED BY <2>1 DEF Orderly, Increasing, HandledInOrder
<1> QED BY <1>1, HistoryInvariance, PTL

\* How often a publication shows, counted by the sets of Copies.
LEMMA CopiesCounted ==
  ASSUME NEW s \in Slots, NEW a, NEW n \in Nat, NEW q,
         History(partition[s], handled[s], a, n)
  PROVE  Copies(s, q) = IF q \in a THEN 1 ELSE 0
<1> DEFINE Hits(e) == {i \in DOMAIN e.payload : e.payload[i] = q}
           queued == UNION {{<<e, i>> : i \in Hits(e)} : e \in Pending(partition[s])}
           given == UNION {{<<m, i>> : i \in Hits(handled[s][m])} : m \in DOMAIN handled[s]}
<1>1. Copies(s, q) = Cardinality(queued) + Cardinality(given)
  BY DEF Copies
<1>2. \A e : Hits(e) # {} <=> q \in Elements(e.payload)
  BY DEF Elements
<1>3. \A e \in Pending(partition[s]) : \A i, j \in Hits(e) : i = j
  <2> SUFFICES ASSUME NEW e \in Pending(partition[s]), NEW i \in Hits(e), NEW j \in Hits(e)
               PROVE  i = j
    OBVIOUS
  <2>1. e.payload \in Seq(Nat)
    BY Below DEF Events
  <2>2. i \in Nat /\ j \in Nat
    BY <2>1, LenProperties
  <2> QED BY <2>2 DEF History, Orderly, Increasing
<1>4. \A m \in DOMAIN handled[s] : \A i, j \in Hits(handled[s][m]) : i = j
  <2> SUFFICES ASSUME NEW m \in DOMAIN handled[s],
                      NEW i \in Hits(handled[s][m]), NEW j \in Hits(handled[s][m])
               PROVE  i = j
    OBVIOUS
  <2>1. handled[s][m].payload \in Seq(Nat)
    BY Below DEF Events
  <2>2. i \in Nat /\ j \in Nat
    BY <2>1, LenProperties
  <2> QED BY <2>2 DEF History, Orderly, Increasing
<1>5. /\ \A x, y \in queued : x = y
      /\ queued # {} <=> \E e \in Pending(partition[s]) : q \in Elements(e.payload)
  <2>1. \A x : x \in queued <=> \E e \in Pending(partition[s]) : \E i \in Hits(e) : x = <<e, i>>
    OBVIOUS
  <2>2. \A e, f \in Pending(partition[s]) : Hits(e) # {} /\ Hits(f) # {} => e = f
    BY <1>2 DEF History, Accounted
  <2> HIDE DEF queued, Hits
  <2>3. ASSUME NEW x \in queued, NEW y \in queued PROVE x = y
    <3>1. PICK e \in Pending(partition[s]) : \E i \in Hits(e) : x = <<e, i>>
      BY <2>1
    <3>2. PICK f \in Pending(partition[s]) : \E i \in Hits(f) : y = <<f, i>>
      BY <2>1
    <3>3. e = f
      BY <2>2, <3>1, <3>2
    <3> QED BY <1>3, <3>1, <3>2, <3>3
  <2>4. queued # {} <=> \E e \in Pending(partition[s]) : Hits(e) # {}
    BY <2>1
  <2> QED BY <1>2, <2>3, <2>4
<1>6. /\ \A x, y \in given : x = y
      /\ given # {} <=> \E m \in DOMAIN handled[s] : q \in Elements(handled[s][m].payload)
  <2>1. \A x : x \in given <=>
                \E m \in DOMAIN handled[s] : \E i \in Hits(handled[s][m]) : x = <<m, i>>
    OBVIOUS
  <2>2. \A m, k \in DOMAIN handled[s] :
          Hits(handled[s][m]) # {} /\ Hits(handled[s][k]) # {} => m = k
    BY <1>2 DEF History, Accounted
  <2> HIDE DEF given, Hits
  <2>3. ASSUME NEW x \in given, NEW y \in given PROVE x = y
    <3>1. PICK m \in DOMAIN handled[s] : \E i \in Hits(handled[s][m]) : x = <<m, i>>
      BY <2>1
    <3>2. PICK k \in DOMAIN handled[s] : \E i \in Hits(handled[s][k]) : y = <<k, i>>
      BY <2>1
    <3>3. m = k
      BY <2>2, <3>1, <3>2
    <3> QED BY <1>4, <3>1, <3>2, <3>3
  <2>4. given # {} <=> \E m \in DOMAIN handled[s] : Hits(handled[s][m]) # {}
    BY <2>1
  <2> QED BY <1>2, <2>3, <2>4
<1>7. /\ ~(queued # {} /\ given # {})
      /\ q \in a <=> queued # {} \/ given # {}
  BY <1>5, <1>6 DEF History, Accounted
<1> HIDE DEF queued, given, Hits
<1>8. ASSUME NEW S, \A x, y \in S : x = y
      PROVE  Cardinality(S) = IF S # {} THEN 1 ELSE 0
  <2>1. CASE S = {}
    BY <2>1, FS_EmptySet
  <2>2. CASE S # {}
    <3>1. PICK x \in S : S = {x}
      BY <1>8, <2>2
    <3> QED BY <2>2, <3>1, FS_Singleton
  <2> QED BY <2>1, <2>2
<1>9. /\ Cardinality(queued) = IF queued # {} THEN 1 ELSE 0
      /\ Cardinality(given) = IF given # {} THEN 1 ELSE 0
  BY <1>5, <1>6, <1>8
<1> QED BY <1>1, <1>7, <1>9

\* Each publication that was pushed is queued or was handled, in one event, once;
\* and nothing else is.
THEOREM DeliveredOnce == Spec => []ExactlyOnce
<1>1. ASSUME BusInv, HistoryInv PROVE ExactlyOnce
  BY <1>1, CopiesCounted DEF HistoryInv, Histories, BusInv, Types, ExactlyOnce
<1> QED BY <1>1, BusInvariance, HistoryInvariance, PTL

\* A thread leaves publish() by a step of its own.
LEMMA EndsItself ==
  ASSUME BusInv, [Next]_vars, NEW t \in Threads, fanout[t].event # {}, pc'[t] = "idle"
  PROVE  PublishStep(t)
<1>1. pc[t] = "publish" /\ pc \in [Threads -> PCs]
  BY DEF BusInv, Exclusive, NoFanout, Types
<1>2. ASSUME NEW u \in Threads, NEW to, pc[u] # "publish", pc' = [pc EXCEPT ![u] = to]
      PROVE  FALSE
  BY <1>1, <1>2
<1>3. ASSUME NEW u \in Threads, PublishStep(u) PROVE u = t
  <2>1. pc[u] = "publish"
    BY <1>3 DEF PublishStep, Preflight, PushNext, MergerFails, PublishReturns
  <2> QED BY <1>1, <2>1 DEF BusInv, Exclusive
<1>4. ASSUME NEW u \in Threads, PublishCall(u) PROVE FALSE
  BY <1>2, <1>4 DEF PublishCall, Publish, PublishOne, Begin, MayCall
<1>5. ASSUME NEW u \in Threads, LifecycleStep(u) \/ \E call \in Calls : Call(u, call)
      PROVE  FALSE
  <2>1. pc[u] # "publish"
    BY <1>5 DEF LifecycleStep, MembershipLocks, Subscribe, Unsubscribe, Start, Launch,
                LaunchFails, Stop, StopWakes, StopReturns, Call, MayCall
  <2>2. \E to : pc' = [pc EXCEPT ![u] = to]
    BY <1>5 DEF LifecycleStep, MembershipLocks, Subscribe, Unsubscribe, Start, Launch,
                LaunchFails, Stop, StopWakes, StopReturns, Call, Returns, Proceeds
  <2> QED BY <1>2, <2>1, <2>2
<1>6. ASSUME NEW s \in Slots, WorkerStep(s) PROVE FALSE
  BY <1>1, <1>6 DEF WorkerStep
<1>7. ~UNCHANGED vars
  BY <1>1 DEF vars
<1> QED BY <1>3, <1>4, <1>5, <1>6, <1>7 DEF Next

\* Unless a merger throws, a publication reaches all the subscribers it was meant
\* for, or none: the capacity failures come before the first push.
THEOREM NeverPartial ==
  ASSUME MergerThrows = FALSE
  PROVE  Spec => AllOrNothing
<1>1. ASSUME BusInv, HistoryInv, [Next]_vars,
             NEW t \in Threads, NEW event \in fanout[t].event, pc'[t] = "idle"
      PROVE  {s \in Slots : event.sequence \in accepted[s]} \in {{}, fanout[t].targets}
  <2>1. PublishStep(t) /\ pc[t] = "publish"
    BY <1>1, EndsItself DEF BusInv, Exclusive, NoFanout
  <2>2. CarriedBy(fanout[t], event) /\ fanout[t].targets \subseteq Slots
    BY <1>1 DEF HistoryInv, Carried, BusInv, Types, FanoutType
  <2>3. {s \in Slots : event.sequence \in accepted[s]} = Reached(fanout[t])
    <3>1. \A s \in Slots \ Reached(fanout[t]) : event.sequence \notin accepted[s]
      BY <2>2, Below DEF CarriedBy
    <3> QED BY <2>2, <3>1 DEF CarriedBy, Reached
  <2>4. fanout[t].unpushed \in {{}, fanout[t].targets}
    <3>1. ASSUME Preflight(t) PROVE fanout[t].unchecked # {}
      BY <3>1 DEF Preflight, Checking
    <3>2. ~MergerFails(t)
      BY DEF MergerFails
    <3>3. ASSUME PushNext(t) PROVE FALSE
      <4>1. PICK s \in Slots, e \in fanout[t].event :
              /\ Pushing(t, s)
              /\ PushResult(partition[s], e) # "full" => UNCHANGED pc
        BY <3>3, Zenon DEF PushNext
      <4>2. UNCHANGED pc
        BY <1>1, <4>1, PushingSlot, NeverFull
      <4> QED BY <1>1, <2>1, <4>2
    <3>4. ASSUME PublishReturns(t) PROVE fanout[t].unpushed = {}
      BY <3>4 DEF PublishReturns
    <3> QED BY <2>1, <2>2, <3>1, <3>2, <3>3, <3>4 DEF PublishStep, CarriedBy
  <2> QED BY <2>2, <2>3, <2>4 DEF Reached
<1>2. BusInv /\ HistoryInv /\ [Next]_vars =>
        [\A t \in Threads : \A event \in fanout[t].event :
           pc'[t] = "idle" =>
             {s \in Slots : event.sequence \in accepted[s]} \in {{}, fanout[t].targets}]_vars
  BY <1>1
<1> QED BY <1>2, BusInvariance, HistoryInvariance, PTL DEF Spec, AllOrNothing

----------------------------------------------------------------------------
(* The types                                                               *)

WorkerStates == {"off", "loop", "polling", "dozing", "asleep", "handling"}

\* What the other invariants do not say of the types.
OwnersInv ==
  /\ lifecycle \in Threads \cup {Free} /\ publishing \in Threads \cup {Free}
  /\ joining \in BOOLEAN /\ subscriptions \in Nat /\ sequence \in 0 .. MaxPublications
  /\ worker \in [Slots -> WorkerStates]

LEMMA PublisherOwners ==
  ASSUME OwnersInv, NEW t \in Threads,
         PublishCall(t) \/ PublishStep(t) \/ \E call \in Calls : Call(t, call)
  PROVE  OwnersInv'
<1>1. UNCHANGED <<lifecycle, joining, subscriptions>>
  BY DEF PublishCall, Publish, PublishOne, Begin, PublishStep, Preflight, PushNext,
         MergerFails, PublishReturns, Call, registry
<1>2. publishing' \in Threads \cup {Free}
  <2>1. CASE PushNext(t)
    <3>1. publishing' = publishing \/ publishing' = Free
      BY <2>1, Zenon DEF PushNext, Leave
    <3> QED BY <3>1 DEF OwnersInv
  <2> QED BY <2>1 DEF OwnersInv, PublishCall, Publish, PublishOne, Begin, PublishStep,
             Preflight, MergerFails, PublishReturns, Leave, Call
<1>3. sequence' \in 0 .. MaxPublications
  <2>1. sequence' = sequence \/ (sequence < MaxPublications /\ sequence' = sequence + 1)
    BY DEF PublishCall, Publish, PublishOne, Begin, PublishStep, Preflight, PushNext,
           MergerFails, PublishReturns, Call
  <2> QED BY <2>1, EventBusAssumption DEF OwnersInv
<1>4. worker' \in [Slots -> WorkerStates]
  <2>1. CASE PushNext(t)
    <3>1. PICK s \in Slots, event \in fanout[t].event :
            worker' = [worker EXCEPT ![s] =
                         IF worker[s] = "asleep" /\ PushResult(partition[s], event) = "inserted"
                           THEN "polling" ELSE worker[s]]
      BY <2>1, Zenon DEF PushNext
    <3> QED BY <3>1 DEF OwnersInv, WorkerStates
  <2> QED BY <2>1 DEF OwnersInv, PublishCall, Publish, PublishOne, Begin, PublishStep,
             Preflight, MergerFails, PublishReturns, Call
<1> QED BY <1>1, <1>2, <1>3, <1>4 DEF OwnersInv

LEMMA LifecycleOwners ==
  ASSUME OwnersInv, NEW t \in Threads, LifecycleStep(t)
  PROVE  OwnersInv'
<1>1. UNCHANGED <<publishing, sequence>>
  BY DEF LifecycleStep, MembershipLocks, Subscribe, Unsubscribe, Start, Launch, LaunchFails,
         Stop, StopWakes, StopReturns
<1>2. lifecycle' \in {lifecycle, Free, t}
  BY DEF LifecycleStep, MembershipLocks, Subscribe, Unsubscribe, Start, Launch, LaunchFails,
         Stop, StopWakes, StopReturns, Returns, Proceeds
<1>3. joining' \in {joining, TRUE, FALSE}
  BY DEF LifecycleStep, MembershipLocks, Subscribe, Unsubscribe, Start, Launch, LaunchFails,
         Stop, StopWakes, StopReturns
<1>4. subscriptions' \in {subscriptions, subscriptions + 1}
  BY DEF LifecycleStep, MembershipLocks, Subscribe, Unsubscribe, Start, Launch, LaunchFails,
         Stop, StopWakes, StopReturns, registry
<1>5. \/ worker' = worker
      \/ worker' = [s \in Slots |-> IF s \in Launched THEN "loop" ELSE "off"]
      \/ worker' = [s \in Slots |-> IF s \in subscribers /\ worker[s] = "asleep"
                                      THEN "polling" ELSE worker[s]]
  BY DEF LifecycleStep, MembershipLocks, Subscribe, Unsubscribe, Start, Launch, LaunchFails,
         Stop, StopWakes, StopReturns
<1>6. worker' \in [Slots -> WorkerStates]
  BY <1>5 DEF OwnersInv, WorkerStates
<1>7. lifecycle' \in Threads \cup {Free} /\ publishing' \in Threads \cup {Free}
  BY <1>1, <1>2 DEF OwnersInv
<1>8. joining' \in BOOLEAN
  BY <1>3, Zenon DEF OwnersInv
<1>9. subscriptions' \in Nat /\ sequence' \in 0 .. MaxPublications
  BY <1>1, <1>4 DEF OwnersInv
<1> QED BY <1>6, <1>7, <1>8, <1>9 DEF OwnersInv

LEMMA WorkerOwners ==
  ASSUME OwnersInv, NEW s \in Slots, WorkerStep(s)
  PROVE  OwnersInv'
<1>1. \E to \in WorkerStates : worker' = [worker EXCEPT ![s] = to]
  BY DEF WorkerStep, Consume, Poll, FallAsleep, WaitEnds, HandlerReturns, WorkerExits, GoesTo,
         TakeFront, WorkerStates
<1>2. UNCHANGED <<lifecycle, publishing, joining, subscriptions, sequence>>
  BY DEF WorkerStep, registry
<1>3. worker' \in [Slots -> WorkerStates]
  BY <1>1 DEF OwnersInv
<1> QED BY <1>2, <1>3 DEF OwnersInv

\* Types, the owner of each mutex, and the calls that hold them: what the other
\* properties of the bus take for granted, for any number of threads.
THEOREM TypesAndOwners == Spec => []TypeOK
<1>1. ASSUME Init PROVE OwnersInv
  <2>1. worker \in [Slots -> WorkerStates]
    BY <1>1 DEF Init, WorkerStates
  <2>2. lifecycle \in Threads \cup {Free} /\ publishing \in Threads \cup {Free}
    BY <1>1 DEF Init
  <2>3. joining \in BOOLEAN
    BY <1>1, Zenon DEF Init
  <2>4. subscriptions \in Nat /\ sequence \in 0 .. MaxPublications
    BY <1>1, EventBusAssumption DEF Init
  <2> QED BY <2>1, <2>2, <2>3, <2>4 DEF OwnersInv
<1>2. OwnersInv /\ [Next]_vars => OwnersInv'
  <2>1. CASE UNCHANGED vars
    BY <2>1 DEF vars, OwnersInv
  <2> QED BY <2>1, PublisherOwners, LifecycleOwners, WorkerOwners DEF Next
<1>3. Spec => []OwnersInv
  BY <1>1, <1>2, PTL DEF Spec
<1>4. ASSUME BusInv, LifecycleInv, HistoryInv, OwnersInv PROVE TypeOK
  <2>1. handled \in [Slots -> Seq(Events)]
    BY <1>4 DEF HistoryInv, Histories, History
  <2>2. accepted \in [Slots -> SUBSET Nat]
    <3>1. ASSUME NEW s \in Slots, NEW q \in accepted[s] PROVE q \in Nat
      <4>1. Orderly(partition[s], handled[s], sequence)
            /\ Accounted(partition[s], handled[s], accepted[s])
        BY <1>4 DEF HistoryInv, Histories, History
      <4>2. \/ \E e \in Pending(partition[s]) : q \in Elements(e.payload)
            \/ \E i \in DOMAIN handled[s] : q \in Elements(handled[s][i].payload)
        BY <3>1, <4>1 DEF Accounted
      <4> QED BY <4>1, <4>2 DEF Orderly, Increasing, Elements
    <3> QED BY <1>4, <3>1 DEF HistoryInv, Histories
  <2>3. \A t \in Threads : /\ pc[t] = "publish" <=> publishing = t
                           /\ pc[t] \in {"add", "remove", "launch", "wake", "join"}
                              <=> lifecycle = t
    BY <1>4 DEF BusInv, Exclusive, LifecycleInv, Holding
  <2> QED BY <1>4, <2>1, <2>2, <2>3
          DEF TypeOK, BusInv, Types, FanoutType, LifecycleInv, OwnersInv, WorkerStates
<1> QED BY <1>3, <1>4, BusInvariance, LifecycleInvariance, HistoryInvariance, PTL

----------------------------------------------------------------------------
(* With the scheduler                                                      *)

\* The deadline of a request, by its order.
DeadlineOf(n) == job[n + 1].at

\* What is in the queue and what is out was accepted, each request once.  What
\* is out has, of everything in the queue, the earliest deadline.
QueueOK ==
  /\ nextOrder \in Nat /\ job \in Seq([what : Jobs, at : Deadlines]) /\ Len(job) = nextOrder
  /\ \A r \in pending \cup out :
       r.order \in Nat /\ r.order < nextOrder /\ r.at = DeadlineOf(r.order)
  /\ \A a, b \in pending \cup out : a.order = b.order => a = b
  /\ pending \cap out = {} /\ \A a, b \in out : a = b
  /\ \A r \in out, x \in pending : x.order < r.order => r.at < x.at

\* A publication is made for one request.  Whatever is published, what was
\* accepted before it and is not settled has a later deadline.
SentOK ==
  /\ sent \subseteq [number : Nat, order : Nat]
  /\ \A p \in sent : p.number < sequence /\ p.order < nextOrder
  /\ \A p, q \in sent : p.number = q.number => p = q
  /\ \A p \in sent, r \in pending \cup out :
       r.order < p.order => DeadlineOf(p.order) < r.at
  /\ \A p, q \in sent :
       p.number < q.number /\ q.order < p.order => DeadlineOf(p.order) < DeadlineOf(q.order)

\* Publication q is the one the timing thread is making.
UnderWay(q) == \E event \in fanout[Timer].event : q = event.sequence

\* The fan-out of the timing thread is for the request that is out; those of
\* the others are for none.  A spoiled publication is over.
AttemptOK ==
  /\ pc[Timer] \in {"idle", "publish"}
  /\ pc[Timer] = "publish" =>
       \E r \in out, event \in fanout[Timer].event :
          [number |-> event.sequence, order |-> r.order] \in sent
  /\ \A t \in Threads \ {Timer} : \A event \in fanout[t].event : \A p \in sent :
       p.number # event.sequence
  /\ \A n \in spoiled : ~UnderWay(n) /\ \E p \in sent : p.number = n

\* What was made for a request that is not settled is in no partition, except
\* for the attempt under way.
AttemptsLeftNothing ==
  \A p \in sent, s \in Slots, r \in pending \cup out :
     p.order = r.order /\ p.number \in accepted[s] =>
       p.number \in spoiled \/ (r \in out /\ UnderWay(p.number))

AttemptInv == QueueOK /\ SentOK /\ AttemptOK /\ AttemptsLeftNothing

----------------------------------------------------------------------------
(* The queue                                                               *)

LEMMA TimerFacts == Timer \in Threads /\ Timer \notin Slots /\ Free \notin Threads
BY EventBusAssumption, SchedulerBusAssumption DEF Threads

\* What is out is settled: forwarded, given up or put back.
LEMMA SettledQueue ==
  ASSUME QueueOK, UNCHANGED <<job, nextOrder>>,
         out' = {}, pending' \subseteq pending \cup out
  PROVE  QueueOK'
BY DEF QueueOK, DeadlineOf

LEMMA ExtractedQueue ==
  ASSUME QueueOK, Queue!Extract, UNCHANGED job
  PROVE  QueueOK' /\ pending' \cup out' \subseteq pending \cup out
<1>1. PICK r \in pending :
        /\ out' = {r} /\ pending' = pending \ {r}
        /\ \A x \in pending \ {r} : r.at < x.at \/ (r.at = x.at /\ r.order < x.order)
  BY DEF Queue!Extract, Queue!Earlier
<1>2. nextOrder' = nextOrder
  BY DEF Queue!Extract
<1>3. \A x \in pending' : x.order < r.order => r.at < x.at
  BY <1>1 DEF QueueOK
<1> QED BY <1>1, <1>2, <1>3 DEF QueueOK, DeadlineOf

LEMMA AcceptedQueue ==
  ASSUME QueueOK, NEW what \in Jobs, NEW at \in Deadlines, Schedule(what, at)
  PROVE  /\ QueueOK'
         /\ pending' = pending \cup {[at |-> at, order |-> nextOrder]} /\ out' = out
         /\ \A n \in Nat : n < nextOrder => DeadlineOf(n)' = DeadlineOf(n)
<1> DEFINE r == [at |-> at, order |-> nextOrder]  e == [what |-> what, at |-> at]
<1>1. /\ pending' = pending \cup {r} /\ out' = out /\ nextOrder' = nextOrder + 1
      /\ job' = Append(job, e)
  BY DEF Schedule, Queue!Accept
<1>2. /\ r.order = nextOrder /\ r.at = at /\ e.at = at
      /\ e \in [what : Jobs, at : Deadlines] /\ nextOrder \in Nat
  BY DEF QueueOK
<1> HIDE DEF r, e
<1>3. /\ job' \in Seq([what : Jobs, at : Deadlines]) /\ Len(job') = nextOrder'
      /\ job'[nextOrder + 1] = e /\ \A n \in Nat : n < nextOrder => job'[n + 1] = job[n + 1]
  BY <1>1, <1>2 DEF QueueOK
<1>4. \A n \in Nat : n < nextOrder => DeadlineOf(n)' = DeadlineOf(n)
  BY <1>3 DEF DeadlineOf
<1>5. /\ \A x \in pending \cup out : x.order < nextOrder /\ x.order \in Nat
      /\ \A x \in pending' \cup out' : x = r \/ x \in pending \cup out
      /\ r \notin pending \cup out
  BY <1>1, <1>2 DEF QueueOK
<1>6. \A x \in pending' \cup out' :
        x.order \in Nat /\ x.order < nextOrder' /\ x.at = DeadlineOf(x.order)'
  <2>1. r.at = job'[r.order + 1].at /\ r.order < nextOrder' /\ r.order \in Nat
    BY <1>1, <1>2, <1>3
  <2>2. ASSUME NEW x \in pending \cup out
        PROVE  x.order \in Nat /\ x.order < nextOrder' /\ x.at = job'[x.order + 1].at
    <3>1. x.order \in Nat /\ x.order < nextOrder /\ x.at = job[x.order + 1].at
      BY DEF QueueOK, DeadlineOf
    <3> QED BY <1>1, <1>2, <1>3, <3>1
  <2> QED BY <1>5, <2>1, <2>2 DEF DeadlineOf
<1>7. \A a, b \in pending' \cup out' : a.order = b.order => a = b
  BY <1>2, <1>5 DEF QueueOK
<1>8. \A o \in out', x \in pending' : x.order < o.order => o.at < x.at
  <2>1. ASSUME NEW o \in out PROVE ~(r.order < o.order)
    BY <1>2, <1>5
  <2> QED BY <1>1, <2>1 DEF QueueOK
<1>9. pending' \cap out' = {} /\ \A a, b \in out' : a = b
  BY <1>1, <1>5 DEF QueueOK
<1>10. QueueOK'
  BY <1>1, <1>2, <1>3, <1>6, <1>7, <1>8, <1>9 DEF QueueOK
<1> QED BY <1>1, <1>4, <1>10 DEF r

\* The steps by which a request is settled.
Settles ==
  /\ out' = {} /\ pending' \subseteq pending \cup out
  /\ UNCHANGED <<nextOrder, job>>

LEMMA CatchesSettles ==
  ASSUME NEW thrown, Catches(thrown), UNCHANGED job
  PROVE  Settles /\ out # {} /\ (pending' = IF thrown = "overflow_error"
                                              THEN pending \cup out ELSE pending)
BY DEF Catches, Retries, Queue!PutBack, Queue!Fail, Settles

LEMMA Settling ==
  ASSUME FindsNobody \/ IsRefused \/ MergerThrew \/ CallReturns
  PROVE  Settles
<1>1. CASE FindsNobody
  BY <1>1 DEF FindsNobody, Queue!Fail, Settles, history
<1>2. CASE IsRefused
  BY <1>2, CatchesSettles DEF IsRefused, Refused, history
<1>3. CASE MergerThrew
  BY <1>3, CatchesSettles DEF MergerThrew
<1>4. CASE CallReturns
  BY <1>4 DEF CallReturns, Queue!Forward, Settles, history
<1> QED BY <1>1, <1>2, <1>3, <1>4

\* The steps that leave the queue alone.
LEMMA QueueAlone ==
  ASSUME Begins \/ Continues \/ BusStep \/ Time \/ UNCHANGED timedVars
  PROVE  UNCHANGED <<pending, out, nextOrder, job>>
BY DEF Begins, Continues, BusStep, Time, Queue!Tick, timedVars, queueVars, history

LEMMA QueueInit == TimedInit => QueueOK
<1> SUFFICES ASSUME TimedInit PROVE QueueOK
  OBVIOUS
<1>1. job = <<>> /\ pending = {} /\ out = {} /\ nextOrder = 0
  BY DEF TimedInit, Queue!Init
<1> QED BY <1>1 DEF QueueOK

LEMMA QueueStep == QueueOK /\ [TimedNext]_timedVars => QueueOK'
<1> SUFFICES ASSUME QueueOK, [TimedNext]_timedVars PROVE QueueOK'
  OBVIOUS
<1>1. CASE FindsNobody \/ IsRefused \/ MergerThrew \/ CallReturns
  BY <1>1, Settling, SettledQueue DEF Settles
<1>2. CASE Begins \/ Continues \/ BusStep \/ Time \/ UNCHANGED timedVars
  BY <1>2, QueueAlone DEF QueueOK, DeadlineOf
<1>3. CASE Extract
  BY <1>3, ExtractedQueue DEF Extract, history
<1>4. ASSUME NEW what \in Jobs, NEW at \in Deadlines, Schedule(what, at) PROVE QueueOK'
  BY <1>4, AcceptedQueue
<1> QED BY <1>1, <1>2, <1>3, <1>4 DEF TimedNext, TimerStep

\* A request is in the queue once, or out, and the one that is out is the
\* earliest.
THEOREM QueueInvariance == TimedSpec => []QueueOK
BY QueueInit, QueueStep, PTL DEF TimedSpec

----------------------------------------------------------------------------
(* The steps of the bus                                                    *)

\* What the timing thread asks the bus to publish.
LEMMA BeginsPublication ==
  ASSUME QueueOK, Begins
  PROVE  \E r \in out, id \in EventIDs, superstep \in Supersteps :
           /\ \/ Publish(Timer, id, superstep)
              \/ \E s \in Slots : PublishOne(Timer, s, id, superstep)
           /\ sent' = sent \cup {[number |-> sequence, order |-> r.order]}
           /\ UNCHANGED <<queueVars, job, spoiled>>
<1>1. PICK r \in out :
        /\ \/ Publish(Timer, JobOf(r).id, JobOf(r).superstep)
           \/ \E s \in JobOf(r).target : PublishOne(Timer, s, JobOf(r).id, JobOf(r).superstep)
        /\ sent' = sent \cup {[number |-> sequence, order |-> r.order]}
        /\ UNCHANGED <<queueVars, job, spoiled>>
  BY DEF Begins
<1>2. JobOf(r) \in Jobs
  <2>1. r.order + 1 \in 1 .. Len(job)
    BY DEF QueueOK
  <2>2. job[r.order + 1] \in [what : Jobs, at : Deadlines]
    BY <2>1, ElementOfSeq DEF QueueOK
  <2> QED BY <2>2 DEF JobOf
<1>3. /\ JobOf(r).id \in EventIDs /\ JobOf(r).superstep \in Supersteps
      /\ JobOf(r).target \subseteq Slots
  BY <1>2, SchedulerBusAssumption DEF Targets
<1> QED BY <1>1, <1>3

\* A step of the composition is a step of the bus or leaves the bus alone.
LEMMA BusStepOrNone == QueueOK /\ [TimedNext]_timedVars => [Next]_vars
<1> SUFFICES ASSUME QueueOK, [TimedNext]_timedVars PROVE Next \/ UNCHANGED vars
  OBVIOUS
<1>1. ASSUME \/ Preflight(Timer) \/ PushNext(Timer) \/ MergerFails(Timer)
             \/ PublishReturns(Timer)
      PROVE  Next
  BY <1>1, TimerFacts DEF PublishStep, Next
<1>2. CASE Begins
  <2>1. PublishCall(Timer)
    BY <1>2, BeginsPublication DEF PublishCall
  <2> QED BY <2>1, TimerFacts DEF Next
<1>3. CASE Continues \/ IsRefused \/ MergerThrew \/ CallReturns
  BY <1>1, <1>3 DEF Continues, IsRefused, MergerThrew, CallReturns
<1>4. CASE BusStep
  BY <1>4 DEF BusStep, Next
<1>5. CASE Extract \/ FindsNobody \/ Time \/ UNCHANGED timedVars
  BY <1>5 DEF Extract, FindsNobody, Time, timedVars
<1>6. ASSUME NEW what \in Jobs, NEW at \in Deadlines, Schedule(what, at) PROVE UNCHANGED vars
  BY <1>6 DEF Schedule
<1> QED BY <1>2, <1>3, <1>4, <1>5, <1>6 DEF TimedNext, TimerStep

\* The timing thread uses the bus as any publisher does, and what holds of the
\* bus by itself holds with the scheduler.
THEOREM BusUnchanged == TimedSpec => Spec
<1>1. TimedInit => Init
  BY DEF TimedInit
<1> QED BY <1>1, BusStepOrNone, QueueInvariance, PTL DEF TimedSpec, Spec

----------------------------------------------------------------------------
(* What a step of the bus does to the fan-outs and to what was accepted    *)

\* A call to publish() gets the next number and the mutex.
LEMMA CallEffect ==
  ASSUME BusInv, NEW t \in Threads, PublishCall(t)
  PROVE  /\ publishing = Free /\ sequence' = sequence + 1 /\ accepted' = accepted
         /\ pc' = [pc EXCEPT ![t] = "publish"]
         /\ \A u \in Threads \ {t} : fanout'[u] = fanout[u]
         /\ \E event : fanout'[t].event = {event} /\ event.sequence = sequence
<1>1. PICK id \in EventIDs, superstep \in Supersteps :
        \E chosen : Begin(t, Event(id, superstep, sequence), chosen)
  BY DEF PublishCall, Publish, PublishOne
<1>0. PICK targets : Begin(t, Event(id, superstep, sequence), targets)
  BY <1>1
<1> DEFINE event == Event(id, superstep, sequence)
<1>2. event.sequence = sequence
  BY DEF Event
<1> HIDE DEF event
<1> DEFINE f == [event |-> {event}, targets |-> targets,
                 unchecked |-> targets, unpushed |-> targets]
<1>3. /\ publishing = Free /\ sequence' = sequence + 1 /\ accepted' = accepted
      /\ pc' = [pc EXCEPT ![t] = "publish"] /\ fanout' = [fanout EXCEPT ![t] = f]
  BY <1>0 DEF Begin, PublishMutexFree, delivery, event
<1>4. f.event = {event}
  OBVIOUS
<1> HIDE DEF f
<1> QED BY <1>2, <1>3, <1>4 DEF BusInv, Types

\* A call that goes on keeps its event and the mutex, one that ends gives both
\* up; only its own number is ever added to what the partitions took in.
Keeps(t) ==
  /\ publishing' = publishing /\ pc' = pc
  /\ fanout'[t].event = fanout[t].event

Adds(t) ==
  \A s \in Slots : \A q \in accepted'[s] :
     q \in accepted[s] \/ \E event \in fanout[t].event : q = event.sequence

LEMMA StepEffect ==
  ASSUME BusInv, HistoryInv, NEW t \in Threads, PublishStep(t)
  PROVE  /\ pc[t] = "publish" /\ publishing = t /\ sequence' = sequence
         /\ \A u \in Threads \ {t} : fanout'[u] = fanout[u]
         /\ Keeps(t) \/ (Leave(t) /\ accepted' = accepted)
         /\ Adds(t)
<1>1. pc[t] = "publish" /\ publishing = t /\ sequence' = sequence
  BY DEF PublishStep, Preflight, PushNext, MergerFails, PublishReturns, BusInv, Exclusive
<1>2. CASE Preflight(t)
  <2>1. accepted' = accepted
    BY <1>2 DEF Preflight, delivery
  <2>2. PICK s \in Slots : \/ /\ fanout' = [fanout EXCEPT ![t].unchecked =
                                              fanout[t].unchecked \ {s}]
                              /\ UNCHANGED <<publishing, pc>>
                           \/ Leave(t)
    BY <1>2 DEF Preflight
  <2> QED BY <1>1, <2>1, <2>2 DEF Keeps, Leave, Adds, BusInv, Types, FanoutType
<1>3. CASE PushNext(t)
  <2>1. PICK s \in Slots, event \in fanout[t].event :
          \/ accepted' = accepted /\ Leave(t)
          \/ /\ accepted' = [accepted EXCEPT ![s] = accepted[s] \cup {event.sequence}]
             /\ fanout' = [fanout EXCEPT ![t].unpushed = RestOf(t, s)]
             /\ UNCHANGED <<publishing, pc>>
    BY <1>3, Zenon DEF PushNext
  <2> QED BY <1>1, <2>1 DEF Keeps, Leave, Adds, BusInv, Types, FanoutType, HistoryInv, Histories
<1>4. CASE MergerFails(t) \/ PublishReturns(t)
  <2>1. Leave(t) /\ accepted' = accepted
    BY <1>4 DEF MergerFails, PublishReturns, delivery
  <2> QED BY <1>1, <2>1 DEF Leave, Adds, BusInv, Types
<1> QED BY <1>2, <1>3, <1>4 DEF PublishStep

\* The other calls and the workers publish nothing.
LEMMA NoEffect ==
  ASSUME BusInv, HistoryInv, NEW t \in Threads,
         \/ LifecycleStep(t) \/ \E call \in Calls : Call(t, call)
         \/ t \in Slots /\ WorkerStep(t)
  PROVE  /\ UNCHANGED <<fanout, sequence>>
         /\ \A u \in Threads \ {t} : pc'[u] = pc[u]
         /\ (t \in Slots /\ WorkerStep(t)) => pc' = pc
         /\ \A s \in Slots : accepted'[s] \subseteq accepted[s]
<1>0. (t \in Slots /\ WorkerStep(t)) => pc' = pc
  BY DEF WorkerStep
<1>1. CASE LifecycleStep(t)
  <2>1. UNCHANGED <<fanout, sequence>>
    BY <1>1 DEF LifecycleStep, MembershipLocks, Subscribe, Unsubscribe, Start, Launch,
       LaunchFails, Stop, StopWakes, StopReturns
  <2>2. \E to : pc' = [pc EXCEPT ![t] = to]
    BY <1>1 DEF LifecycleStep, MembershipLocks, Subscribe, Unsubscribe, Start, Launch,
       LaunchFails, Stop, StopWakes, StopReturns, Returns, Proceeds
  <2>3. accepted' = accepted \/ \E s : accepted' = [accepted EXCEPT ![s] = {}]
    BY <1>1 DEF LifecycleStep, MembershipLocks, Subscribe, Unsubscribe, Start, Launch,
       LaunchFails, Stop, StopWakes, StopReturns, delivery
  <2>4. \A u \in Threads \ {t} : pc'[u] = pc[u]
    BY <2>2 DEF BusInv, Types
  <2>5. \A s \in Slots : accepted'[s] \subseteq accepted[s]
    BY <2>3 DEF HistoryInv, Histories
  <2> QED BY <1>0, <2>1, <2>4, <2>5
<1>2. ASSUME NEW call \in Calls, Call(t, call)
      PROVE  UNCHANGED <<fanout, sequence, accepted>> /\ pc' = [pc EXCEPT ![t] = call]
  BY <1>2 DEF Call, delivery
<1>3. CASE t \in Slots /\ WorkerStep(t)
  BY <1>3 DEF WorkerStep, Consume, Poll, FallAsleep, WaitEnds, HandlerReturns, WorkerExits,
     GoesTo, TakeFront, delivery
<1>4. ASSUME NEW call \in Calls, Call(t, call)
      PROVE  \A u \in Threads \ {t} : pc'[u] = pc[u]
  BY <1>2, <1>4 DEF BusInv, Types
<1> QED BY <1>0, <1>1, <1>2, <1>3, <1>4

----------------------------------------------------------------------------
(* The publications made for each request                                  *)

\* Nothing is sent: requests may be accepted, move within the queue, or leave.
LEMMA NothingSent ==
  ASSUME QueueOK, SentOK, UNCHANGED sent,
         sequence' \in {sequence, sequence + 1}, sequence \in Nat,
         nextOrder' \in {nextOrder, nextOrder + 1},
         \A n \in Nat : n < nextOrder => DeadlineOf(n)' = DeadlineOf(n),
         \A r \in pending' \cup out' : r \in pending \cup out \/ r.order = nextOrder
  PROVE  SentOK'
<1>1. \A p \in sent : /\ p \in [number : Nat, order : Nat] /\ p.number < sequence
                      /\ p.order < nextOrder /\ DeadlineOf(p.order)' = DeadlineOf(p.order)
  BY DEF SentOK
<1>2. nextOrder \in Nat
  BY DEF QueueOK
<1>3. \A p \in sent : p.number < sequence' /\ p.order < nextOrder'
  BY <1>1, <1>2
<1>4. \A p \in sent, r \in pending' \cup out' :
        r.order < p.order => DeadlineOf(p.order)' < r.at
  BY <1>1, <1>2 DEF SentOK
<1> QED BY <1>1, <1>3, <1>4 DEF SentOK

\* The request that is out gets the next number: what is in the queue and was
\* accepted before it has a later deadline.
LEMMA OneSent ==
  ASSUME QueueOK, SentOK, NEW r \in out, sequence \in Nat, sequence' = sequence + 1,
         sent' = sent \cup {[number |-> sequence, order |-> r.order]},
         UNCHANGED <<pending, out, nextOrder, job>>
  PROVE  SentOK'
<1> DEFINE e == [number |-> sequence, order |-> r.order]
<1>1. /\ e \in [number : Nat, order : Nat] /\ e.number = sequence /\ e.order = r.order
      /\ r.order < nextOrder /\ r.at = DeadlineOf(r.order) /\ sent' = sent \cup {e}
  BY DEF QueueOK
<1> HIDE DEF e
<1>2. \A p \in sent : p \in [number : Nat, order : Nat] /\ p.number < sequence
                      /\ p.order < nextOrder
  BY DEF SentOK
<1>3. \A n : DeadlineOf(n)' = DeadlineOf(n)
  BY DEF DeadlineOf
<1>4. \A p \in sent' : p.number < sequence' /\ p.order < nextOrder'
  BY <1>1, <1>2
<1>5. \A p, q \in sent' : p.number = q.number => p = q
  BY <1>1, <1>2 DEF SentOK
<1>6. \A p \in sent', x \in pending' \cup out' :
        x.order < p.order => DeadlineOf(p.order)' < x.at
  <2>1. \A x \in pending \cup out : x.order < e.order => DeadlineOf(e.order) < x.at
    BY <1>1 DEF QueueOK
  <2> QED BY <1>1, <1>3, <2>1 DEF SentOK
<1>7. \A p, q \in sent' : p.number < q.number /\ q.order < p.order
                            => DeadlineOf(p.order)' < DeadlineOf(q.order)'
  <2>1. \A p \in sent : e.order < p.order => DeadlineOf(p.order) < DeadlineOf(e.order)
    BY <1>1 DEF SentOK
  <2>2. \A q \in sent' : ~(e.number < q.number)
    BY <1>1, <1>2
  <2> QED BY <1>1, <1>3, <2>1, <2>2 DEF SentOK
<1> QED BY <1>1, <1>2, <1>4, <1>5, <1>6, <1>7 DEF SentOK

LEMMA BusNumbers == BusInv => sequence \in Nat
BY DEF BusInv, Types

\* A step that sends nothing leaves the orders of the publications alone.
LEMMA SentStep ==
  ASSUME BusInv, HistoryInv, QueueOK, SentOK, [TimedNext]_timedVars
  PROVE  SentOK'
<1>0. [Next]_vars /\ sequence \in Nat
  BY BusStepOrNone, BusNumbers
<1>1. CASE Begins
  <2>1. PICK r \in out, id \in EventIDs, superstep \in Supersteps :
           /\ \/ Publish(Timer, id, superstep)
              \/ \E s \in Slots : PublishOne(Timer, s, id, superstep)
           /\ sent' = sent \cup {[number |-> sequence, order |-> r.order]}
           /\ UNCHANGED <<queueVars, job, spoiled>>
    BY <1>1, BeginsPublication
  <2>2. PublishCall(Timer)
    BY <2>1 DEF PublishCall
  <2>3. sequence' = sequence + 1
    BY <2>2, CallEffect, TimerFacts
  <2> QED BY <1>0, <2>1, <2>3, OneSent DEF queueVars
<1>2. sequence' \in {sequence, sequence + 1}
  <2>1. CASE Next
    <3>1. ASSUME NEW t \in Threads, PublishCall(t) PROVE sequence' = sequence + 1
      BY <3>1, CallEffect
    <3>2. ASSUME NEW t \in Threads, PublishStep(t) PROVE sequence' = sequence
      BY <3>2, StepEffect
    <3>3. ASSUME NEW t \in Threads, LifecycleStep(t) \/ \E call \in Calls : Call(t, call)
          PROVE  sequence' = sequence
      BY <3>3, NoEffect
    <3>4. ASSUME NEW s \in Slots, WorkerStep(s) PROVE sequence' = sequence
      BY <3>4 DEF WorkerStep
    <3> QED BY <2>1, <3>1, <3>2, <3>3, <3>4 DEF Next
  <2> QED BY <1>0, <2>1 DEF vars
<1>3. CASE Continues \/ BusStep \/ Time \/ UNCHANGED timedVars
  <2>1. UNCHANGED <<pending, out, nextOrder, job, sent>>
    BY <1>3, QueueAlone DEF Continues, BusStep, Time, timedVars, history
  <2> QED BY <1>0, <1>2, <2>1, NothingSent DEF DeadlineOf
<1>4. CASE FindsNobody \/ IsRefused \/ MergerThrew \/ CallReturns
  <2>1. Settles
    BY <1>4, Settling
  <2>2. sent' = sent
    BY <1>4 DEF FindsNobody, IsRefused, MergerThrew, CallReturns, history
  <2> QED BY <1>0, <1>2, <2>1, <2>2, NothingSent DEF DeadlineOf, Settles
<1>5. CASE Extract
  <2>1. pending' \cup out' \subseteq pending \cup out /\ UNCHANGED <<nextOrder, job, sent>>
    BY <1>5, ExtractedQueue DEF Extract, Queue!Extract, history
  <2> QED BY <1>0, <1>2, <2>1, NothingSent DEF DeadlineOf
<1>6. ASSUME NEW what \in Jobs, NEW at \in Deadlines, Schedule(what, at) PROVE SentOK'
  <2>1. sent' = sent /\ nextOrder' = nextOrder + 1
    BY <1>6 DEF Schedule, Queue!Accept
  <2>2. \A r \in pending' \cup out' : r \in pending \cup out \/ r.order = nextOrder
    BY <1>6, AcceptedQueue
  <2> QED BY <1>0, <1>2, <1>6, <2>1, <2>2, AcceptedQueue, NothingSent
<1> QED BY <1>1, <1>3, <1>4, <1>5, <1>6 DEF TimedNext, TimerStep

----------------------------------------------------------------------------
(* What the attempts left                                                  *)

\* The publication under way is the one made for the request that is out.
LEMMA WhoIsOut ==
  ASSUME BusInv, QueueOK, SentOK, AttemptOK, pc[Timer] = "publish",
         NEW p \in sent, UnderWay(p.number), NEW r \in pending \cup out, r.order = p.order
  PROVE  r \in out
<1>1. PICK o \in out, event \in fanout[Timer].event :
        [number |-> event.sequence, order |-> o.order] \in sent
  BY DEF AttemptOK
<1> DEFINE e == [number |-> event.sequence, order |-> o.order]
<1>2. e \in sent /\ e.number = event.sequence /\ e.order = o.order
  BY <1>1
<1> HIDE DEF e
<1>3. p.number = event.sequence
  BY TimerFacts DEF UnderWay, BusInv, Types
<1>4. p = e
  BY <1>2, <1>3 DEF SentOK
<1> QED BY <1>2, <1>4 DEF QueueOK

\* Steps of the others, and those in which the timing thread makes no call.
LEMMA OthersAttempts ==
  ASSUME QueueOK, SentOK, AttemptOK, AttemptsLeftNothing, UNCHANGED <<sent, spoiled>>,
         sequence' \in {sequence, sequence + 1},
         pc'[Timer] = pc[Timer], fanout'[Timer] = fanout[Timer],
         \A t \in Threads \ {Timer} : \A event \in fanout'[t].event :
            event \in fanout[t].event \/ event.sequence = sequence,
         \A s \in Slots : \A q \in accepted'[s] :
            \/ q \in accepted[s]
            \/ \E t \in Threads \ {Timer} : \E event \in fanout[t].event : q = event.sequence,
         out \subseteq out',
         \A r \in pending' \cup out' : r \in pending \cup out \/ r.order = nextOrder
  PROVE  AttemptOK' /\ AttemptsLeftNothing'
<1>1. \A p \in sent : /\ p.number \in Nat /\ p.number < sequence
                      /\ p.order \in Nat /\ p.order < nextOrder
  BY DEF SentOK
<1>2. AttemptOK'
  BY <1>1 DEF AttemptOK, UnderWay
<1>3. ASSUME NEW p \in sent, NEW s \in Slots, NEW r \in pending' \cup out',
             p.order = r.order, p.number \in accepted'[s]
      PROVE  p.number \in spoiled' \/ (r \in out' /\ UnderWay(p.number)')
  <2>1. p.number \in accepted[s]
    BY <1>3 DEF AttemptOK
  <2>2. r \in pending \cup out
    BY <1>1, <1>3 DEF QueueOK
  <2> QED BY <1>3, <2>1, <2>2 DEF AttemptsLeftNothing, UnderWay
<1>4. AttemptsLeftNothing'
  BY <1>3 DEF AttemptsLeftNothing
<1> QED BY <1>2, <1>4

\* A step of another thread.
LEMMA BusAttempts ==
  ASSUME BusInv, HistoryInv, QueueOK, SentOK, AttemptOK, AttemptsLeftNothing, BusStep
  PROVE  AttemptOK' /\ AttemptsLeftNothing'
<1>1. UNCHANGED <<pending, out, nextOrder, sent, spoiled>>
  BY DEF BusStep, queueVars, history
<1> DEFINE Goal == /\ sequence' \in {sequence, sequence + 1}
                   /\ pc'[Timer] = pc[Timer] /\ fanout'[Timer] = fanout[Timer]
                   /\ \A t \in Threads \ {Timer} : \A event \in fanout'[t].event :
                        event \in fanout[t].event \/ event.sequence = sequence
                   /\ \A s \in Slots : \A q \in accepted'[s] :
                        \/ q \in accepted[s]
                        \/ \E t \in Threads \ {Timer} : \E event \in fanout[t].event :
                             q = event.sequence
<1>2. ASSUME NEW t \in Threads \ {Timer}, PublishCall(t) PROVE Goal
  <2>1. /\ sequence' = sequence + 1 /\ accepted' = accepted
        /\ pc' = [pc EXCEPT ![t] = "publish"]
        /\ \A u \in Threads \ {t} : fanout'[u] = fanout[u]
        /\ \E event : fanout'[t].event = {event} /\ event.sequence = sequence
    BY <1>2, CallEffect
  <2> QED BY <2>1, TimerFacts DEF BusInv, Types
<1>3. ASSUME NEW t \in Threads \ {Timer}, PublishStep(t) PROVE Goal
  <2>1. /\ sequence' = sequence /\ Adds(t)
        /\ \A u \in Threads \ {t} : fanout'[u] = fanout[u]
        /\ Keeps(t) \/ Leave(t)
    BY <1>3, StepEffect
  <2>2. pc'[Timer] = pc[Timer] /\ fanout'[t].event \subseteq fanout[t].event
    BY <2>1, TimerFacts DEF Keeps, Leave, NoFanout, BusInv, Types
  <2> QED BY <2>1, <2>2, TimerFacts DEF Adds
<1>4. ASSUME NEW t \in Threads \ {Timer}, LifecycleStep(t) \/ \E call \in Calls : Call(t, call)
      PROVE  Goal
  BY <1>4, NoEffect, TimerFacts
<1>5. ASSUME NEW s \in Slots, WorkerStep(s) PROVE Goal
  <2>1. s \in Threads \ {Timer}
    BY TimerFacts DEF Threads
  <2> QED BY <1>5, <2>1, NoEffect, TimerFacts
<1>6. Goal
  BY <1>2, <1>3, <1>4, <1>5 DEF BusStep
<1> QED BY <1>1, <1>6, OthersAttempts

LEMMA QueueAttempts ==
  ASSUME BusInv, QueueOK, SentOK, AttemptOK, AttemptsLeftNothing,
         \/ Extract \/ Time \/ UNCHANGED timedVars
         \/ \E what \in Jobs, at \in Deadlines : Schedule(what, at)
  PROVE  AttemptOK' /\ AttemptsLeftNothing'
<1>1. UNCHANGED <<vars, sent, spoiled>>
  BY DEF Extract, Time, Schedule, timedVars, history
<1>2. /\ out \subseteq out'
      /\ \A r \in pending' \cup out' : r \in pending \cup out \/ r.order = nextOrder
  <2>1. CASE Extract
    <3>1. out = {}
      BY <2>1 DEF Extract, Queue!Extract
    <3> QED BY <2>1, <3>1, ExtractedQueue DEF Extract, history
  <2>2. ASSUME NEW what \in Jobs, NEW at \in Deadlines, Schedule(what, at)
        PROVE  /\ out \subseteq out'
               /\ \A r \in pending' \cup out' : r \in pending \cup out \/ r.order = nextOrder
    BY <2>2, AcceptedQueue
  <2> QED BY <2>1, <2>2, QueueAlone
<1> QED BY <1>1, <1>2, OthersAttempts DEF vars

LEMMA BeginsAttempt ==
  ASSUME BusInv, QueueOK, SentOK, AttemptOK, AttemptsLeftNothing, Begins
  PROVE  AttemptOK' /\ AttemptsLeftNothing'
<1>1. PICK r \in out, id \in EventIDs, superstep \in Supersteps :
         /\ \/ Publish(Timer, id, superstep)
            \/ \E s \in Slots : PublishOne(Timer, s, id, superstep)
         /\ sent' = sent \cup {[number |-> sequence, order |-> r.order]}
         /\ UNCHANGED <<queueVars, job, spoiled>>
  BY BeginsPublication
<1>2. PublishCall(Timer)
  BY <1>1 DEF PublishCall
<1>3. /\ publishing = Free /\ accepted' = accepted
      /\ pc' = [pc EXCEPT ![Timer] = "publish"]
      /\ \A u \in Threads \ {Timer} : fanout'[u] = fanout[u]
      /\ \E event : fanout'[Timer].event = {event} /\ event.sequence = sequence
  BY <1>2, CallEffect, TimerFacts
<1>4. \A u \in Threads : fanout[u].event = {}
  BY <1>3, FreeMeansNone DEF BusInv, NoFanout
<1>5. UNCHANGED <<pending, out>>
  BY <1>1 DEF queueVars
<1>6. AttemptOK'
  <2>1. pc'[Timer] = "publish"
    BY <1>3, TimerFacts DEF BusInv, Types
  <2>2. \A n \in spoiled : n # sequence /\ \E p \in sent : p.number = n
    BY DEF AttemptOK, SentOK
  <2>3. \A n \in spoiled' : ~UnderWay(n)' /\ \E p \in sent' : p.number = n
    BY <1>1, <1>3, <2>2 DEF UnderWay
  <2> QED BY <1>1, <1>3, <1>4, <1>5, <2>1, <2>3 DEF AttemptOK
<1>7. AttemptsLeftNothing'
  <2> DEFINE e == [number |-> sequence, order |-> r.order]
  <2>1. sent' = sent \cup {e} /\ e.number = sequence /\ e.order = r.order
    BY <1>1
  <2> HIDE DEF e
  <2>3. ASSUME NEW p \in sent', NEW s \in Slots, NEW x \in pending' \cup out',
               p.order = x.order, p.number \in accepted'[s]
        PROVE  p.number \in spoiled' \/ (x \in out' /\ UnderWay(p.number)')
    <3>1. CASE p = e
      <4>1. x = r
        BY <1>5, <2>1, <2>3, <3>1 DEF QueueOK
      <4>2. \E event \in fanout'[Timer].event : p.number = event.sequence
        BY <1>3, <2>1, <3>1
      <4> QED BY <1>5, <4>1, <4>2 DEF UnderWay
    <3>2. CASE p \in sent
      <4>1. p.number \in spoiled \/ UnderWay(p.number)
        BY <1>3, <1>5, <2>3, <3>2 DEF AttemptsLeftNothing
      <4> QED BY <1>1, <1>4, <4>1, TimerFacts DEF UnderWay
    <3> QED BY <2>1, <2>3, <3>1, <3>2
  <2> QED BY <2>3 DEF AttemptsLeftNothing
<1> QED BY <1>6, <1>7

LEMMA ContinuesAttempt ==
  ASSUME BusInv, HistoryInv, QueueOK, SentOK, AttemptOK, AttemptsLeftNothing, Continues
  PROVE  AttemptOK' /\ AttemptsLeftNothing'
<1>1. PublishStep(Timer) /\ publishing' = Timer
  BY DEF Continues, PublishStep
<1>2. UNCHANGED <<pending, out, sent, spoiled>>
  BY DEF Continues, queueVars, history
<1>3. /\ pc[Timer] = "publish" /\ Keeps(Timer) /\ Adds(Timer)
      /\ \A u \in Threads \ {Timer} : fanout'[u] = fanout[u]
  BY <1>1, StepEffect, TimerFacts DEF Leave
<1>4. AttemptOK'
  BY <1>2, <1>3 DEF AttemptOK, Keeps, UnderWay
<1>5. ASSUME NEW p \in sent, NEW s \in Slots, NEW r \in pending \cup out,
             p.order = r.order, p.number \in accepted'[s]
      PROVE  p.number \in spoiled \/ (r \in out /\ UnderWay(p.number))
  <2>1. p.number \in accepted[s] \/ UnderWay(p.number)
    BY <1>3, <1>5 DEF Adds, UnderWay
  <2>2. CASE UnderWay(p.number)
    BY <1>3, <1>5, <2>2, WhoIsOut
  <2> QED BY <1>5, <2>1, <2>2 DEF AttemptsLeftNothing
<1>6. \A q : UnderWay(q)' <=> UnderWay(q)
  BY <1>3 DEF Keeps, UnderWay
<1>7. AttemptsLeftNothing'
  BY <1>2, <1>5, <1>6 DEF AttemptsLeftNothing
<1> QED BY <1>4, <1>7

\* A refused publication has reached nobody.
LEMMA RefusedReachedNobody ==
  ASSUME BusInv, HistoryInv, NEW t \in Threads, Preflight(t) \/ PushNext(t),
         publishing' = Free
  PROVE  /\ Leave(t) /\ accepted' = accepted
         /\ \A event \in fanout[t].event, s \in Slots : event.sequence \notin accepted[s]
<1>1. PublishStep(t)
  BY DEF PublishStep
<1>2. /\ publishing = t /\ Leave(t) /\ accepted' = accepted
  BY <1>1, StepEffect, EventBusAssumption DEF Keeps
<1>3. CASE Preflight(t)
  <2>1. fanout[t].unchecked # {}
    BY <1>3 DEF Preflight, Checking
  <2>2. ASSUME NEW event \in fanout[t].event, NEW s \in Slots
        PROVE  event.sequence \notin accepted[s]
    <3>1. CarriedBy(fanout[t], event)
      BY DEF HistoryInv, Carried
    <3>2. Reached(fanout[t]) = {}
      BY <2>1, <3>1 DEF CarriedBy, Reached
    <3>3. /\ event.sequence \in Nat
          /\ History(partition[s], handled[s], accepted[s], event.sequence)
      BY <3>1, <3>2 DEF CarriedBy
    <3>4. \A q \in accepted[s] : q < event.sequence
      BY <3>3, Below
    <3> QED BY <3>3, <3>4
  <2> QED BY <1>2, <2>2
<1>4. CASE PushNext(t)
  <2>1. PICK s \in Slots, event \in fanout[t].event :
          /\ Pushing(t, s)
          /\ PushResult(partition[s], event) = "full" \/ UNCHANGED publishing
    BY <1>4, Zenon DEF PushNext
  <2>2. PushResult(partition[s], event) # "full"
    BY <2>1, PushingSlot, NeverFull
  <2> QED BY <1>2, <2>1, <2>2, EventBusAssumption
<1> QED BY <1>3, <1>4

\* A call that is over leaves what it was made for settled, or back in the
\* queue with nothing delivered.
LEMMA EndedAttempt ==
  ASSUME BusInv, QueueOK, SentOK, AttemptOK, AttemptsLeftNothing, Settles, UNCHANGED sent,
         accepted' = accepted, pc'[Timer] = "idle", fanout'[Timer].event = {},
         \A t \in Threads \ {Timer} : fanout'[t] = fanout[t],
         spoiled \subseteq spoiled', spoiled' \subseteq spoiled \cup {p.number : p \in sent},
         \/ pending' \subseteq pending
         \/ \A event \in fanout[Timer].event : event.sequence \in spoiled'
         \/ \A event \in fanout[Timer].event, s \in Slots : event.sequence \notin accepted[s]
  PROVE  AttemptOK' /\ AttemptsLeftNothing'
<1>1. AttemptOK'
  BY DEF AttemptOK, UnderWay
<1>2. ASSUME NEW p \in sent, NEW s \in Slots, NEW r \in pending',
             p.order = r.order, p.number \in accepted[s]
      PROVE  p.number \in spoiled'
  <2>1. r \in pending \cup out
    BY DEF Settles
  <2>2. p.number \in spoiled \/ (r \in out /\ UnderWay(p.number))
    BY <1>2, <2>1 DEF AttemptsLeftNothing
  <2>3. r \in out => r \notin pending
    BY DEF QueueOK
  <2> QED BY <1>2, <2>2, <2>3 DEF UnderWay
<1>3. AttemptsLeftNothing'
  BY <1>2 DEF AttemptsLeftNothing, Settles
<1> QED BY <1>1, <1>3

LEMMA EndingAttempts ==
  ASSUME BusInv, HistoryInv, QueueOK, SentOK, AttemptOK, AttemptsLeftNothing,
         FindsNobody \/ IsRefused \/ MergerThrew \/ CallReturns
  PROVE  AttemptOK' /\ AttemptsLeftNothing'
<1>0. Settles /\ sent' = sent
  BY Settling DEF FindsNobody, IsRefused, MergerThrew, CallReturns, history
<1>1. CASE FindsNobody
  <2>1. /\ pc[Timer] = "idle" /\ UNCHANGED <<accepted, fanout, pc, spoiled>>
        /\ pending' = pending /\ publishing = Free
    BY <1>1 DEF FindsNobody, Queue!Fail, vars, history
  <2>2. fanout'[Timer].event = {}
    BY <2>1, FreeMeansNone, TimerFacts DEF BusInv, NoFanout
  <2> QED BY <1>0, <2>1, <2>2, EndedAttempt
<1>2. ASSUME Leave(Timer), UNCHANGED accepted
      PROVE  /\ pc'[Timer] = "idle" /\ fanout'[Timer].event = {}
             /\ \A t \in Threads \ {Timer} : fanout'[t] = fanout[t]
  BY <1>2, TimerFacts DEF Leave, NoFanout, BusInv, Types
<1>3. CASE IsRefused
  <2>1. /\ Leave(Timer) /\ accepted' = accepted
        /\ \A event \in fanout[Timer].event, s \in Slots : event.sequence \notin accepted[s]
    BY <1>3, RefusedReachedNobody, TimerFacts DEF IsRefused
  <2>2. spoiled' = spoiled
    BY <1>3 DEF IsRefused, history
  <2> QED BY <1>0, <1>2, <2>1, <2>2, EndedAttempt
<1>4. CASE MergerThrew
  <2>1. PICK thrown \in Thrown :
          /\ Leave(Timer) /\ accepted' = accepted /\ Catches(thrown) /\ job' = job
          /\ spoiled' = IF thrown = "overflow_error"
                          THEN spoiled \cup {event.sequence : event \in fanout[Timer].event}
                          ELSE spoiled
          /\ pc[Timer] = "publish"
    BY <1>4 DEF MergerThrew, MergerFails, delivery
  <2>2. CASE thrown = "overflow_error"
    <3>1. /\ spoiled \subseteq spoiled'
          /\ \A event \in fanout[Timer].event : event.sequence \in spoiled'
      BY <2>1, <2>2
    <3>2. \E p \in sent : \A event \in fanout[Timer].event : event.sequence = p.number
      <4>1. \E r \in out, event \in fanout[Timer].event :
              [number |-> event.sequence, order |-> r.order] \in sent
        BY <2>1 DEF AttemptOK
      <4> QED BY <4>1, TimerFacts DEF BusInv, Types
    <3>3. spoiled' \subseteq spoiled \cup {p.number : p \in sent}
      BY <2>1, <2>2, <3>2
    <3> QED BY <1>0, <1>2, <2>1, <3>1, <3>3, EndedAttempt
  <2>3. CASE thrown # "overflow_error"
    <3>1. pending' = pending /\ spoiled' = spoiled
      BY <2>1, <2>3, CatchesSettles
    <3> QED BY <1>0, <1>2, <2>1, <3>1, EndedAttempt
  <2> QED BY <2>2, <2>3
<1>5. CASE CallReturns
  <2>1. Leave(Timer) /\ UNCHANGED <<accepted, spoiled, pending>>
    BY <1>5 DEF CallReturns, PublishReturns, delivery, Queue!Forward, history
  <2> QED BY <1>0, <1>2, <2>1, EndedAttempt
<1> QED BY <1>1, <1>3, <1>4, <1>5

----------------------------------------------------------------------------
(* The theorems                                                            *)

\* Which publication was made for which request, and what is left of it.
THEOREM AttemptInvariance == TimedSpec => []AttemptInv
<1>1. TimedInit => SentOK /\ AttemptOK /\ AttemptsLeftNothing
  <2> SUFFICES ASSUME TimedInit PROVE SentOK /\ AttemptOK /\ AttemptsLeftNothing
    OBVIOUS
  <2>1. /\ sent = {} /\ spoiled = {} /\ pc[Timer] = "idle"
        /\ \A t \in Threads : fanout[t].event = {}
    BY TimerFacts DEF TimedInit, Init, NoFanout
  <2> QED BY <2>1 DEF SentOK, AttemptOK, AttemptsLeftNothing
<1>2. BusInv /\ HistoryInv /\ QueueOK /\ (SentOK /\ AttemptOK /\ AttemptsLeftNothing)
      /\ [TimedNext]_timedVars => (SentOK /\ AttemptOK /\ AttemptsLeftNothing)'
  <2> SUFFICES ASSUME BusInv, HistoryInv, QueueOK, SentOK, AttemptOK, AttemptsLeftNothing,
                      [TimedNext]_timedVars
               PROVE  SentOK' /\ AttemptOK' /\ AttemptsLeftNothing'
    OBVIOUS
  <2>1. SentOK'
    BY SentStep
  <2>2. AttemptOK' /\ AttemptsLeftNothing'
    BY BusAttempts, QueueAttempts, BeginsAttempt, ContinuesAttempt, EndingAttempts
       DEF TimedNext, TimerStep
  <2> QED BY <2>1, <2>2
<1>3. TimedSpec => [](SentOK /\ AttemptOK /\ AttemptsLeftNothing)
  BY <1>1, <1>2, BusUnchanged, BusInvariance, HistoryInvariance, QueueInvariance, PTL
     DEF TimedSpec
<1> QED BY <1>3, QueueInvariance, PTL DEF AttemptInv

\* What waits in the scheduler has reached no partition, over any number of
\* refusals and retries, but by publications that a merger's
\* std::overflow_error cut short.
THEOREM RetriesRepeatNothing == TimedSpec => []PendingIsUntouched
<1>1. ASSUME AttemptInv PROVE PendingIsUntouched
  <2>1. ASSUME NEW r \in pending, NEW s \in Slots, NEW p \in CopiesOf(r.order, s)
        PROVE  p.number \in spoiled
    <3>1. p \in sent /\ p.order = r.order /\ p.number \in accepted[s]
      BY <2>1 DEF CopiesOf
    <3>2. p.number \in spoiled \/ r \in out
      BY <1>1, <3>1 DEF AttemptInv, AttemptsLeftNothing
    <3> QED BY <1>1, <2>1, <3>2 DEF AttemptInv, QueueOK
  <2> QED BY <2>1 DEF PendingIsUntouched
<1> QED BY <1>1, AttemptInvariance, PTL

\* A request that is forwarded has reached each of its targets by exactly one
\* of the publications made for it that no merger's std::overflow_error cut
\* short, and nobody else by any.
THEOREM ForwardedExactlyOnce == TimedSpec => ForwardedOnce
<1>1. ASSUME BusInv, HistoryInv, AttemptInv, [TimedNext]_timedVars,
             NEW r \in out, NEW s \in Slots, log' # log
      PROVE  Cardinality(Whole(r.order, s)) = IF s \in fanout[Timer].targets THEN 1 ELSE 0
  <2>1. CallReturns
    <3>1. \A thrown : Catches(thrown) => log' = log
      BY DEF Catches, Queue!PutBack, Queue!Fail
    <3>2. ASSUME \/ FindsNobody \/ IsRefused \/ MergerThrew \/ Extract \/ Begins \/ Continues
                 \/ BusStep \/ Time \/ UNCHANGED timedVars
                 \/ \E what \in Jobs, at \in Deadlines : Schedule(what, at)
          PROVE  log' = log
      BY <3>1, <3>2 DEF FindsNobody, IsRefused, Refused, MergerThrew, Extract, Begins, Continues,
         BusStep, Time, Schedule, Queue!Fail, Queue!Extract, Queue!Tick, Queue!Accept,
         timedVars, queueVars
    <3> QED BY <1>1, <3>2 DEF TimedNext, TimerStep
  <2>2. /\ pc[Timer] = "publish"
        /\ fanout[Timer].unchecked = {} /\ fanout[Timer].unpushed = {}
    BY <2>1 DEF CallReturns, PublishReturns
  <2>3. PICK o \in out, event \in fanout[Timer].event :
          [number |-> event.sequence, order |-> o.order] \in sent
    BY <1>1, <2>2 DEF AttemptInv, AttemptOK
  <2> DEFINE e == [number |-> event.sequence, order |-> r.order]
  <2>4. e \in sent /\ e.number = event.sequence /\ e.order = r.order
    BY <1>1, <2>3 DEF AttemptInv, QueueOK
  <2> HIDE DEF e
  <2>5. \A f \in fanout[Timer].event : f = event
    BY <1>1, TimerFacts DEF BusInv, Types
  <2>6. \A p \in Whole(r.order, s) : p = e
    <3>1. ASSUME NEW p \in Whole(r.order, s) PROVE p = e
      <4>1. /\ p \in sent /\ p.order = r.order /\ p.number \in accepted[s]
            /\ p.number \notin spoiled
        BY <3>1 DEF Whole, CopiesOf
      <4>2. UnderWay(p.number)
        BY <1>1, <4>1 DEF AttemptInv, AttemptsLeftNothing
      <4> QED BY <1>1, <2>4, <2>5, <4>1, <4>2 DEF UnderWay, AttemptInv, SentOK
    <3> QED BY <3>1
  <2>7. CarriedBy(fanout[Timer], event)
    BY <1>1, TimerFacts DEF HistoryInv, Carried
  <2>8. CASE s \in fanout[Timer].targets
    <3>1. event.sequence \in accepted[s]
      BY <2>2, <2>7, <2>8 DEF CarriedBy, Reached
    <3>2. event.sequence \notin spoiled
      BY <1>1 DEF AttemptInv, AttemptOK, UnderWay
    <3>3. Whole(r.order, s) = {e}
      BY <2>4, <2>6, <3>1, <3>2 DEF Whole, CopiesOf
    <3> QED BY <2>8, <3>3, FS_Singleton
  <2>9. CASE s \notin fanout[Timer].targets
    <3>1. event.sequence \in Nat
          /\ History(partition[s], handled[s], accepted[s], event.sequence)
      BY <2>7, <2>9 DEF CarriedBy, Reached
    <3>2. event.sequence \notin accepted[s]
      BY <3>1, Below
    <3>3. Whole(r.order, s) = {}
      BY <2>4, <2>6, <3>2 DEF Whole, CopiesOf
    <3> QED BY <2>9, <3>3, FS_EmptySet
  <2> QED BY <2>8, <2>9
<1>2. BusInv /\ HistoryInv /\ AttemptInv /\ [TimedNext]_timedVars =>
      [\A r \in out, s \in Slots :
         log' # log => Cardinality(Whole(r.order, s))
                         = IF s \in fanout[Timer].targets THEN 1 ELSE 0]_timedVars
  BY <1>1
<1> QED BY <1>2, BusUnchanged, BusInvariance, HistoryInvariance, AttemptInvariance, PTL
        DEF TimedSpec, ForwardedOnce

\* A handler that sees a request before one that was accepted earlier, and is
\* of no higher superstep, sees it because it had the earlier deadline: the
\* order of the scheduler's heap survives retries, partitions and merging.
THEOREM DeadlinesReachHandlers == TimedSpec => []HandledByDeadline
<1>1. ASSUME HandledInOrder, HistoryInv, BusInv, AttemptInv PROVE HandledByDeadline
  <2>1. ASSUME NEW s \in Slots, NEW i \in DOMAIN handled[s], NEW j \in DOMAIN handled[s],
               NEW m \in Requests(handled[s][i]), NEW n \in Requests(handled[s][j]),
               i < j, n < m, handled[s][j].superstep <= handled[s][i].superstep
        PROVE  job[m + 1].at < job[n + 1].at
    <3>1. PICK p \in sent, q \in sent : /\ p.number = handled[s][i].sequence /\ p.order = m
                                        /\ q.number = handled[s][j].sequence /\ q.order = n
      BY DEF Requests
    <3>2. /\ p.number \in Nat /\ q.number \in Nat /\ p.order \in Nat /\ q.order \in Nat
          /\ p.number = q.number => p = q
          /\ p.number < q.number /\ q.order < p.order
               => DeadlineOf(p.order) < DeadlineOf(q.order)
      BY <1>1 DEF AttemptInv, SentOK
    <3>3. /\ handled[s][i] \in Events /\ handled[s][j] \in Events
      BY <1>1, BusNumbers, Below DEF HistoryInv, Histories
    <3>4. handled[s][i].superstep \in Nat /\ handled[s][j].superstep \in Nat
      BY <3>3, PartitionAssumption DEF Events
    <3>5. ~(q.number < p.number)
      BY <1>1, <2>1, <3>1, <3>4 DEF HandledInOrder
    <3>6. p.number # q.number
      BY <2>1, <3>1, <3>2
    <3> QED BY <2>1, <3>1, <3>2, <3>5, <3>6 DEF DeadlineOf
  <2> QED BY <2>1 DEF HandledByDeadline
<1> QED BY <1>1, BusUnchanged, HandlersInOrder, HistoryInvariance, BusInvariance,
           AttemptInvariance, PTL
=============================================================================
