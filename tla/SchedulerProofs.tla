--------------------------- MODULE SchedulerProofs ---------------------------
(***************************************************************************)
(* The safety properties of Scheduler, for any number of producers,        *)
(* deadlines and requests.  None is inductive: NeverEarly needs what the   *)
(* thread knows of the heap in each state of its wait, the order of the    *)
(* log needs the order of what is still pending against what has left.     *)
(* IInv is the conjunction; each part has its lemma.                       *)
(***************************************************************************)
EXTENDS Scheduler, FiniteSetTheorems, WellFoundedInduction, TLAPS

----------------------------------------------------------------------------
(* The inductive invariant                                                 *)

\* At most one request is out of the heap, and only around its publication.
DueIsOne ==
  /\ heap \cap due = {}
  /\ \A a, b \in due : a = b
  /\ due # {} => timer \in {"publish", "relock"}
  /\ timer = "publish" => due # {}

\* Insertion orders are handed out once.
OrdersOK ==
  /\ \A a \in Pending : a.order < nextOrder
  /\ \A i \in DOMAIN log : log[i].order < nextOrder

\* What still waits and was accepted before what has left is due later.
LeavesInOrder ==
  /\ \A d \in due, y \in heap : y.order < d.order => d.at < y.at
  /\ \A i \in DOMAIN log, y \in Pending : y.order < log[i].order => log[i].at < y.at

\* During a deadline wait the observed root is still in the heap; a sleep that
\* ended by its deadline ended after it; a wait that was not interrupted leaves
\* a root whose time has come.
Waits ==
  /\ wait = "deadline" /\ timer \in {"predicate", "block", "asleep", "woken"}
       => \E o \in heap : observed = {o}
  /\ wait = "deadline" /\ timer = "woken" /\ timedOut => \A o \in observed : o.at <= now
  /\ timer = "decide" /\ ~interrupted
       => \E o \in heap : o.at <= now /\ \A x \in heap : ~Earlier(x, o)

\* LifecycleAgrees through the steps of a call.
CallerOK ==
  /\ caller = "idle" => /\ accepting = running
                        /\ running <=> timer # "none"
                        /\ running => ~stopRequested
  /\ caller \in {"request", "notify", "join"} => timer # "none"
  /\ caller = "finish" => timer = "none"
  /\ caller # "idle" => ~accepting

HeapFinite == IsFiniteSet(heap)

IInv ==
  /\ TypeOK /\ DueIsOne /\ OrdersOK /\ LeavesInOrder /\ Waits /\ CallerOK
  /\ HeapFinite /\ Conservation /\ OvertakesOnlyByDeadline /\ NeverEarly

----------------------------------------------------------------------------
(* The root of the heap                                                    *)

\* A nonempty set of requests has an earliest one when no two of them share an
\* insertion order, so top() is defined.
LEMMA EarliestExists ==
  ASSUME NEW H, H \subseteq Items, H # {},
         \A a, b \in H : a.order = b.order => a = b
  PROVE  \E t \in H : \A x \in H \ {t} : Earlier(t, x)
<1>1. \A S \in SUBSET Nat : S # {} => \E m \in S : \A n \in S : m <= n
  <2> SUFFICES ASSUME NEW S \in SUBSET Nat, S # {}
               PROVE  \E m \in S : \A n \in S : m <= n
    OBVIOUS
  <2>1. \E m \in S : \A n \in S : ~(<<n, m>> \in OpToRel(<, Nat))
    BY NatLessThanWellFounded, WFMin
  <2>2. PICK m \in S : \A n \in S : ~(<<n, m>> \in OpToRel(<, Nat))
    BY <2>1
  <2>3. \A n \in S : ~(n < m)
    BY <2>2 DEF OpToRel
  <2> QED BY <2>3
<1> DEFINE Times == {x.at : x \in H}
<1>2. Times \in SUBSET Nat /\ Times # {}
  <2>1. \A x \in H : x.at \in Nat
    BY SchedulerAssumption DEF Items
  <2> QED BY <2>1
<1>3. PICK m \in Times : \A n \in Times : m <= n
  BY <1>1, <1>2
<1> DEFINE First == {x \in H : x.at = m}
           Orders == {x.order : x \in First}
<1>4. Orders \in SUBSET Nat /\ Orders # {}
  BY <1>3 DEF Items
<1>5. PICK k \in Orders : \A n \in Orders : k <= n
  BY <1>1, <1>4
<1>6. PICK t \in First : t.order = k
  BY <1>5
<1>7. ASSUME NEW x \in H \ {t}
      PROVE  Earlier(t, x)
  <2>1. t.at = m /\ x.at \in Times /\ m <= x.at
    BY <1>3, <1>6
  <2>2. CASE x.at = m
    <3>1. x \in First /\ x.order \in Orders
      BY <2>2
    <3>2. k <= x.order /\ x.order # t.order
      BY <3>1, <1>5, <1>6
    <3>3. k \in Nat /\ x.order \in Nat
      BY <1>4, <1>5, <3>1
    <3> QED BY <3>2, <3>3, <1>6, <2>1, <2>2 DEF Earlier
  <2>3. CASE x.at # m
    BY <2>1, <2>3, <1>2 DEF Earlier
  <2> QED BY <2>2, <2>3
<1> QED BY <1>6, <1>7

\* Top is a member of a nonempty heap and earlier than all the others.
LEMMA TopIsEarliest ==
  ASSUME TypeOK, heap # {}
  PROVE  /\ Top \in heap
         /\ \A x \in heap \ {Top} : Earlier(Top, x)
<1>1. heap \subseteq Items /\ \A a, b \in heap : a.order = b.order => a = b
  BY DEF TypeOK, Pending
<1>2. \E t \in heap : \A x \in heap \ {t} : Earlier(t, x)
  BY <1>1, EarliestExists
<1> QED BY <1>2 DEF Top

\* Nothing in the heap is earlier than Top, and what is not later is Top.
LEMMA NothingBeforeTop ==
  ASSUME TypeOK, heap # {}
  PROVE  /\ \A x \in heap : ~Earlier(x, Top)
         /\ \A x \in heap : ~Earlier(Top, x) => x = Top
<1>1. \A x \in heap : x.at \in Nat /\ x.order \in Nat
  BY SchedulerAssumption DEF TypeOK, Items
<1> QED BY <1>1, TopIsEarliest DEF Earlier

----------------------------------------------------------------------------
(* What a step does to the requests                                        *)

requests == <<heap, due, log, nextOrder, forwarded, failed>>

\* Only five actions touch the requests.
LEMMA RequestSteps ==
  ASSUME Next
  PROVE  \/ \E p \in Producers, at \in Deadlines : Schedule(p, at)
         \/ TimerDecides \/ TimerRelocks \/ PublishForwards \/ PublishFails
         \/ UNCHANGED requests
BY DEF Next, TimerStep, StopStep, requests, counters, TimerBegin, TimerLoop,
       TimerPredicate, TimerBlock, TimerExpires, TimerWakes, PublishOverflows,
       SpuriousWakeup, Tick, Start, Stop, StopRequests, StopNotifies, StopJoins,
       StopFinishes, Notify

\* The timing thread takes the root out, or leaves the heap alone.
LEMMA Extraction ==
  ASSUME IInv, TimerDecides
  PROVE  \/ /\ UNCHANGED <<heap, due>>
            /\ timer' # "publish"
         \/ /\ heap # {} /\ due = {} /\ timer' = "publish"
            /\ due' = {Top} /\ heap' = heap \ {Top} /\ Top.at <= now
<1> USE DEF IInv
<1>1. due = {}
  BY DEF TimerDecides, DueIsOne
<1>2. ASSUME ~stopRequested, ~interrupted
      PROVE  heap # {} /\ Top.at <= now
  <2>1. PICK o \in heap : o.at <= now /\ \A x \in heap : ~Earlier(x, o)
    BY <1>2 DEF TimerDecides, Waits
  <2>2. ~Earlier(Top, o) /\ o = Top
    BY <2>1, TopIsEarliest, NothingBeforeTop
  <2> QED BY <2>1, <2>2
<1>3. CASE stopRequested
  BY <1>3 DEF TimerDecides
<1>4. CASE ~stopRequested /\ interrupted
  BY <1>4 DEF TimerDecides, LoopsAgain
<1>5. CASE ~stopRequested /\ ~interrupted
  BY <1>1, <1>2, <1>5 DEF TimerDecides, LoopsAgain
<1> QED BY <1>3, <1>4, <1>5

\* What stands for a publication has exactly one element.
LEMMA DueIsSingle ==
  ASSUME IInv, timer = "publish"
  PROVE  \E d \in Items : due = {d}
BY DEF IInv, DueIsOne, TypeOK

----------------------------------------------------------------------------
(* Each part of the invariant is preserved                                 *)

LEMMA DueIsOneStep ==
  ASSUME IInv, Next
  PROVE  DueIsOne'
<1> USE DEF IInv, DueIsOne
<1>1. ASSUME NEW p \in Producers, NEW at \in Deadlines, Schedule(p, at)
      PROVE  DueIsOne'
  BY <1>1 DEF Schedule, OrdersOK, Pending, TypeOK
<1>2. CASE TimerDecides
  <2>1. due = {}
    BY <1>2 DEF TimerDecides
  <2> QED BY <1>2, <2>1, Extraction
<1>3. CASE TimerRelocks
  BY <1>3 DEF TimerRelocks
<1>4. CASE PublishForwards \/ PublishFails
  BY <1>4 DEF PublishForwards, PublishFails
<1>5. CASE UNCHANGED requests
  <2>1. UNCHANGED <<heap, due>>
    BY <1>5 DEF requests
  <2>2. (due # {} => timer' \in {"publish", "relock"}) /\ (timer' = "publish" => due # {})
    BY Next, <2>1 DEF Next, TimerStep, StopStep, requests, TimerBegin, TimerLoop, TimerPredicate,
       TimerBlock, TimerExpires, TimerWakes, TimerDecides, TimerRelocks, PublishOverflows,
       PublishForwards, PublishFails, WaitReturns, threadVars,
       SpuriousWakeup, Tick, Start, Stop, StopRequests, StopNotifies, StopJoins,
       StopFinishes, Notify, WakesTimer, Schedule, CallerOK
  <2> QED BY <2>1, <2>2
<1> QED BY <1>1, <1>2, <1>3, <1>4, <1>5, RequestSteps

\* The insertion orders are naturals.
LEMMA OrdersAreNat ==
  ASSUME TypeOK
  PROVE  /\ nextOrder \in Nat
         /\ \A a \in Pending : a.order \in Nat /\ a.at \in Nat
         /\ \A i \in DOMAIN log : log[i].order \in Nat /\ log[i].at \in Nat
<1>1. \A a \in Items : a.order \in Nat /\ a.at \in Nat
  BY SchedulerAssumption DEF Items
<1>2. Pending \subseteq Items /\ \A i \in DOMAIN log : log[i] \in Items
  BY DEF TypeOK, Pending
<1>3. nextOrder \in Nat
  BY SchedulerAssumption DEF TypeOK
<1> QED BY <1>1, <1>2, <1>3

LEMMA OrdersStep ==
  ASSUME IInv, Next
  PROVE  OrdersOK'
<1> USE DEF IInv, OrdersOK, Pending
<1>0. /\ nextOrder \in Nat
      /\ \A a \in Pending : a.order \in Nat
      /\ \A i \in DOMAIN log : log[i].order \in Nat
  BY OrdersAreNat
<1>1. ASSUME NEW p \in Producers, NEW at \in Deadlines, Schedule(p, at)
      PROVE  OrdersOK'
  <2>1. /\ heap' = heap \cup {[at |-> at, order |-> nextOrder]}
        /\ nextOrder' = nextOrder + 1
        /\ due' = due /\ log' = log
    BY <1>1 DEF Schedule, OrderAfter
  <2> QED BY <1>0, <2>1
<1>2. CASE TimerDecides
  <2>1. UNCHANGED <<log, nextOrder>>
    BY <1>2 DEF TimerDecides, counters
  <2> QED BY <1>2, <2>1, Extraction, TopIsEarliest
<1>3. CASE TimerRelocks
  BY <1>3 DEF TimerRelocks, Reinserted, counters
<1>4. CASE PublishForwards
  <2>1. PICK d \in due : log' = Append(log, d)
    BY <1>4 DEF PublishForwards
  <2>2. \A i \in DOMAIN log' : (i \in DOMAIN log /\ log'[i] = log[i]) \/ log'[i] = d
    BY <2>1 DEF TypeOK
  <2> QED BY <1>4, <2>1, <2>2 DEF PublishForwards
<1>5. CASE PublishFails
  BY <1>5 DEF PublishFails
<1>6. CASE UNCHANGED requests
  BY <1>6 DEF requests
<1> QED BY <1>1, <1>2, <1>3, <1>4, <1>5, <1>6, RequestSteps

LEMMA LeavesStep ==
  ASSUME IInv, Next
  PROVE  LeavesInOrder'
<1> USE DEF IInv, LeavesInOrder, Pending
<1>0. /\ nextOrder \in Nat
      /\ \A a \in Pending : a.order \in Nat /\ a.order < nextOrder
      /\ \A i \in DOMAIN log : log[i].order \in Nat /\ log[i].order < nextOrder
  BY OrdersAreNat DEF OrdersOK
<1>1. ASSUME NEW p \in Producers, NEW at \in Deadlines, Schedule(p, at)
      PROVE  LeavesInOrder'
  <2>1. /\ heap' = heap \cup {[at |-> at, order |-> nextOrder]}
        /\ due' = due /\ log' = log
    BY <1>1 DEF Schedule
  <2> QED BY <1>0, <2>1
<1>2. CASE TimerDecides
  <2>1. log' = log
    BY <1>2 DEF TimerDecides
  <2>2. \A y \in heap \ {Top} : Earlier(Top, y) /\ Top.order \in Nat /\ y.order \in Nat
    BY <1>0, TopIsEarliest
  <2> QED BY <1>2, <2>1, <2>2, Extraction, TopIsEarliest DEF Earlier
<1>3. CASE TimerRelocks
  BY <1>3 DEF TimerRelocks, Reinserted
<1>4. CASE PublishForwards
  <2>1. PICK d \in due : log' = Append(log, d)
    BY <1>4 DEF PublishForwards
  <2>2. \A i \in DOMAIN log' : (i \in DOMAIN log /\ log'[i] = log[i]) \/ log'[i] = d
    BY <2>1 DEF TypeOK
  <2>3. due' = {} /\ heap' = heap
    BY <1>4 DEF PublishForwards
  <2> QED BY <2>1, <2>2, <2>3
<1>5. CASE PublishFails
  BY <1>5 DEF PublishFails
<1>6. CASE UNCHANGED requests
  BY <1>6 DEF requests
<1> QED BY <1>1, <1>2, <1>3, <1>4, <1>5, <1>6, RequestSteps

LEMMA OvertakesStep ==
  ASSUME IInv, Next
  PROVE  OvertakesOnlyByDeadline'
<1> USE DEF IInv, OvertakesOnlyByDeadline
<1>1. CASE PublishForwards
  <2>1. PICK d \in due : log' = Append(log, d)
    BY <1>1 DEF PublishForwards
  <2>2. \A i \in DOMAIN log' : \/ i \in 1 .. Len(log) /\ log'[i] = log[i]
                               \/ i = Len(log) + 1 /\ log'[i] = d
    BY <2>1 DEF TypeOK
  <2>3. \A i \in 1 .. Len(log) : d.order < log[i].order => log[i].at < d.at
    BY DEF LeavesInOrder, Pending, TypeOK
  <2>4. Len(log) \in Nat /\ DOMAIN log = 1 .. Len(log)
    BY DEF TypeOK
  <2> SUFFICES ASSUME NEW i \in DOMAIN log', NEW j \in DOMAIN log',
                      i < j, log'[j].order < log'[i].order
               PROVE  log'[i].at < log'[j].at
    OBVIOUS
  <2>5. CASE j = Len(log) + 1
    BY <2>2, <2>3, <2>4, <2>5
  <2>6. CASE j \in 1 .. Len(log)
    BY <2>2, <2>4, <2>6
  <2> QED BY <2>2, <2>5, <2>6
<1>2. CASE UNCHANGED log
  BY <1>2
<1> QED BY <1>1, <1>2, RequestSteps
        DEF Schedule, TimerDecides, TimerRelocks, PublishFails, requests

LEMMA NeverEarlyStep ==
  ASSUME IInv, Next
  PROVE  NeverEarly'
<1> USE DEF IInv, NeverEarly
<1>1. now' = now \/ now' = now + 1
  BY DEF Next, TimerStep, StopStep, requests, counters, TimerBegin, TimerLoop,
         TimerPredicate, TimerBlock, TimerExpires, TimerWakes, PublishOverflows,
         SpuriousWakeup, Tick, Start, Stop, StopRequests, StopNotifies, StopJoins,
         StopFinishes, Notify, Schedule, TimerDecides, TimerRelocks, PublishForwards,
         PublishFails
<1>2. now \in Nat /\ \A d \in Pending : d.at \in Nat
  BY OrdersAreNat, SchedulerAssumption DEF TypeOK
<1>3. CASE UNCHANGED due \/ due' = {}
  BY <1>1, <1>2, <1>3 DEF Pending
<1>4. CASE TimerDecides
  <2>1. now' = now
    BY <1>4 DEF TimerDecides
  <2> QED BY <1>4, <2>1, <1>3, Extraction
<1> QED BY <1>3, <1>4, RequestSteps
        DEF Schedule, TimerRelocks, PublishForwards, PublishFails, requests

\* What the parts of the sum are.
LEMMA CardinalityFacts ==
  ASSUME IInv
  PROVE  /\ Cardinality(heap) \in Nat /\ Cardinality(due) \in Nat
         /\ Cardinality({}) = 0 /\ \A d : Cardinality({d}) = 1
         /\ forwarded \in Nat /\ failed \in Nat /\ nextOrder \in Nat
<1>1. Cardinality(heap) \in Nat
  BY FS_CardinalityType DEF IInv, HeapFinite
<1>2. Cardinality({}) = 0 /\ \A d : Cardinality({d}) = 1
  BY FS_EmptySet, FS_Singleton
<1>3. due = {} \/ \E d : due = {d}
  BY DEF IInv, DueIsOne
<1>4. Cardinality(due) \in Nat
  <2>1. Cardinality(due) = 0 \/ Cardinality(due) = 1
    BY <1>2, <1>3, Zenon
  <2> QED BY <2>1
<1>5. forwarded \in Nat /\ failed \in Nat /\ nextOrder \in Nat
  BY SchedulerAssumption DEF IInv, TypeOK
<1> QED BY <1>1, <1>2, <1>4, <1>5

LEMMA ConservationStep ==
  ASSUME IInv, Next
  PROVE  HeapFinite' /\ Conservation'
<1> USE CardinalityFacts
<1>0. /\ IsFiniteSet(heap)
      /\ nextOrder = Cardinality(heap) + Cardinality(due) + forwarded + failed
  BY DEF IInv, HeapFinite, Conservation
<1>s. SUFFICES /\ IsFiniteSet(heap')
               /\ nextOrder' = Cardinality(heap') + Cardinality(due') + forwarded' + failed'
  BY DEF HeapFinite, Conservation
<1>1. ASSUME NEW p \in Producers, NEW at \in Deadlines, Schedule(p, at)
      PROVE  /\ IsFiniteSet(heap')
             /\ nextOrder' = Cardinality(heap') + Cardinality(due') + forwarded' + failed'
  <2> DEFINE x == [at |-> at, order |-> nextOrder]
  <2>1. x \notin heap
    BY DEF IInv, OrdersOK, Pending, TypeOK
  <2>2. IsFiniteSet(heap \cup {x}) /\ Cardinality(heap \cup {x}) = Cardinality(heap) + 1
    BY <1>0, <2>1, FS_AddElement
  <2>3. /\ heap' = heap \cup {x} /\ nextOrder' = nextOrder + 1
        /\ UNCHANGED <<due, forwarded, failed>>
    BY <1>1 DEF Schedule, OrderAfter
  <2> HIDE DEF x
  <2>4. IsFiniteSet(heap') /\ Cardinality(heap') = Cardinality(heap) + 1
    BY <2>2, <2>3, Zenon
  <2> QED BY <1>0, <2>3, <2>4
<1>2. CASE TimerDecides
  <2>1. UNCHANGED <<nextOrder, forwarded, failed>>
    BY <1>2 DEF TimerDecides, counters
  <2>2. CASE UNCHANGED <<heap, due>>
    BY <1>0, <2>1, <2>2
  <2>3. CASE heap # {} /\ due = {} /\ due' = {Top} /\ heap' = heap \ {Top}
    <3>1. Top \in heap
      BY <2>3, TopIsEarliest DEF IInv
    <3>2. IsFiniteSet(heap \ {Top}) /\ Cardinality(heap \ {Top}) = Cardinality(heap) - 1
      BY <1>0, <3>1, FS_RemoveElement
    <3>3. /\ IsFiniteSet(heap') /\ Cardinality(heap') = Cardinality(heap) - 1
          /\ Cardinality(due) = 0 /\ Cardinality(due') = 1
      BY <2>3, <3>2, Zenon
    <3> QED BY <1>0, <2>1, <3>3
  <2> QED BY <1>2, <2>2, <2>3, Extraction
<1>3. CASE TimerRelocks
  <2>1. UNCHANGED <<nextOrder, forwarded, failed>> /\ heap' = heap \cup due /\ due' = {}
    BY <1>3 DEF TimerRelocks, Reinserted, counters
  <2>2. CASE due = {}
    <3>1. heap' = heap /\ due' = due
      BY <2>1, <2>2
    <3> QED BY <1>0, <2>1, <3>1
  <2>3. CASE due # {}
    <3>0. PICK d \in due : TRUE
      BY <2>3
    <3>1. due = {d}
      BY <3>0 DEF IInv, DueIsOne
    <3>2. d \notin heap
      BY <3>1 DEF IInv, DueIsOne
    <3>3. IsFiniteSet(heap \cup {d}) /\ Cardinality(heap \cup {d}) = Cardinality(heap) + 1
      BY <1>0, <3>2, FS_AddElement
    <3>4. /\ IsFiniteSet(heap') /\ Cardinality(heap') = Cardinality(heap) + 1
          /\ Cardinality(due) = 1 /\ Cardinality(due') = 0
      BY <2>1, <3>1, <3>3, Zenon
    <3> QED BY <1>0, <2>1, <3>4
  <2> QED BY <2>2, <2>3
<1>4. CASE PublishForwards \/ PublishFails
  <2>1. PICK d : due = {d}
    BY <1>4, DueIsSingle DEF PublishForwards, PublishFails
  <2>2. /\ UNCHANGED <<heap, nextOrder>> /\ due' = {}
        /\ \/ forwarded' = forwarded + 1 /\ failed' = failed
           \/ forwarded' = forwarded /\ failed' = failed + 1
    BY <1>4 DEF PublishForwards, PublishFails
  <2>3. Cardinality(due) = 1 /\ Cardinality(due') = 0
    BY <2>1, <2>2, Zenon
  <2> QED BY <1>0, <2>2, <2>3
<1>5. CASE UNCHANGED requests
  BY <1>0, <1>5 DEF requests
<1> QED BY <1>1, <1>2, <1>3, <1>4, <1>5, RequestSteps

\* The waits: a step of the timing thread moves it along, and what the others
\* do between leaves the observed root in the heap.
LEMMA WaitsStep ==
  ASSUME IInv, Next
  PROVE  Waits'
<1> USE DEF IInv, Waits
<1>0. now \in Nat /\ (\A o \in heap \cup observed : o.at \in Nat) /\ Free # Timer
  <2>1. \A a \in Items : a.at \in Nat
    BY SchedulerAssumption DEF Items
  <2>2. heap \cup observed \subseteq Items /\ now \in Nat
    BY SchedulerAssumption DEF TypeOK
  <2> QED BY <2>1, <2>2, SchedulerAssumption
<1>1. ASSUME NEW p \in Producers, NEW at \in Deadlines, Schedule(p, at)
      PROVE  Waits'
  <2>1. /\ UNCHANGED <<timer, wait, observed, timedOut, interrupted, now>>
        /\ heap \subseteq heap' /\ timer # "decide"
    BY <1>0, <1>1 DEF Schedule, threadVars, TypeOK
  <2> QED BY <2>1
<1>2. ASSUME NEW p \in Producers, Notify(p)
      PROVE  Waits'
  BY <1>2 DEF Notify, WakesTimer
<1>3. CASE TimerBegin \/ TimerBlock \/ SpuriousWakeup
  BY <1>3 DEF TimerBegin, TimerBlock, SpuriousWakeup, threadVars
<1>4. CASE TimerLoop
  <2>1. CASE heap = {} \/ stopRequested
    BY <1>4, <2>1 DEF TimerLoop
  <2>2. CASE heap # {} /\ ~stopRequested
    <3>1. /\ observed' = {Top} /\ heap' = heap /\ timer' = "predicate"
      BY <1>4, <2>2 DEF TimerLoop
    <3>2. Top \in heap
      BY <2>2, TopIsEarliest
    <3> QED BY <3>1, <3>2
  <2> QED BY <2>1, <2>2
<1>5. CASE TimerPredicate
  <2>1. UNCHANGED <<heap, wait, observed, timedOut, now>> /\ timer = "predicate"
    BY <1>5 DEF TimerPredicate
  <2>2. \/ timer' \in {"decide", "loop"} /\ interrupted' = TRUE
        \/ timer' = "block"
    BY <1>5 DEF TimerPredicate, WaitReturns
  <2> QED BY <2>1, <2>2
<1>6. CASE TimerExpires
  <2>1. /\ UNCHANGED <<heap, wait, observed, now>>
        /\ timer = "asleep" /\ timer' = "woken"
        /\ wait = "retry" \/ (wait = "deadline" /\ \E o \in observed : o.at <= now)
    BY <1>6 DEF TimerExpires
  <2> QED BY <2>1
<1>7. CASE TimerWakes
  <2>1. UNCHANGED <<heap, wait, observed, timedOut, now>> /\ timer = "woken"
    BY <1>7 DEF TimerWakes
  <2>2. CASE timedOut /\ wait = "deadline"
    <3>1. timer' = "decide" /\ interrupted' = Predicate
      BY <1>7, <2>2 DEF TimerWakes, WaitReturns
    <3>2. PICK o \in heap : observed = {o} /\ o.at <= now
      BY <2>1, <2>2
    <3>3. ASSUME ~Predicate PROVE \A x \in heap : ~Earlier(x, o)
      <4>1. ~Earlier(Top, o)
        BY <2>2, <3>2, <3>3 DEF Predicate, RootChanged
      <4>2. o = Top
        BY <4>1, NothingBeforeTop
      <4> QED BY <4>2, NothingBeforeTop
    <3> QED BY <2>1, <3>1, <3>2, <3>3
  <2>3. CASE timedOut /\ wait # "deadline"
    <3>1. timer' = "loop"
      BY <1>7, <2>3 DEF TimerWakes, WaitReturns
    <3> QED BY <3>1
  <2>4. CASE ~timedOut
    <3>1. timer' = "predicate"
      BY <1>7, <2>4 DEF TimerWakes
    <3> QED BY <2>1, <3>1
  <2> QED BY <2>2, <2>3, <2>4
<1>8. CASE TimerDecides \/ PublishForwards \/ PublishFails \/ PublishOverflows
  <2>1. timer' \in {"exited", "loop", "publish", "relock"}
    BY <1>8 DEF TimerDecides, PublishForwards, PublishFails, PublishOverflows
  <2> QED BY <2>1
<1>9. CASE TimerRelocks
  BY <1>9 DEF TimerRelocks
<1>10. CASE Start \/ Stop \/ StopRequests \/ StopJoins \/ StopFinishes
  BY <1>10 DEF Start, Stop, StopRequests, StopJoins, StopFinishes, threadVars
<1>11. CASE StopNotifies
  BY <1>11 DEF StopNotifies, WakesTimer
<1>12. CASE Tick
  BY <1>0, <1>12 DEF Tick, threadVars
<1> QED BY <1>1, <1>2, <1>3, <1>4, <1>5, <1>6, <1>7, <1>8, <1>9, <1>10, <1>11, <1>12
        DEF Next, TimerStep, StopStep

\* The timing thread neither appears nor vanishes by itself.
LEMMA CallerStep ==
  ASSUME IInv, Next
  PROVE  CallerOK'
<1> USE DEF IInv, CallerOK
<1>0. accepting \in BOOLEAN /\ running \in BOOLEAN /\ stopRequested \in BOOLEAN
  BY DEF TypeOK
<1>1. CASE TimerStep \/ SpuriousWakeup
  <2>1. timer # "none" /\ timer' # "none"
    BY <1>1 DEF TimerStep, TimerBegin, TimerLoop, TimerPredicate, TimerBlock,
       TimerExpires, TimerWakes, TimerDecides, TimerRelocks, PublishForwards,
       PublishOverflows, PublishFails, SpuriousWakeup, WaitReturns
  <2>2. UNCHANGED <<caller, accepting, running, stopRequested>>
    BY <1>1 DEF TimerStep, TimerBegin, TimerLoop, TimerPredicate, TimerBlock,
       TimerExpires, TimerWakes, TimerDecides, TimerRelocks, PublishForwards,
       PublishOverflows, PublishFails, SpuriousWakeup, WaitReturns
  <2> QED BY <2>1, <2>2
<1>2. ASSUME NEW p \in Producers, NEW at \in Deadlines, Schedule(p, at)
      PROVE  CallerOK'
  BY <1>2 DEF Schedule
<1>3. ASSUME NEW p \in Producers, Notify(p)
      PROVE  CallerOK'
  <2>1. (timer' = "none") <=> (timer = "none")
    BY <1>3 DEF Notify, WakesTimer
  <2>2. UNCHANGED <<accepting, running, stopRequested, caller>>
    BY <1>3 DEF Notify
  <2> QED BY <2>1, <2>2
<1>9. CASE Tick
  BY <1>9 DEF Tick
<1>4. CASE Start
  BY <1>4 DEF Start, NewToken
<1>5. CASE Stop
  BY <1>5 DEF Stop
<1>6. CASE StopRequests \/ StopJoins
  BY <1>6 DEF StopRequests, StopJoins
<1>7. CASE StopNotifies
  <2>1. timer' # "none"
    BY <1>7 DEF StopNotifies, WakesTimer
  <2> QED BY <1>7, <2>1 DEF StopNotifies
<1>8. CASE StopFinishes
  BY <1>0, <1>8 DEF StopFinishes
<1> QED BY <1>1, <1>2, <1>3, <1>4, <1>5, <1>6, <1>7, <1>8, <1>9 DEF Next, StopStep

\* Types, the owner of the mutex, and no insertion order twice.
LEMMA TypeStep ==
  ASSUME IInv, Next
  PROVE  TypeOK'
<1> USE SchedulerAssumption DEF TypeOK, TimerStates, Pending, threadVars, counters
<1>0. TypeOK
  BY DEF IInv
<1>1. ASSUME NEW p \in Producers, NEW at \in Deadlines, Schedule(p, at)
      PROVE  TypeOK'
  <2> DEFINE x == [at |-> at, order |-> nextOrder]
  <2>1. x \in Items /\ x.order = nextOrder
    BY <1>0 DEF Items
  <2>2. \A a \in heap \cup due : a.order # nextOrder
    BY <1>0, OrdersAreNat DEF IInv, OrdersOK
  <2>3. nextOrder' \in 0 .. MaxItems
    BY <1>0, <1>1 DEF Schedule, OrderAfter
  <2>4. heap' = heap \cup {x} /\ due' = due
    BY <1>1 DEF Schedule
  <2>5. /\ heap' \in SUBSET Items
        /\ \A a, b \in heap' \cup due' : a.order = b.order => a = b
    BY <1>0, <2>1, <2>2, <2>4
  <2> HIDE DEF x
  <2> QED BY <1>0, <1>1, <2>3, <2>5 DEF Schedule
<1>2. ASSUME NEW p \in Producers, Notify(p)
      PROVE  TypeOK'
  BY <1>0, <1>2 DEF Notify, WakesTimer
<1>3. CASE TimerBegin
  BY <1>0, <1>3 DEF TimerBegin
<1>4. CASE TimerLoop
  <2>1. observed' \in SUBSET Items
    BY <1>0, <1>4, TopIsEarliest DEF TimerLoop
  <2> QED BY <1>0, <1>4, <2>1 DEF TimerLoop
<1>5. CASE TimerPredicate
  BY <1>0, <1>5 DEF TimerPredicate, WaitReturns
<1>6. CASE TimerBlock
  BY <1>0, <1>6 DEF TimerBlock
<1>7. CASE TimerExpires \/ SpuriousWakeup
  <2>1. CASE TimerExpires
    BY <1>0, <2>1 DEF TimerExpires
  <2>2. CASE SpuriousWakeup
    BY <1>0, <2>2 DEF SpuriousWakeup
  <2> QED BY <1>7, <2>1, <2>2
<1>8. CASE TimerWakes
  <2>1. Predicate \in BOOLEAN
    BY DEF Predicate
  <2> QED BY <1>0, <1>8, <2>1 DEF TimerWakes, WaitReturns
<1>9. CASE TimerDecides
  <2>1. /\ heap' \in SUBSET Items /\ due' \in SUBSET Items
        /\ heap' \cup due' \subseteq heap \cup due
    BY <1>0, <1>9, Extraction, TopIsEarliest
  <2> QED BY <1>0, <1>9, <2>1 DEF TimerDecides
<1>10. CASE PublishForwards \/ PublishOverflows \/ PublishFails
  <2>1. \A d \in Items : Append(log, d) \in Seq(Items)
    BY <1>0
  <2>2. log' \in Seq(Items)
    BY <1>0, <1>10, <2>1, Zenon DEF PublishForwards, PublishOverflows, PublishFails
  <2>3. UNCHANGED <<mutex, heap, observed, accepting, running, stopRequested, timedOut,
                    interrupted, nextOrder, notifying, wait, caller, now>>
    BY <1>10 DEF PublishForwards, PublishOverflows, PublishFails
  <2>4. /\ forwarded' \in Nat /\ failed' \in Nat /\ due' \in SUBSET due
        /\ timer = "publish" /\ timer' = "relock"
    BY <1>0, <1>10 DEF PublishForwards, PublishOverflows, PublishFails
  <2> QED BY <1>0, <2>2, <2>3, <2>4
<1>11. CASE TimerRelocks
  BY <1>0, <1>11 DEF TimerRelocks, Reinserted
<1>12. CASE Tick
  BY <1>0, <1>12 DEF Tick
<1>13. CASE Start \/ Stop
  <2>1. CASE Start
    BY <1>0, <2>1 DEF Start, NewToken
  <2>2. CASE Stop
    BY <1>0, <2>2 DEF Stop
  <2> QED BY <1>13, <2>1, <2>2
<1>14. CASE StopRequests \/ StopJoins \/ StopFinishes
  <2>1. CASE StopRequests
    BY <1>0, <2>1 DEF StopRequests, Request
  <2>2. CASE StopJoins
    BY <1>0, <2>2 DEF StopJoins
  <2>3. CASE StopFinishes
    BY <1>0, <2>3 DEF StopFinishes
  <2> QED BY <1>14, <2>1, <2>2, <2>3
<1>15. CASE StopNotifies
  BY <1>0, <1>15 DEF StopNotifies, WakesTimer
<1> QED
  BY <1>1, <1>2, <1>3, <1>4, <1>5, <1>6, <1>7, <1>8, <1>9, <1>10, <1>11, <1>12, <1>13,
     <1>14, <1>15 DEF Next, TimerStep, StopStep

----------------------------------------------------------------------------
(* The theorems                                                            *)

LEMMA InitOK ==
  ASSUME Init
  PROVE  IInv
<1> USE SchedulerAssumption DEF Init, Pending
<1>0. log \in Seq(Items) /\ 0 \in 0 .. MaxItems /\ 0 \in 0 .. MaxTime
  OBVIOUS
<1>1. TypeOK
  BY <1>0 DEF TypeOK, TimerStates
<1>2. HeapFinite /\ Conservation
  BY FS_EmptySet DEF HeapFinite, Conservation
<1>3. DueIsOne /\ OrdersOK /\ LeavesInOrder
  BY DEF DueIsOne, OrdersOK, LeavesInOrder
<1>4. Waits /\ CallerOK /\ OvertakesOnlyByDeadline /\ NeverEarly
  BY DEF Waits, CallerOK, OvertakesOnlyByDeadline, NeverEarly
<1> QED BY <1>1, <1>2, <1>3, <1>4 DEF IInv

\* Every reachable state of the scheduler satisfies the inductive invariant.
THEOREM Invariance == Spec => []IInv
<1>1. Init => IInv
  BY InitOK
<1>2. IInv /\ [Next]_vars => IInv'
  <2> SUFFICES ASSUME IInv, [Next]_vars PROVE IInv'
    OBVIOUS
  <2>1. CASE Next
    BY <2>1, TypeStep, DueIsOneStep, OrdersStep, LeavesStep, WaitsStep, CallerStep,
       ConservationStep, OvertakesStep, NeverEarlyStep DEF IInv
  <2>2. CASE UNCHANGED vars
    BY <2>2 DEF IInv, vars, TypeOK, Pending, DueIsOne, OrdersOK, LeavesInOrder, Waits,
       CallerOK, HeapFinite, Conservation, OvertakesOnlyByDeadline, NeverEarly, Earlier,
       counters, threadVars
  <2> QED BY <2>1, <2>2
<1> QED BY <1>1, <1>2, PTL DEF Spec

\* The scheduler's variables keep their types, the mutex belongs to the timing
\* thread exactly where its code holds it, and insertion orders are unique.
THEOREM TypeCorrect == Spec => []TypeOK
<1>1. IInv => TypeOK
  BY DEF IInv
<1> QED BY <1>1, Invariance, PTL

\* Accepted requests are conserved, whatever producers, the bus and stop() do.
THEOREM RequestsConserved == Spec => []Conservation
<1>1. IInv => Conservation
  BY DEF IInv
<1> QED BY <1>1, Invariance, PTL

\* Requests are forwarded earliest deadline first and in insertion order, but
\* for those accepted too late: one overtakes only by a strictly earlier deadline.
THEOREM ForwardedInOrder == Spec => []OvertakesOnlyByDeadline
<1>1. IInv => OvertakesOnlyByDeadline
  BY DEF IInv
<1> QED BY <1>1, Invariance, PTL

\* No request leaves the heap for publication before its deadline.
THEOREM PublishedNotEarly == Spec => []NeverEarly
<1>1. IInv => NeverEarly
  BY DEF IInv
<1> QED BY <1>1, Invariance, PTL

\* Between the calls the flags, the thread and its stop token agree.
THEOREM CallsAgree == Spec => []LifecycleAgrees
<1>1. IInv => LifecycleAgrees
  BY DEF IInv, CallerOK, DueIsOne, LifecycleAgrees
<1> QED BY <1>1, Invariance, PTL

----------------------------------------------------------------------------
(* The scheduler is a DeadlineQueue                                        *)

\* The steps that touch the requests, and the clock, are steps of the queue.
LEMMA QueueStep ==
  ASSUME IInv, Next
  PROVE  Promise!Next \/ UNCHANGED <<heap, due, log, failed, nextOrder, now>>
<1> USE DEF Promise!Next
<1>1. ASSUME NEW p \in Producers, NEW at \in Deadlines, Schedule(p, at)
      PROVE  Promise!Accept(at)
  BY <1>1 DEF Schedule, OrderAfter, Promise!Accept, counters
<1>2. CASE TimerDecides
  <2>1. CASE due' = due
    BY <1>2, <2>1 DEF TimerDecides, counters, IInv, DueIsOne
  <2>2. CASE due' # due
    <3>1. heap # {} /\ due = {} /\ Top.at <= now
      BY <1>2, <2>2, Extraction DEF IInv
    <3>2. /\ due' = {Top} /\ heap' = heap \ {Top}
          /\ UNCHANGED <<log, failed, nextOrder, now>>
      BY <1>2, <2>2 DEF TimerDecides, counters
    <3>3. Top \in heap /\ \A x \in heap \ {Top} : Promise!Earlier(Top, x)
      BY <3>1, TopIsEarliest DEF IInv, Earlier, Promise!Earlier
    <3> QED BY <3>1, <3>2, <3>3 DEF Promise!Extract
  <2> QED BY <2>1, <2>2
<1>3. CASE TimerRelocks
  BY <1>3 DEF TimerRelocks, Reinserted, Promise!PutBack, counters
<1>4. CASE PublishForwards
  BY <1>4 DEF PublishForwards, Promise!Forward
<1>5. CASE PublishFails
  BY <1>5 DEF PublishFails, Promise!Fail, IInv, DueIsOne
<1>6. CASE Tick
  BY <1>6 DEF Tick, Promise!Tick, counters
<1>7. \/ \E p \in Producers, at \in Deadlines : Schedule(p, at)
      \/ TimerDecides \/ TimerRelocks \/ PublishForwards \/ PublishFails \/ Tick
      \/ UNCHANGED <<heap, due, log, failed, nextOrder, now>>
  BY DEF Next, TimerStep, StopStep, counters, TimerBegin, TimerLoop,
         TimerPredicate, TimerBlock, TimerExpires, TimerWakes, PublishOverflows,
         SpuriousWakeup, Start, Stop, StopRequests, StopNotifies, StopJoins,
         StopFinishes, Notify
<1> QED BY <1>1, <1>2, <1>3, <1>4, <1>5, <1>6, <1>7

\* Whatever the threads do, what producers and the bus see of the scheduler is
\* the queue of the class comment: nothing lost, doubled, reordered or early.
THEOREM SchedulerImplementsQueue == Spec => ImplementsQueue
<1>1. Init => Promise!Init
  BY DEF Init, Promise!Init
<1>2. IInv /\ [Next]_vars => [Promise!Next]_(Promise!vars)
  <2>1. IInv /\ Next => Promise!Next \/ UNCHANGED Promise!vars
    BY QueueStep DEF Promise!vars
  <2>2. UNCHANGED vars => UNCHANGED Promise!vars
    BY DEF vars, Promise!vars
  <2> QED BY <2>1, <2>2
<1> QED BY <1>1, <1>2, Invariance, PTL DEF Spec, ImplementsQueue, Promise!Spec
=============================================================================
