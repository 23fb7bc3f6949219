------------------------------- MODULE EventBus -------------------------------
(***************************************************************************)
(* The bus (include/yellowstone/event_bus.inl): a registry of subscribers  *)
(* with one Partition each, publishers that fan an event out under         *)
(* m_publish_mutex, and, while the bus runs, one Phelps worker thread per  *)
(* subscriber that waits on the partition and calls the handler.           *)
(*                                                                         *)
(* Locks are taken in the order lifecycle, publish, subscriber, partition. *)
(* The first two are held across steps and are variables; a critical       *)
(* section under the subscriber mutex is one step, and so is one under a   *)
(* partition's m_mutex, except for the worker that holds it from reading   *)
(* the wait's predicate to falling asleep.  A handler runs in its worker   *)
(* and may call the bus.                                                   *)
(***************************************************************************)
EXTENDS Partition

CONSTANTS
  Slots,            (* subscriber slots, 0 .. k_max_subscribers - 1        *)
  Clients,          (* threads of the application                          *)
  Uses,             (* the calls each thread makes, a worker in its handler *)
  MergerThrows,     (* TRUE when the caller's merger may throw             *)
  MaxPublications,  (* bound on the publications of a behaviour            *)
  MaxSubscriptions, (* bound: no subscribe() begins after so many           *)
  Free              (* the owner of an unlocked mutex                      *)

Threads == Clients \cup Slots   (* worker s has the name of its slot *)
Calls == {"publish", "subscribe", "unsubscribe", "start", "stop"}

ASSUME EventBusAssumption ==
  /\ Slots \subseteq Nat
  /\ Slots \cap Clients = {} /\ Free \notin Threads
  /\ Uses \in [Threads -> SUBSET Calls]
  /\ MergerThrows \in BOOLEAN
  /\ MaxPublications \in Nat /\ MaxSubscriptions \in Nat

VARIABLES
  lifecycle,      (* owner of m_lifecycle_mutex                            *)
  publishing,     (* owner of m_publish_mutex                              *)
  running,        (* m_running                                             *)
  subscribers,    (* slots of m_subscribers in use                         *)
  partition,      (* the partition of each slot                            *)
  sequence,       (* m_sequence                                            *)
  pc,             (* where each thread is in the call it makes             *)
  fanout,         (* the event and the partitions each publisher is at     *)
  worker,         (* where the worker of each slot is                      *)
  joining,        (* the worker manager was told to stop                   *)
  subscriptions,  (* history: successful subscribe() calls                 *)
  accepted,       (* history: publications pushed to each slot             *)
  handled         (* history: events given to the handler of each slot     *)

vars == <<lifecycle, publishing, running, subscribers, partition, sequence, pc, fanout,
          worker, joining, subscriptions, accepted, handled>>

registry == <<subscribers, subscriptions>>
delivery == <<partition, accepted, handled>>

NoFanout == [event |-> {}, targets |-> {}, unchecked |-> {}, unpushed |-> {}]

Init ==
  /\ lifecycle = Free /\ publishing = Free /\ running = FALSE
  /\ subscribers = {} /\ subscriptions = 0
  /\ partition = [s \in Slots |-> EmptyPartition]
  /\ sequence = 0 /\ fanout = [t \in Threads |-> NoFanout]
  /\ pc = [t \in Threads |-> "idle"]
  /\ worker = [s \in Slots |-> "off"] /\ joining = FALSE
  /\ accepted = [s \in Slots |-> {}] /\ handled = [s \in Slots |-> <<>>]

\* A client between calls, or a handler that makes one.
MayCall(t, call) ==
  /\ pc[t] = "idle" /\ call \in Uses[t]
  /\ t \in Slots => worker[t] = "handling"

Lowest(S) == CHOOSE s \in S : \A r \in S : s <= r

\* Nobody else may enter a partition whose worker reads the wait's predicate.
Unlocked(s) == worker[s] # "dozing"

----------------------------------------------------------------------------
(* publish() and publish_one(): take the publish mutex, snapshot the       *)
(* subscribers, number the event (a number is spent even if it is refused),*)
(* ask every partition, push to every partition, in slot order.            *)

\* Seeded bug: publications are not serialized.
AnyTime == TRUE
PublishMutexFree == publishing = Free

Begin(t, event, targets) ==
  /\ MayCall(t, "publish")
  /\ PublishMutexFree
  /\ sequence < MaxPublications
  /\ publishing' = t
  /\ sequence' = sequence + 1
  /\ fanout' = [fanout EXCEPT ![t] =
                  [event |-> {event}, targets |-> targets,
                   unchecked |-> targets, unpushed |-> targets]]
  /\ pc' = [pc EXCEPT ![t] = "publish"]
  /\ UNCHANGED <<lifecycle, running, registry, delivery, worker, joining>>

Publish(t, id, superstep) ==
  Begin(t, Event(id, superstep, sequence), subscribers)

\* publish_one() of a slot that is not in use throws and changes nothing.
PublishOne(t, s, id, superstep) ==
  s \in subscribers /\ Begin(t, Event(id, superstep, sequence), {s})

\* The call ends, by a return or by a throw: the mutex is released.
Leave(t) ==
  /\ publishing' = Free
  /\ fanout' = [fanout EXCEPT ![t] = NoFanout]
  /\ pc' = [pc EXCEPT ![t] = "idle"]

Checking(t, s) == fanout[t].unchecked # {} /\ s = Lowest(fanout[t].unchecked)
Pushing(t, s) ==
  /\ fanout[t].unchecked = {} /\ fanout[t].unpushed # {}
  /\ s = Lowest(fanout[t].unpushed)

\* can_accept() of the next partition; std::overflow_error ends the call.
Preflight(t) ==
  /\ pc[t] = "publish"
  /\ \E s \in Slots, event \in fanout[t].event :
       /\ Checking(t, s) /\ Unlocked(s)
       /\ IF CanAccept(partition[s], event)
            THEN /\ fanout' = [fanout EXCEPT ![t].unchecked = fanout[t].unchecked \ {s}]
                 /\ UNCHANGED <<publishing, pc>>
            ELSE Leave(t)
  /\ UNCHANGED <<lifecycle, running, registry, delivery, sequence, worker, joining>>

\* push() to the next partition; an insertion notifies its worker.  On
\* PushResult::full publish() throws and publish_one() reports no delivery.
\* Seeded bug: the fan-out stops after its first partition.
OnlyFirst(t, s) == {}
RestOf(t, s) == fanout[t].unpushed \ {s}

PushNext(t) ==
  /\ pc[t] = "publish"
  /\ \E s \in Slots, event \in fanout[t].event :
       LET result == PushResult(partition[s], event) IN
       /\ Pushing(t, s) /\ Unlocked(s)
       /\ partition' = [partition EXCEPT ![s] = Push(partition[s], event)]
       /\ worker' = [worker EXCEPT ![s] =
                       IF worker[s] = "asleep" /\ result = "inserted" THEN "polling"
                       ELSE worker[s]]
       /\ IF result = "full"
            THEN accepted' = accepted /\ Leave(t)
            ELSE /\ accepted' = [accepted EXCEPT ![s] = accepted[s] \cup {event.sequence}]
                 /\ fanout' = [fanout EXCEPT ![t].unpushed = RestOf(t, s)]
                 /\ UNCHANGED <<publishing, pc>>
  /\ UNCHANGED <<lifecycle, running, registry, sequence, joining, handled>>

\* The merger throws out of push(): the partitions before this one keep the
\* event, this one and those after it never get it.
MergerFails(t) ==
  /\ MergerThrows
  /\ pc[t] = "publish"
  /\ \E s \in Slots, event \in fanout[t].event :
       /\ Pushing(t, s) /\ Unlocked(s)
       /\ PushResult(partition[s], event) = "coalesced"
  /\ Leave(t)
  /\ UNCHANGED <<lifecycle, running, registry, delivery, sequence, worker, joining>>

PublishReturns(t) ==
  /\ pc[t] = "publish" /\ fanout[t].unchecked = {} /\ fanout[t].unpushed = {}
  /\ Leave(t)
  /\ UNCHANGED <<lifecycle, running, registry, delivery, sequence, worker, joining>>

PublishStep(t) == Preflight(t) \/ PushNext(t) \/ MergerFails(t) \/ PublishReturns(t)

----------------------------------------------------------------------------
(* subscribe(), unsubscribe(), start() and stop(): a call, the lifecycle   *)
(* mutex, the work.  A call that throws or has nothing to do just returns. *)

Call(t, call) ==
  /\ MayCall(t, call) /\ call # "publish"
  /\ call = "subscribe" => subscriptions < MaxSubscriptions
  /\ pc' = [pc EXCEPT ![t] = call]
  /\ UNCHANGED <<lifecycle, publishing, running, registry, delivery, sequence, fanout,
                 worker, joining>>

Returns(t) == lifecycle' = Free /\ pc' = [pc EXCEPT ![t] = "idle"]

\* Seeded bug: the lifecycle mutex is let go before the work is done.
ProceedsUnlocked(t, to) ==
  lifecycle = Free /\ lifecycle' = lifecycle /\ pc' = [pc EXCEPT ![t] = to]
Proceeds(t, to) == lifecycle = Free /\ lifecycle' = t /\ pc' = [pc EXCEPT ![t] = to]

MembershipLocks(t) ==
  /\ pc[t] \in {"subscribe", "unsubscribe"}
  /\ Proceeds(t, IF pc[t] = "subscribe" THEN "add" ELSE "remove")
  /\ UNCHANGED <<publishing, running, registry, delivery, sequence, fanout, worker, joining>>

\* subscribe() and unsubscribe() refuse while the bus runs.
Frozen == running

FreeSlots == Slots \ subscribers

\* The lowest free slot gets a fresh partition.
Subscribe(t) ==
  /\ pc[t] = "add" /\ publishing = Free
  /\ IF Frozen \/ FreeSlots = {}
       THEN UNCHANGED <<registry, delivery>>
       ELSE LET s == Lowest(FreeSlots) IN
            /\ subscribers' = subscribers \cup {s}
            /\ subscriptions' = subscriptions + 1
            /\ partition' = [partition EXCEPT ![s] = EmptyPartition]
            /\ accepted' = [accepted EXCEPT ![s] = {}]
            /\ handled' = [handled EXCEPT ![s] = <<>>]
  /\ Returns(t)
  /\ UNCHANGED <<publishing, running, sequence, fanout, worker, joining>>

\* The subscriber goes, and what its partition held with it.
Unsubscribe(t, s) ==
  /\ pc[t] = "remove" /\ publishing = Free
  /\ IF Frozen \/ s \notin subscribers
       THEN UNCHANGED <<registry, delivery>>
       ELSE /\ subscribers' = subscribers \ {s}
            /\ subscriptions' = subscriptions
            /\ partition' = [partition EXCEPT ![s] = EmptyPartition]
            /\ accepted' = [accepted EXCEPT ![s] = {}]
            /\ handled' = [handled EXCEPT ![s] = <<>>]
  /\ Returns(t)
  /\ UNCHANGED <<publishing, running, sequence, fanout, worker, joining>>

Start(t) ==
  /\ pc[t] = "start" /\ lifecycle = Free
  /\ IF running THEN Returns(t) ELSE Proceeds(t, "launch")
  /\ running' = TRUE
  /\ UNCHANGED <<publishing, registry, delivery, sequence, fanout, worker, joining>>

\* One worker per subscriber of the snapshot.  Seeded bug: only the first.
FirstOnly == {s \in subscribers : s = Lowest(subscribers)}
Launched == subscribers

Launch(t) ==
  /\ pc[t] = "launch"
  /\ worker' = [s \in Slots |-> IF s \in Launched THEN "loop" ELSE "off"]
  /\ Returns(t)
  /\ UNCHANGED <<publishing, running, registry, delivery, sequence, fanout, joining>>

\* The worker manager throws: start() clears m_running and rethrows.
LaunchFails(t) ==
  /\ pc[t] = "launch"
  /\ running' = FALSE
  /\ Returns(t)
  /\ UNCHANGED <<publishing, registry, delivery, sequence, fanout, worker, joining>>

Stop(t) ==
  /\ pc[t] = "stop" /\ lifecycle = Free
  /\ IF running THEN Proceeds(t, "wake") ELSE Returns(t)
  /\ running' = FALSE
  /\ UNCHANGED <<publishing, registry, delivery, sequence, fanout, worker, joining>>

\* wake_all() of every partition, without its mutex: a worker between its
\* predicate and its sleep is not woken.  Then the manager is told to stop.
StopWakes(t) ==
  /\ pc[t] = "wake"
  /\ worker' = [s \in Slots |->
                  IF s \in subscribers /\ worker[s] = "asleep" THEN "polling" ELSE worker[s]]
  /\ joining' = TRUE
  /\ pc' = [pc EXCEPT ![t] = "join"]
  /\ UNCHANGED <<lifecycle, publishing, running, registry, delivery, sequence, fanout>>

\* Seeded bug: stop() returns without joining the workers.
JoinsNobody == TRUE
AllJoined == \A s \in Slots : worker[s] = "off"

StopReturns(t) ==
  /\ pc[t] = "join" /\ AllJoined
  /\ joining' = FALSE
  /\ Returns(t)
  /\ UNCHANGED <<publishing, running, registry, delivery, sequence, fanout, worker>>

LifecycleStep(t) ==
  \/ MembershipLocks(t) \/ Subscribe(t) \/ \E s \in Slots : Unsubscribe(t, s)
  \/ Start(t) \/ Launch(t) \/ LaunchFails(t)
  \/ Stop(t) \/ StopWakes(t) \/ StopReturns(t)

----------------------------------------------------------------------------
(* m_consume_one, called by the Phelps worker until its manager stops.     *)

\* wait_pop_for() once m_mutex is held and there is something to pop; the
\* handler gets it even if the bus has been stopped meanwhile.
TakeFront(s) ==
  /\ partition' = [partition EXCEPT ![s] = PopFront(partition[s])]
  /\ handled' = [handled EXCEPT ![s] = Append(handled[s], Front(partition[s]))]
  /\ worker' = [worker EXCEPT ![s] = "handling"]
  /\ accepted' = accepted

GoesTo(s, state) == worker' = [worker EXCEPT ![s] = state] /\ UNCHANGED delivery

\* The subscriber is looked up and m_running read; a worker that finds the bus
\* stopped yields.
Consume(s) ==
  /\ worker[s] = "loop" /\ ~joining /\ running /\ s \in subscribers
  /\ GoesTo(s, "polling")

\* The predicate is read: an event, or a stopped bus, ends the wait at once.
Poll(s) ==
  /\ worker[s] = "polling"
  /\ IF partition[s].size # 0 THEN TakeFront(s)
     ELSE GoesTo(s, IF running THEN "dozing" ELSE "loop")

FallAsleep(s) == worker[s] = "dozing" /\ GoesTo(s, "asleep")

\* Ten milliseconds are over: what is there is popped.  Seeded bug: a wait
\* without a timeout.
NoTimeout(s) == FALSE
TimesOut(s) == worker[s] = "asleep"
WaitEnds(s) ==
  /\ TimesOut(s)
  /\ IF partition[s].size # 0 THEN TakeFront(s) ELSE GoesTo(s, "loop")

\* The handler returns, or throws and m_report_error takes it.
HandlerReturns(s) ==
  /\ worker[s] = "handling" /\ pc[s] = "idle"
  /\ GoesTo(s, "loop")

WorkerExits(s) == worker[s] = "loop" /\ joining /\ GoesTo(s, "off")

WorkerStep(s) ==
  /\ Consume(s) \/ Poll(s) \/ FallAsleep(s) \/ WaitEnds(s) \/ HandlerReturns(s)
     \/ WorkerExits(s)
  /\ UNCHANGED <<lifecycle, publishing, running, registry, sequence, pc, fanout, joining>>

----------------------------------------------------------------------------
PublishCall(t) ==
  \E id \in EventIDs, superstep \in Supersteps :
     Publish(t, id, superstep) \/ \E s \in Slots : PublishOne(t, s, id, superstep)

Next ==
  \/ \E t \in Threads :
       \/ PublishCall(t) \/ PublishStep(t)
       \/ LifecycleStep(t) \/ \E call \in Calls : Call(t, call)
  \/ \E s \in Slots : WorkerStep(s)

Spec == Init /\ [][Next]_vars

\* Threads run, handlers return, and a mutex that is released again and again
\* is obtained in the end.  Nobody has to call anything.
Fairness ==
  /\ \A t \in Threads : SF_vars(PublishStep(t)) /\ WF_vars(LifecycleStep(t))
  /\ \A s \in Slots : WF_vars(WorkerStep(s))

FairSpec == Spec /\ Fairness

----------------------------------------------------------------------------
PCs == {"idle", "publish", "subscribe", "unsubscribe", "start", "stop", "add", "remove",
        "launch", "wake", "join"}

\* Types, and the owners of the two mutexes that are held across steps.
TypeOK ==
  /\ lifecycle \in Threads \cup {Free} /\ publishing \in Threads \cup {Free}
  /\ running \in BOOLEAN /\ joining \in BOOLEAN
  /\ subscribers \subseteq Slots /\ subscriptions \in Nat
  /\ sequence \in 0 .. MaxPublications
  /\ pc \in [Threads -> PCs]
  /\ worker \in [Slots -> {"off", "loop", "polling", "dozing", "asleep", "handling"}]
  /\ fanout \in [Threads -> [event : SUBSET Events, targets : SUBSET Slots,
                             unchecked : SUBSET Slots, unpushed : SUBSET Slots]]
  /\ accepted \in [Slots -> SUBSET Nat] /\ handled \in [Slots -> Seq(Events)]
  /\ \A t \in Threads :
       /\ pc[t] = "publish" <=> publishing = t
       /\ pc[t] \in {"add", "remove", "launch", "wake", "join"} <=> lifecycle = t

\* "publish() is serialized so fan-out can preflight every subscriber capacity
\* before inserting": what passed the preflight still fits when it is pushed,
\* whatever the workers popped in between, a queued event it was to be merged
\* into included.  The std::logic_error of publish() is unreachable.
PreflightHolds ==
  \A t \in Threads : \A event \in fanout[t].event :
     \A s \in fanout[t].unpushed \ fanout[t].unchecked : CanAccept(partition[s], event)

\* How often publication q shows in what slot s holds and has handled.
Copies(s, q) ==
  LET Hits(e) == {i \in DOMAIN e.payload : e.payload[i] = q}
      queued  == UNION {{<<e, i>> : i \in Hits(e)} : e \in Pending(partition[s])}
      given   == UNION {{<<n, i>> : i \in Hits(handled[s][n])} : n \in DOMAIN handled[s]}
  IN  Cardinality(queued) + Cardinality(given)

\* Each publication pushed to a partition reaches its handler once: as an event
\* or merged into one, never lost between a push and a concurrent pop, never in
\* two events; a publication refused for capacity reaches nobody.
ExactlyOnce ==
  \A s \in Slots, q \in 0 .. MaxPublications - 1 :
     Copies(s, q) = IF q \in accepted[s] THEN 1 ELSE 0

\* When publish() or publish_one() ends, the event has reached all the
\* subscribers it was meant for or none ("a capacity failure therefore occurs
\* before partial delivery"), other publishers and the workers notwithstanding.
AllOrNothing ==
  [][\A t \in Threads : \A event \in fanout[t].event :
       pc'[t] = "idle" =>
         {s \in Slots : event.sequence \in accepted[s]} \in {{}, fanout[t].targets}]_vars

\* Lowest superstep first, then insertion order, over the whole history of a
\* handler: an event handled before one that was published earlier is of a
\* strictly lower superstep.  Merged payloads are in publication order.
HandledInOrder ==
  \A s \in Slots : \A i, j \in DOMAIN handled[s] :
     LET a == handled[s][i] b == handled[s][j] IN
     /\ i < j /\ b.sequence < a.sequence => a.superstep < b.superstep
     /\ \A m, n \in DOMAIN a.payload : m < n => a.payload[m] < a.payload[n]

\* Between lifecycle calls a subscriber has its one worker exactly while the bus
\* runs: the registry is frozen under the workers, and after stop() returns no
\* worker is left to call a handler.
WorkersMatchRegistry ==
  lifecycle = Free =>
    \A s \in Slots : worker[s] # "off" <=> (running /\ s \in subscribers)

\* While the bus runs every queued event is handed over, even if the wakeup of
\* its push fell beside the worker's wait.
Queued(s, q) == \E e \in Pending(partition[s]) : \E i \in DOMAIN e.payload : e.payload[i] = q
PendingIsHandled ==
  \A s \in Slots, q \in 0 .. MaxPublications - 1 :
     (running /\ Queued(s, q)) ~> (~running \/ ~Queued(s, q))

\* stop() joins every worker, though wake_all() notifies without the mutex of
\* the partition and handlers may be publishing.
StopTerminates == \A t \in Threads : pc[t] = "join" ~> pc[t] = "idle"

\* "Subscriber callbacks may safely re-enter the ... bus": no handler waits for
\* the lifecycle mutex of a stop() that waits for the handler's worker.
HandlersMayReenter ==
  \A t \in Threads, s \in Slots :
     ~ (/\ pc[t] = "join" /\ worker[s] = "handling"
        /\ pc[s] \in {"start", "stop", "subscribe", "unsubscribe"})
=============================================================================
