# Yellowstone in TLA+

TLA+ modules, TLC runs and TLAPS proofs for the event library in this repository: bounded
partitions, the event bus, the deadline scheduler with its pairing heap, the locks of the Python
bindings, and the lease protocol and the evaluation requests of the legacy event layer that is still
in the tree.

Contents: [the system](#the-system) · [modules](#modules-and-how-they-correspond-to-the-code) ·
[runs](#runs) · [fairness](#fairness) · [findings](#findings) · [proofs](#proofs) ·
[not modelled](#not-modelled) · [plan](#plan)

`PROJECT.json` is the index: components, runs, the source lines of every definition, the hazards
with the properties that cover them, and for each property a mutation of the model that breaks it.

## The system

### Components

| component | state | operations | what makes it correct |
|---|---|---|---|
| **Event** (`event.hpp`, `event.inl`) | id, superstep, sequence, payload | construction | immutable apart from payload merges |
| **Partition** (`partition.hpp/.inl`) | `m_levels` (superstep → list of events), `m_index` (key → list node), `m_size`, mutex, condition variable | `push`, `can_accept`, `pop`, `wait_pop_for`, `wake_all` | the three structures agree; lowest superstep first, then insertion order; equal keys coalesce; capacity holds |
| **EventBus** (`event_bus.hpp/.inl`) | registry of at most `k_max_subscribers` subscribers with a partition each, `m_running`, `m_sequence`, mutexes for lifecycle, publication and registry, the worker manager | `subscribe`, `unsubscribe`, `publish`, `publish_one`, `start`, `stop`, the consumer `m_consume_one` | a fan-out reaches all subscribers or none; each publication is handled once and in order; a worker per subscriber exactly while the bus runs |
| **Scheduler** (`scheduler.hpp/.inl`) | heap of requests, `m_accepting`, `m_running`, counters, mutex, condition variable, `std::jthread` | `schedule`, `schedule_one`, `start`, `stop`, the timing loop `m_run` | nothing lost, doubled, early or out of order over retries and restarts; no lost wakeup; `stop` returns |
| **PairingHeap** (`collections/pairing_heap.*`) | nodes with parent, previous, child and next pointers | `emplace`, `push`, `pop`, `extract_top`, `increase_priority`, `meld`, `swap`, moves, `clear` | links, heap order and ownership; loops end; handles stay valid |
| **Python bindings** (`source/bindings/python.cc`) | payload references whose deleter takes the GIL; handlers and merge callables that run under it | every call of bus and scheduler; only `start` and `stop` release the GIL | no circular wait between the GIL and the native mutexes |
| **Legacy exchange** (`exchange.hpp`, `exchange.cc`) | queue of ready partitions, generations, dispatcher registry, superstep barrier | `acquire`, `close_lease`, `release`, `begin_graph_epoch`, `graph_arrive_and_wait` | a partition is ready or leased to one worker; the barrier counts right |
| **Legacy observer** (`observer.hpp`, `observer.cc`) | mailbox and its count, `m_wake`, `m_stop`, a state stack | WAITING, ACQUIRE, DRAINING, RELEASE, TERMINATED; `notify`, `stop` | no notice goes unseen, each lease comes back, `stop` joins |
| **Legacy context** (`context.hpp`, `context.cc`, `execution_request.hpp`) | tickets shared by caller and worker, loads of two devices, a trace of choices and outcomes per interpreter state | `publish_expression`, `publish_word_expression` and its async form, commands, the IMMEDIATE handler, `acquire`, `stop` | a ticket outlives its notification; who waits is answered; failures are blamed on the right choice; loads are given back |
| **Legacy persistence worker** (`worker.hpp`, `worker.cc`) | write-behind buffer, event ids | `dispatch`, `persist`, `flush`, destructor | no command is lost by a failing store, no id is used twice |
| **Legacy sequencer, value types, extension** | – | – | see [not modelled](#not-modelled) |
| **Phelps `WorkerManager`** | external submodule, not in the tree | threads that call `work()` until told to stop | modelled from how `event_bus.inl` uses it |

The legacy layer is not compiled by the build of this commit; it is modelled because its protocols
are the concurrent core of what the new library replaces (`docs/migration-from-uni.md`).

### How the parts interact

`Scheduler::m_run` takes a due request out of its heap, releases its mutex and calls
`EventBus::publish` or `publish_one`. `publish` holds `m_publish_mutex`, asks every partition
whether it can accept, then pushes to all. Each subscriber's worker waits on its partition with a
10 ms timeout and calls the handler, which may call the bus and the scheduler again. Lifecycle calls
hold `m_lifecycle_mutex`, `stop` over the join of the workers. In Python, handlers, merge callables
and the destruction of payloads need the GIL, which callers of `publish` and `schedule` keep while
they block.

### What is hard

* the window between the preflight of `publish` and its pushes, while workers pop and handlers
  publish;
* condition variables notified without their mutex (`Scheduler::schedule` and `stop`,
  `Partition::push` and `wake_all`);
* a request that goes back to the heap after a capacity failure and must not be overtaken;
* lifecycle calls against publications, workers and each other;
* locks held over a join and over callbacks, and the GIL as one more lock;
* pointer surgery in the heap, redundant structures in the partition;
* the same request as a heap item, as an event in several partitions and as a call of a handler, over
  retries, throwing mergers and slots that change owners;
* in the legacy layer, stale leases, the order of notice, count and wake, and the barrier; a ticket
  that its caller drops while the worker notifies; a batch whose flush fails half way.

## Modules and how they correspond to the code

Every module is written from the source; `PROJECT.json` (`map`) names the lines.

**`Partition`** – the data structure as operators: `Push`, `Front`, `PopFront`, `CanAccept`
on a record of `levels`, `index` and `size`. An event is a record whose payload is the sequence of
the publications merged into it, so that a lost, doubled or misplaced merge shows.

**`PartitionQueue`** – one partition with a producer and a consumer, one action per critical
section. It implements **`Mailbox`**, the promise of the class comment in `partition.hpp`: a
bounded set of pending events, one per key, taken in order. The mapping reads the pending events
off the levels.

**`EventBus`** – threads are clients and the workers of the slots; a handler is a call its worker
makes. `lifecycle` and `publishing` are the two mutexes held across steps; `pc` is where a thread
is in its call, `fanout` the partitions it has yet to check and to push to. `Publish` … `Leave`
are `publish()` and `publish_one()`, `Subscribe`, `Unsubscribe`, `Start`, `Launch`, `LaunchFails`,
`Stop`, `StopWakes` and `StopReturns` the registry and lifecycle calls, `Consume`, `Poll`,
`FallAsleep`, `WaitEnds` and `HandlerReturns` a worker in `m_consume_one` and
`wait_pop_for`. A worker reads its predicate and goes to sleep in two steps with the partition
locked, and wakeups that fall before the sleep are lost. A push and its `notify_one` are one
step: a worker that is asleep is woken, one that is not will find the event. `accepted` and
`handled` are history variables.

**`Scheduler`** – the heap is a set of requests with a deadline and an insertion order; `Top` is
defined by `EarlierDeadline`. The timing thread's loop is `TimerBegin` … `TimerRelocks`; each of
its three waits (`empty`, `deadline`, `retry`) reads the predicate, releases the mutex and
sleeps, and ends by a notification, a timeout or spuriously. `publish` is seen from outside: it
forwards, overflows or fails. `Start`, `StopRequests`, `StopNotifies`, `StopJoins` and
`StopFinishes` are the lifecycle calls, made by one thread, because `m_worker` is guarded by
nothing and overlapping calls race on it. `now` is the clock, `log` the history of forwards.

**`DeadlineQueue`** – what `Scheduler` promises (the class comment of `scheduler.hpp`) without locks,
waits or lifecycle: requests are accepted; the earliest is taken out once it is due; it is then
forwarded, given up or put back. `Scheduler` implements it with `pending <- heap` and `out <- due`.

**`SchedulerBus`** – the two libraries together: it extends `EventBus`, with the timing thread as one
of its clients, by an instance of `DeadlineQueue`, which stands for the scheduler; `TimedSpec` is the
specification of the two. `Begins` is the call of `publish` or `publish_one`, `IsRefused`,
`MergerThrew`, `FindsNobody` and `CallReturns` are the ways it ends, and each is one step of the bus
together with one of the queue, as in the `try` of `m_run`. `sent` says which publication was made for
which request, `spoiled` which publications were cut short by a merger that threw `std::overflow_error`.

**`PairingHeap`** – nodes and pointers, two heaps; calls with a loop (`combine_children`,
`destroy_tree`) take one step per iteration. `TreeOf` is what is below a root, as the least set that
is closed under children: a definition by recursion along the parents would say the same, but
nothing could be proved about it. The module implements **`PriorityQueue`**, in which a call is a
relation between what a heap held before and after.

**`PythonBindings`** – the GIL, the lifecycle, publish, partition and scheduler mutexes as locks
with owners (`owner`), Python threads, the worker and the timing thread as positions (`pc`).
What the other modules show is left out: one subscriber, one key, a heap that is a number. The
variables `queued` and `handling` say whether a payload's last reference is there or shared with
the timing thread's `due`, because that decides who has to take the GIL to destroy it.

**`Exchange`**, **`Observer`** – the legacy layer. `Exchange` has the operations of
`exchange.cc`, each atomic under its mutex, except `begin_graph_epoch`, three atomic accesses.
`Observer` composes it with the workers, whose states are one action per atomic access, with a
publisher (external: its code is not in the tree, it acquires a lease, pushes an event and calls
`Subscriber::notify`) and with `Context::stop`.

**`Evaluation`** – expression requests of the legacy context. A request is a number; `asked` says
what was asked for, `queue` which worker has it, `references` who still owns its ticket, `work` what
a worker is doing for it. `Takes`, `FeedsBack`, `Answers`, `Notifies` and `Settles` are the IMMEDIATE
handler, in the order of `Stages`; `EvaluatesInline` is the same without workers. `Persists` and
`Flush` are the buffer of `worker.cc`, `Tells`, `Terminates` and `Destroys` the end of a context.
External, because their code is not in the tree: the evaluator (it succeeds or fails), the bookkeeper
(it chooses a device), the store (it stores or throws), the queue of a worker.

The `MC…` modules instantiate these for TLC. `PartitionProofs`, `PartitionQueueProofs`,
`EventBusProofs` (bus and composition), `SchedulerProofs`, `PairingHeapProofs`,
`PythonBindingsProofs`, `ObserverProofs` and `EvaluationProofs` hold the proofs. An operator commented as a *seeded bug* is used by nothing:
it is the mutation that a property must notice.

## Runs

| run | distinct states | question |
|---|---|---|
| `partition` | 22,261 | Do levels, index and size agree, and is the partition the promised mailbox? Two ids × two supersteps over capacity 2, six pushes: coalescing, refusal, levels that empty and come back. |
| `bus_delivery` | 1,046,461 | Is a fan-out all or nothing (`PreflightHolds`, `AllOrNothing`), is each publication handled once (`ExactlyOnce`) and in order (`HandledInOrder`)? Three publishers (a client and both handlers), three supersteps, two partitions of capacity 2, three publications, so that a partition is full, is popped between preflight and push, and its event is coalesced with. |
| `bus_lifecycle` | 46,929 | Do workers and registry stay in step under concurrent `subscribe`, `unsubscribe`, `start`, `stop` and launch failures; is every queued event handled while the bus runs; does `stop` return? Two slots, two subscriptions (a slot is reused), two publications, a merger that may throw. |
| `bus_reentry` | – | **violated**: may handlers re-enter any call of the bus? |
| `scheduler` | 143,627 | Conservation, order, deadlines, lifecycle, that neither a `schedule` nor a `stop` with pending work is missed, and refinement of `DeadlineQueue`. Two producers, three requests, two deadlines: two requests share one, a third overtakes. |
| `scheduler_bus` | 920,456 | Does a refused request leave no trace (`PendingIsUntouched`), does a forwarded one reach each target once (`ForwardedOnce`), do handlers see requests by deadline (`HandledByDeadline`)? Two slots, capacity 1, two requests and one publication of a client, three subscriptions, so that a slot changes owners between request and deadline; a merger that may throw either kind of exception. |
| `evaluation` | 625,839 | Tickets, blame, loads, persistence and answers: two clients (one synchronous, one that also asks for scalars, for nothing, asynchronously and sends commands), two workers, three requests, batches of two, one failing store, `stop` and destruction. |
| `scheduler_stop` | – | **violated**: does `stop` always return? |
| `heap` | 52,566 | Links, heap order, ownership, termination of the loops, and refinement of `PriorityQueue`. Four nodes: a root with three children takes both passes of `combine_children` with a pair and an odd child; two values make ties. |
| `python_locks` | 18,608 | Who can wait in a circle? Two Python threads and the handlers make every blocking call. |
| `python_reentry` | – | **violated**: may handlers call `schedule` in Python? |
| `observer` | 230,794 | Leases, notices, the barrier and `Context::stop` with two workers, two partitions, three publications and generations that wrap after two leases. |

Bounds are constants of the modules (`MaxPublications`, `MaxItems`, …) and appear in the guards
of the actions that would exceed them; nothing else is bounded. They are enough in this sense: each
hazard in `PROJECT.json` needs at most two actors per role and three events to show, and the
mutation of each property is found under the same bounds.

Deadlock is checked except in `python_locks`, `python_reentry`, `observer` and `evaluation`: the
Python module really can stop for good (that is what its properties are about), and the legacy layer
stops after `Context::stop`, or when a caller waits for a request without an expression.

What the properties mean beyond their comments:

* `PreflightHolds` makes the `std::logic_error` of `publish` unreachable. The critical case is an
  event that is to be coalesced into one that a worker pops meanwhile: the pop makes the room.
* `OvertakesOnlyByDeadline` is over all forwards of a run, so it covers a retried request against
  requests accepted during the backoff, and restarts.
* `StopReturnsWithWork` is what is left of `StopReturns`: with a pending request the timing
  thread sleeps against a deadline or a retry delay and finds the stop token without being woken.
* `PendingIsUntouched` is what makes the retry path sound: a request in the heap, fresh or refused,
  is in no partition. `ForwardedOnce` is its counterpart at the other end. A merger that throws
  `std::overflow_error` is taken by `m_run` for a full partition (`Retries`), and the retry merges
  once more into the partitions before the one that threw. Both properties count publications, so
  they bound that: all that is repeated is what publications of this kind (`spoiled`) had delivered;
  every other attempt, and the one that succeeds, counts once. A request for a slot that changed owners reaches the new owner; that is within
  `ForwardedOnce`, whose targets are the slots of the call.
* `HandledByDeadline` is the order of `DeadlineQueue` carried through partitions, coalescing and
  supersteps to what a handler sees.
* `TicketOutlives` covers the window of `context.cc:247`, after the ticket's mutex is released;
  `LoadAccounted` also says what does go wrong: each scalar request charged to the GPU leaves one
  load there for ever, because `context.cc:164` and `:326` give it back to the CPU.
* `BlamesChosen` depends on the order of feedback and answer (`Stages`): answered first, a caller
  could record its next choice before the worker looks for the last one.
* `CommandsKept` allows what the code does after a failing store: rows already stored are stored
  again under new ids.
* `StuckNeedsHeldGil` is a shape of every circular wait in the Python module: `start` and `stop`
  never complete a circle by themselves. `BusAloneIsSafe` names the programs that cannot get
  stuck: no scheduler, no merge callable at work, no registration during a lifecycle call.
* `BarrierCounts` holds with one publisher of graph events; with two, the first
  `begin_graph_epoch` can reset arrivals of workers that the second one sent in. No run can show
  that, since the code that calls `begin_graph_epoch` is not in the tree.
* `StopJoins` excepts the worker that waits in the barrier: `stop()` does not wake it, and
  `exchange.hpp` says that it blocks until the superstep advances.

## Fairness

Threads that can take a step take one in the end (weak fairness of the threads' own steps); nobody
has to call anything. Stronger assumptions, and why:

* `SF(PublishStep)` in `EventBus`: a mutex that is free again and again is obtained in the end.
* `SF(PublishForwards \/ PublishFails)` in `Scheduler`: a full partition is drained now and then, so
  a request is not refused for ever. Without it the retry loop may go on without end, which is
  what the code does under permanent backpressure.
* `SF(TimerExpires)`: a sleep whose time has come is not cut short by spurious wakeups for ever.
* In `Evaluation` calls under way and workers go on (`WF`). A worker that has requests takes each of
  them in the end, because it takes one after the other and the requests of a run are bounded.
* In `EventBus` the 10 ms timeout of a worker's wait is a step of the worker, so weak fairness lets
  it fire; the code relies on it, because `wake_all` notifies without the mutex.

## Findings

1. **`Scheduler::stop` can hang** (`scheduler_stop`). It requests the stop and notifies without
   `m_mutex`. A timing thread on an empty heap that has read its predicate and is not yet asleep
   misses both, and its wait has no timeout.
2. **Handlers may not re-enter the lifecycle calls** (`bus_reentry`), though
   `docs/concurrency.md` says callbacks may safely re-enter the bus: `stop` joins their worker with
   the mutex held that they wait for.
3. **`schedule` in Python can deadlock** (`python_reentry`). The timing thread destroys the
   request it published with `m_mutex` held; if that drops the last reference, the deleter waits for
   the GIL, which a Python thread in `schedule`, `schedule_one` or `pending_events` holds while it
   waits for `m_mutex`.

## Proofs

All proofs are for every value of the constants, from the modules' `ASSUME`s and nothing else; some
results name a further assumption: `NeverPartial`, `BarrierCountsWaiting` and those of the Python
locks. Every invariant and action property that a passing run checks is also stated by a theorem, and
so is every refinement.

**`SchedulerProofs`**. The invariant `IInv` is inductive and implies what `scheduler` checks as
invariants. `TypeOK` contains the fact that no two pending requests share an insertion order, which
makes `Top` well defined; it is not inductive alone, because it needs `OrdersOK` (orders are below
the counter) and `DueIsOne` (at most one request is out of the heap).
`OvertakesOnlyByDeadline` needs `LeavesInOrder`: what is pending now and was accepted before
something already forwarded has the later deadline, and `TopIsEarliest` preserves it at each
extraction. `NeverEarly` needs `Waits`, which ties the position of the timing thread to its
observed root, to the clock and to why its sleep ended. `LifecycleAgrees` needs `CallerOK`, which
ties the caller's position in `stop` to the flags and to the thread. `Conservation` needs
`HeapFinite` for cardinalities. From `Invariance`: `TypeCorrect`, `RequestsConserved`,
`ForwardedInOrder`, `PublishedNotEarly`, `CallsAgree`.

The refinement `SchedulerImplementsQueue` is proved from the same invariant (`QueueStep`): of all the
steps only five and the clock's touch what the queue has. Extraction needs `Waits`, which says that
the root found after the wait is due, and `TopIsEarliest`; giving up needs that `due` is not empty.

**`PartitionProofs`**. `Kept(p, n)` is what the operators of `Partition` preserve, with n the number
of the next event. `Ordered`: inside a level events lie in the order of their numbers. `Indexed`: the
index has exactly the keys of queued events and gives their numbers. It follows that no key is queued
twice (`OnePerKey`), that `Coalesce` finds one event and changes it in place, and that the head of the
lowest level is the least event of `Pending` by superstep, then number. `Inserted`, `Coalesced`
and `Popped` say what each operation does to that set.

**`PartitionQueueProofs`**. `QueueInv` is `Kept` for the one partition. `ViewsAgree` is read off, and
so is the refinement `PartitionImplementsMailbox`: the three lemmas about `Pending` are the steps of
the abstract mailbox. `TypesCorrect` adds that no level is ever left empty, which `Front` relies on.

**`EventBusProofs`**. `BusInv`: the owner of the publish mutex is the only thread with a fan-out
(`Exclusive`), partitions keep to their capacity (`PartitionsOK`), and what was checked and not
yet pushed still fits (`PreflightHolds`). The argument: while a fan-out is under way only workers
change partitions, they only pop, and after a pop there is room, even if the popped event was the
one to merge into. `PreflightSuffices` and `PublicationsExclusive` are read off. `LifecycleInv` says
where in its call the owner of the lifecycle mutex is and what is then true of the workers: they
match the registry except while `start` launches them and `stop` wakes and joins them.
`RegistryFrozen` follows.

The history: `History(p, h, a, n)` relates the partition p of a subscriber, what its handler
was given (h) and the publications pushed to it (a), all numbered below n: each of `a` is once in h
or in p, and what is still queued though older than something handled is of a higher superstep. The
fan-out under way has number n: it splits its targets in those reached, whose history is below n + 1,
and the rest, below n (`Carried`). From `HistoryInvariance`: `HandlersInOrder`, `DeliveredOnce`, and
`NeverPartial`, where `PreflightHolds` excludes a refusal after the first push. It assumes that no
merger throws: one that does ends a fan-out in the middle.

`TypesAndOwners` is the type invariant. Its proof showed that `MaxSubscriptions` does not bound
`subscriptions`: it is a bound on when a `subscribe()` may begin, and two that overlap may both have
passed it. In the runs one thread subscribes, so TLC could not see it; `TypeOK` says `Nat` now.

The composition: every step of `SchedulerBus` is one of `EventBus` or leaves it alone
(`BusUnchanged`), so what is proved of the bus holds with a scheduler, whose requests are publications
like others. `AttemptInv` relates the two sides. `SentOK`: a publication is made for one accepted request, and
what was accepted before that request and is not settled has a later deadline. `AttemptOK`: while the timing thread is in a call, its fan-out is
for the one request that is out. `AttemptsLeftNothing`: an attempt that is over and did not forward
its request has reached no slot, unless it is one that a merger's `std::overflow_error` cut short; this is where
`PreflightHolds` is used again, since a refusal can come only before the first push. From it
`RetriesRepeatNothing` and `ForwardedExactlyOnce`; with `HistoryInv` and the queue's order
(`QueueInvariance`), `DeadlinesReachHandlers`.

**`PythonBindingsProofs`**. `LocksInv` says, for each lock, where its owner can be, who may be in a
lifecycle call, and that a stopped thread has somebody who joins it. A circle in which nobody blocks
with the GIL has nobody waiting for it; so nobody waits for the partition, whose owner does; so
nobody for the publish mutex, and so on until only `start` and `stop` are left, waiting for a mutex that
none of them has (`CirclesHoldTheGil`). `BusCallsNeverCircle` is the same with the GIL at the other end
of the order. Both assume that handlers do not call `start` and `stop`: that is a deadlock without
Python.

**`ObserverProofs`**. The open lease of a worker is announced by one of three: the publisher that
acquired it, the notice in the mailbox, the worker that drains (`Announced`). So a mailbox has one
notice at most, a worker drains its registered lease, nobody closes another's, and a closed lease
stays closed until its release, wrapped generations or not: `NoticesNeverStale`, and with `Distinct`,
`LeasesNeverLost`. As only the announcer pushes to a leased partition and only its worker pops,
what the worker found before it gave up still holds when the partition goes back: `NothingPlainStays`.

`BarrierCountsWaiting` assumes one publisher of graph events (`OneGraphPublisher`). `BarrierInv`: until
the first epoch is set up no partition has a graph event and no worker is in the superstep
(`BeforeEpoch`), because the publisher sets up the epoch before it pushes (`EpochFirst`); and a worker
in the superstep has observed a number that is not ahead of the exchange's, so that who waits
(`Waiting`) is who arrived in the current one.

**`EvaluationProofs`**. A ticket is shared by its caller and its request, and `TicketOutlives` needs
the count of its owners, which is not inductive alone. `SharesOK` explains it: `references[n]` is
the number of those two that still have request n, `CallerHas(n)` read off `pc` and `RequestHas(n)`
off queues and workers. To know that nothing is counted twice, a request has to be in one place, the
queue of its own worker or its hands (`QueuesOK`, `WorkersOK`), a client busy with a request of its
own (`ClientsOK`), and workers idle under inline execution (`InlineOK`). `TicketsOutlive` is read off.
`LoadsAccounted` adds `LoadInv`: the load of a device is the number of requests open on it, up to the
scalar requests charged to the GPU (`Stray`), which each step changes by at most one element.

`BlamesTheChosen` needs `ByteOK`: from the choice to the feedback the byte that was chosen stays the
last of its client's trace, until the worker adds its outcome, and the limit on the trace's length
never removes it. `CommandsAreKept` needs `RowsOK`, for each worker: row ids differ and none is above
the last one given, each failing flush leaves at most one more copy of a row, and what is still
buffered has one copy less, for the flush to come.

**`PairingHeapProofs`**. No property of the heap is inductive, since a loop cuts links that it mends
later. `HeapInv` says that there is a forest behind the state: a store `t` in which the cut links are
restored, an owner `o` of each node, and a grade `g` that falls along the pointers to parents and
previous siblings. In `t` the pointers of neighbours agree (`Mutual`) and children are not above
parents (`Sorted`); a root is a tree by itself (`RootsOf`), and what heads a tree is a root or one of the
loop's variables (`HeadsOf`). `InPhase` says how the store differs from `t`: in the first pass of
`combine_children` the popped node has lost its first child and that child keeps its way back (`Seen`);
in `destroy_tree` the chain has no way back at all (`Unbacked`). The grades take the place of induction
over trees: a node of least grade that is not below its root would have a parent, or a previous
sibling, of a lower one (`TreeInduction`, `TreeIs`), so `TreeOf` of a root is the nodes its heap
owns. Each operation is proved on forests first (`DetachLinked`, `AdoptLinked`, `MeldLinked`,
`PushLinked`, `PopLinked`), then as a step of the module. From `HeapInvariance`: `PointersAreLive`,
`LinksAgree`, `OrderKept`, `NothingLeaks`.

The refinement `HeapIsPriorityQueue` follows from the same invariant: what a heap holds is what it
owns (`HoldsIs`), `pop()` takes effect when it returns and its root is a greatest entry by `Popping`,
`clear()` takes effect when it begins, and a step inside a loop is none of the queue's (`BarSame`).

Only model-checked: everything about liveness (`DueIsSettled`, `StopReturnsWithWork`,
`PendingIsHandled`, `StopTerminates`, `CallsReturn`, `LeaseComesBack`, `StopJoins`,
`AnswersArrive`), which rests on fairness and `ENABLED` and which the prover does not reach. That the
loops of the heap end is among it, though `HeapInv` has the grades an argument would use.

## Not modelled

* Allocation failures, and exceptions of comparators (the scheduler's is `noexcept`).
* Overlapping lifecycle calls of one `Scheduler`: a data race on `std::jthread`. The Python model
  assumes as much of its callers.
* Wrap-around of 64-bit counters. The 32-bit generations of the legacy exchange do wrap in the model.
* A worker manager that throws when it has launched some of its threads: `LaunchFails` is the clean
  failure, before any of them runs.
* How long a full partition delays the other due requests (`scheduler.inl:402`): the model has no
  measure of the retry delay, and the fairness of `DueIsSettled` assumes that the partition is
  drained.
* `Scheduler::start` reporting an exception of thread creation, and error callbacks beyond the
  Python one: they change no state.
* In `PythonBindings`: destructors, payload validation, handlers that keep their event, a merge
  callable that raises, capacity failures (one key coalesces always).
* The legacy sequencer: nothing in the tree uses it, and its cursors are plain 64-bit integers, so a
  consumer on another thread is a data race and not a protocol.
* In the legacy context and worker: `start` after `stop` of an observer, which ends at once because
  the state stack stays empty; `CommandExecution`; shard directories and their cleanup (which removes
  entries while it iterates over them); two requests at once on one interpreter state, whose
  evaluations race; builds with `NDEBUG`, in which states and partitions pushed inside `assert` are
  lost; `Context` without workers (`context.cc:339`). The bookkeeper is not in the tree: the load of
  a device is an integer here, which is never asked for its sign. The synchronous inline path writes no trace feedback though its comment asks for the
  semantics of the worker handler (`context.cc:372`), and the asynchronous one writes the trace but
  lowers no bias: `EvaluatesInline` does the same.
* Records, conversions, bindings of read-only attributes, type stubs and the build.

## Plan

Built, in order: `Partition`, `PartitionQueue` with `Mailbox`, `Scheduler`, `EventBus`,
`PairingHeap` with `PriorityQueue`, the proofs about scheduler and bus, `PythonBindings`,
`Exchange` with `Observer`, `DeadlineQueue` with its refinement, `SchedulerBus`, `Evaluation`, the
proofs about partition, deliveries, Python locks and leases, about the composition, the evaluation
requests, the barrier and the heap.

All safety properties of the runs are proved. Next, prove: that the heap of `PairingHeap`, with the
comparison of `Scheduler`, is the set `Scheduler` uses for it (`PriorityQueue` with values that order
as `EarlierDeadline` does); the steps of termination arguments that are safety, such as a measure
that each iteration of `combine_children` and `destroy_tree` lowers.

What could still be modelled: `PythonBindings` with raising merge callables and refused
publications; `Observer` with two publishers of graph events.
