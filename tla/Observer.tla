------------------------------ MODULE Observer -------------------------------
(***************************************************************************)
(* The workers of the legacy event layer (source/observer.cc) on the       *)
(* Exchange: each runs the states WAITING, ACQUIRE, DRAINING, RELEASE and  *)
(* TERMINATED in a thread of its own, and is woken by notices of leases.   *)
(* A publisher, whose code is not in the tree, acquires a lease for a      *)
(* worker, pushes an event and notifies the worker.  Context::stop() stops *)
(* and joins the workers one after the other.                              *)
(*                                                                         *)
(* A partition (GraphPartitionQueue, not in the tree) is a bag of events;  *)
(* dispatch and the persistence of events are left out.                    *)
(***************************************************************************)
EXTENDS Exchange

CONSTANTS
  Publishers,       (* threads that publish                                *)
  GraphPublishers,  (* those of them that publish graph events             *)
  MaxPublications,  (* bound on the publications of a run                  *)
  Supersteps,       (* of graph events                                     *)
  MailboxSize       (* kMailboxSize                                        *)

\* What tells events apart: graph events have a superstep.
Plain == -1
Events == Supersteps \cup {Plain}

ASSUME ObserverAssumption ==
  /\ GraphPublishers \subseteq Publishers
  /\ MaxPublications \in Nat /\ Supersteps \subseteq Nat /\ MailboxSize \in Nat \ {0}

VARIABLES
  state,      (* where each worker is                                      *)
  notice,     (* m_partition_id and m_generation of the worker             *)
  mailbox,    (* m_mailbox: notices, each a lease                          *)
  count,      (* m_mailbox_count                                           *)
  wake,       (* m_wake                                                    *)
  stop,       (* m_stop                                                    *)
  observed,   (* the superstep a worker read while draining                *)
  content,    (* how many events of each kind a partition holds            *)
  publisher,  (* where each publisher is, for which worker and event       *)
  published,  (* publications so far                                       *)
  stopper     (* Context::stop(): the worker it is at, 0 before, and where *)

workerVars == <<state, notice, observed>>
signals == <<mailbox, count, wake, stop>>
others == <<publisher, published, stopper>>
vars == <<leasing, barrier, workerVars, signals, content, others>>

Idle == [at |-> "idle", worker |-> 0, event |-> Plain]

Init ==
  /\ ExchangeInit
  /\ state = [w \in Workers |-> "waiting"]
  /\ notice = [w \in Workers |-> NoLease]
  /\ mailbox = [w \in Workers |-> <<>>] /\ count = [w \in Workers |-> 0]
  /\ wake = [w \in Workers |-> 0] /\ stop = [w \in Workers |-> FALSE]
  /\ observed = [w \in Workers |-> 0]
  /\ content = [p \in Partitions |-> [e \in Events |-> 0]]
  /\ publisher = [q \in Publishers |-> Idle] /\ published = 0
  /\ stopper = [worker |-> 0, at |-> "off"]

----------------------------------------------------------------------------
(* The states of a worker                                                  *)

Becomes(w, next) == state' = [state EXCEPT ![w] = next]
Moves(w, next) == Becomes(w, next) /\ UNCHANGED <<leasing, barrier, signals, content, others>>

\* WAITING reads the count, and the stop flag when the count is zero; a worker
\* that was not told to stop sleeps on m_wake.
ReadsCount(w) ==
  /\ state[w] = "waiting"
  /\ Moves(w, IF count[w] # 0 THEN "acquire" ELSE "empty")
  /\ UNCHANGED <<notice, observed>>

ReadsStop(w) ==
  /\ state[w] = "empty"
  /\ Moves(w, IF stop[w] THEN "terminated" ELSE "asleep")
  /\ UNCHANGED <<notice, observed>>

Awakes(w) ==
  /\ state[w] = "asleep" /\ wake[w] # 0
  /\ Moves(w, "awake") /\ UNCHANGED <<notice, observed>>

\* Seeded bug: m_wake is cleared without another look at the count.
SleepsAgain == "asleep"
LooksAgain == "waiting"

ClearsWake(w) ==
  /\ state[w] = "awake"
  /\ wake' = [wake EXCEPT ![w] = 0]
  /\ Becomes(w, LooksAgain)
  /\ UNCHANGED <<leasing, barrier, notice, observed, mailbox, count, stop, content, others>>

\* ACQUIRE pops a notice.
PopsNotice(w) ==
  /\ state[w] = "acquire" /\ mailbox[w] # <<>>
  /\ notice' = [notice EXCEPT ![w] = Head(mailbox[w])]
  /\ mailbox' = [mailbox EXCEPT ![w] = Tail(@)]
  /\ count' = [count EXCEPT ![w] = @ - 1]
  /\ Becomes(w, "drain")
  /\ UNCHANGED <<leasing, barrier, observed, wake, stop, content, others>>

In(p) == {e \in Events : content[p][e] > 0}
GraphPending(w) == graphMode /\ In(notice[w].pid) \cap Supersteps # {}
Current(w) == {e \in In(notice[w].pid) \cap Supersteps : e <= observed[w]}

Pops(w, e) ==
  /\ content' = [content EXCEPT ![notice[w].pid][e] = @ - 1]
  /\ Becomes(w, "drain")
  /\ observed' = [observed EXCEPT ![w] = 0]
  /\ UNCHANGED <<leasing, barrier, notice, signals, others>>

\* DRAINING in graph mode reads the superstep and pops what is due in it.
ReadsSuperstep(w) ==
  /\ state[w] = "drain" /\ GraphPending(w)
  /\ observed' = [observed EXCEPT ![w] = superstep]
  /\ Moves(w, "graph") /\ UNCHANGED notice

PopsGraph(w) == state[w] = "graph" /\ \E e \in Current(w) : Pops(w, e)

\* Nothing is due but events of later supersteps are there (kFuture): the lease is
\* closed and released, then the worker takes part in the barrier.
FindsFuture(w) ==
  /\ state[w] = "graph" /\ Current(w) = {}
  /\ CloseLease(notice[w])
  /\ Becomes(w, "give up")
  /\ UNCHANGED <<barrier, notice, observed, signals, content, others>>

GivesUp(w) ==
  /\ state[w] = "give up"
  /\ Release(w, notice[w])
  /\ notice' = [notice EXCEPT ![w] = NoLease]
  /\ Becomes(w, "arrive")
  /\ UNCHANGED <<barrier, observed, signals, content, others>>

Resumes(w) ==
  /\ Becomes(w, "waiting")
  /\ observed' = [observed EXCEPT ![w] = 0]
  /\ UNCHANGED <<leasing, notice, signals, content, others>>

ArrivesAtBarrier(w) ==
  /\ state[w] = "arrive"
  /\ Arrive(observed[w])
  /\ IF Waits(observed[w])
       THEN Becomes(w, "barrier") /\ UNCHANGED <<leasing, notice, observed, signals, content, others>>
       ELSE Resumes(w)

LeavesBarrier(w) ==
  /\ state[w] = "barrier" /\ superstep # observed[w]
  /\ Resumes(w) /\ UNCHANGED barrier

\* Otherwise DRAINING pops until the partition is empty and closes the lease.
PopsPlain(w) ==
  /\ state[w] = "drain" /\ ~GraphPending(w)
  /\ \E e \in In(notice[w].pid) : Pops(w, e)

\* Seeded bug: the lease is closed while there are events.
AnyContent(w) == TRUE
Drained(w) == In(notice[w].pid) = {}

Closes(w) ==
  /\ state[w] = "drain" /\ ~GraphPending(w) /\ Drained(w)
  /\ CloseLease(notice[w])
  /\ Becomes(w, "release")
  /\ UNCHANGED <<barrier, notice, observed, signals, content, others>>

\* RELEASE, which then reads the count and the stop flag.
Releases(w) ==
  /\ state[w] = "release"
  /\ Release(w, notice[w])
  /\ notice' = [notice EXCEPT ![w] = NoLease]
  /\ Becomes(w, "released")
  /\ UNCHANGED <<barrier, observed, signals, content, others>>

ReadsCountAgain(w) ==
  /\ state[w] = "released"
  /\ Moves(w, IF count[w] # 0 THEN "acquire" ELSE "none left")
  /\ UNCHANGED <<notice, observed>>

ReadsStopAgain(w) ==
  /\ state[w] = "none left"
  /\ Moves(w, IF stop[w] THEN "terminated" ELSE "waiting")
  /\ UNCHANGED <<notice, observed>>

WorkerStep(w) ==
  \/ ReadsCount(w) \/ ReadsStop(w) \/ Awakes(w) \/ ClearsWake(w) \/ PopsNotice(w)
  \/ ReadsSuperstep(w) \/ PopsGraph(w) \/ FindsFuture(w) \/ GivesUp(w)
  \/ ArrivesAtBarrier(w) \/ LeavesBarrier(w)
  \/ PopsPlain(w) \/ Closes(w) \/ Releases(w) \/ ReadsCountAgain(w) \/ ReadsStopAgain(w)

----------------------------------------------------------------------------
(* A publication: a lease, the event, the notice.                          *)

Publishes(q, next) == publisher' = [publisher EXCEPT ![q].at = next]
Target(q) == publisher[q].worker

LeasesFor(q, w, event) ==
  /\ publisher[q].at = "idle" /\ published < MaxPublications
  /\ Acquire(w)
  /\ publisher' = [publisher EXCEPT ![q] =
       [at |-> IF event = Plain THEN "push" ELSE "epoch", worker |-> w, event |-> event]]
  /\ published' = published + 1
  /\ UNCHANGED <<barrier, workerVars, signals, content, stopper>>

EntersGraphMode(q) ==
  /\ publisher[q].at = "epoch"
  /\ EnterGraphMode /\ Publishes(q, IF graphMode THEN "push" ELSE "superstep")
  /\ UNCHANGED <<leasing, workerVars, signals, content, published, stopper>>

ResetsSuperstep(q) ==
  /\ publisher[q].at = "superstep"
  /\ ResetSuperstep /\ Publishes(q, "arrived")
  /\ UNCHANGED <<leasing, workerVars, signals, content, published, stopper>>

ResetsArrived(q) ==
  /\ publisher[q].at = "arrived"
  /\ ResetArrived /\ Publishes(q, "push")
  /\ UNCHANGED <<leasing, workerVars, signals, content, published, stopper>>

PushesEvent(q) ==
  /\ publisher[q].at = "push"
  /\ content' = [content EXCEPT ![registry[Target(q)].pid][publisher[q].event] = @ + 1]
  /\ Publishes(q, "notify")
  /\ UNCHANGED <<leasing, barrier, workerVars, signals, published, stopper>>

\* notify() pushes the notice, spinning while the mailbox is full, ...
PushesNotice(q) ==
  /\ publisher[q].at = "notify" /\ Len(mailbox[Target(q)]) < MailboxSize
  /\ mailbox' = [mailbox EXCEPT ![Target(q)] = Append(@, registry[Target(q)])]
  /\ Publishes(q, "count")
  /\ UNCHANGED <<leasing, barrier, workerVars, count, wake, stop, content, published, stopper>>

\* ... then counts it, and sets m_wake last.
CountsNotice(q) ==
  /\ publisher[q].at = "count"
  /\ count' = [count EXCEPT ![Target(q)] = @ + 1]
  /\ Publishes(q, "wake")
  /\ UNCHANGED <<leasing, barrier, workerVars, mailbox, wake, stop, content, published, stopper>>

WakesWorker(q) ==
  /\ publisher[q].at = "wake"
  /\ wake' = [wake EXCEPT ![Target(q)] = 1]
  /\ publisher' = [publisher EXCEPT ![q] = Idle]
  /\ UNCHANGED <<leasing, barrier, workerVars, mailbox, count, stop, content, published, stopper>>

PublishStep(q) ==
  \/ EntersGraphMode(q) \/ ResetsSuperstep(q) \/ ResetsArrived(q) \/ PushesEvent(q)
  \/ PushesNotice(q) \/ CountsNotice(q) \/ WakesWorker(q)

Publish(q) ==
  \E w \in Workers, event \in IF q \in GraphPublishers THEN Events ELSE {Plain} :
     LeasesFor(q, w, event)

----------------------------------------------------------------------------
(* Context::stop()                                                         *)

StopsNext(next) == stopper' = next /\ UNCHANGED <<leasing, barrier, workerVars, mailbox, count,
                                                 content, publisher, published>>
SetsStop(w) ==
  /\ stop' = [stop EXCEPT ![w] = TRUE]
  /\ StopsNext([worker |-> w, at |-> "wake"]) /\ UNCHANGED wake

Begins == stopper.at = "off" /\ SetsStop(1)
StopsNextWorker == stopper.at = "next" /\ SetsStop(stopper.worker + 1)

\* Seeded bug: the worker is not woken.
NoWake == [wake EXCEPT ![stopper.worker] = @]
SetWake == [wake EXCEPT ![stopper.worker] = 1]

SetsWake ==
  /\ stopper.at = "wake"
  /\ wake' = SetWake
  /\ StopsNext([stopper EXCEPT !.at = "join"]) /\ UNCHANGED stop

Joins ==
  /\ stopper.at = "join" /\ state[stopper.worker] = "terminated"
  /\ StopsNext([stopper EXCEPT !.at = IF stopper.worker < NumWorkers THEN "next" ELSE "done"])
  /\ UNCHANGED <<wake, stop>>

StopStep == StopsNextWorker \/ SetsWake \/ Joins

----------------------------------------------------------------------------
Next ==
  \/ Begins \/ StopStep
  \/ \E w \in Workers : WorkerStep(w)
  \/ \E q \in Publishers : Publish(q) \/ PublishStep(q)

Spec == Init /\ [][Next]_vars

\* Every thread goes on when it can.  Nobody has to publish or to stop.
FairSpec ==
  /\ Spec /\ WF_vars(StopStep)
  /\ \A w \in Workers : WF_vars(WorkerStep(w))
  /\ \A q \in Publishers : WF_vars(PublishStep(q))

----------------------------------------------------------------------------
Draining == {"drain", "graph", "give up", "release"}

\* A partition is ready once or leased to one worker, never both and never
\* neither: no release is lost, repeated or given to the wrong worker.
LeasesConserved ==
  \A p \in Partitions :
     Cardinality({i \in DOMAIN ready : ready[i] = p})
       + Cardinality({w \in Workers : registry[w].pid = p}) = 1

\* A worker drains under the lease that is registered for it: its notice is never
\* stale, so two workers never drain one partition and release() never fails,
\* not even where the generations wrap.
NoticesAreCurrent ==
  \A w \in Workers :
     /\ state[w] \in Draining => notice[w] = registry[w]
     /\ \A i \in DOMAIN mailbox[w] : mailbox[w][i] = registry[w]
     /\ state[w] \in {"give up", "release"} => ReleaseCode(w, notice[w]) = 0

\* Nothing is left behind in a partition that goes back, unless events of a later
\* superstep are there to be found by the next lease.
OnlyGraphStays ==
  \A i \in DOMAIN ready :
     In(ready[i]) # {} => In(ready[i]) \cap Supersteps # {}

\* The barrier counts the workers that wait in it for the current superstep, when
\* one thread publishes graph events.
BarrierCounts ==
  arrived = Cardinality({w \in Workers : state[w] = "barrier" /\ observed[w] = superstep})

\* A lease comes back, whatever the order of notice, count and wake on one side and
\* wake, count and stop on the other; but not from a worker that was told to stop
\* or that waits in the barrier.
LeaseComesBack ==
  \A w \in Workers :
     registry[w] # NoLease ~> registry[w] = NoLease \/ stop[w] \/ state[w] = "barrier"

\* stop() joins every worker that does not wait in the barrier.
StopJoins ==
  stopper.at = "join" ~> stopper.at # "join" \/ state[stopper.worker] = "barrier"
=============================================================================
