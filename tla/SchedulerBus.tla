----------------------------- MODULE SchedulerBus -----------------------------
(***************************************************************************)
(* Scheduler and EventBus together: the timing thread takes a due request  *)
(* out of the queue and is, from there on, one of the publishers of the    *)
(* bus (m_run of scheduler.inl).  How its call to publish() or             *)
(* publish_one() ends decides what becomes of the request.  The scheduler  *)
(* is DeadlineQueue, which it implements; the bus is EventBus, with its    *)
(* preflight, its fan-out, its workers and its registry, whose steps are   *)
(* steps of this module (Init, Next and Spec are those of the bus alone).  *)
(***************************************************************************)
EXTENDS EventBus

CONSTANTS
  Deadlines, MaxItems, MaxTime,   (* of DeadlineQueue                      *)
  Timer,     (* the timing thread, one of the clients of the bus           *)
  Jobs,      (* what may be asked for: targets, event id and superstep     *)
  Thrown     (* what a merger may throw: "overflow_error", "other"         *)

Targets == {{}} \cup {{s} : s \in Slots}   (* std::optional<SubscriberID> *)

ASSUME SchedulerBusAssumption ==
  /\ Timer \in Clients /\ Uses[Timer] = {"publish"}
  /\ Jobs \subseteq [target : Targets, id : EventIDs, superstep : Supersteps]
  /\ Thrown \subseteq {"overflow_error", "other"}
  /\ MergerThrows = (Thrown # {})

VARIABLES
  pending, out, log, failed, nextOrder, now,               (* the queue    *)
  job,       (* history: [what, at] of each accepted request, by its order *)
  sent,      (* history: which publication was made for which request      *)
  spoiled    (* history: publications in which a merger threw              *)
             (* std::overflow_error                                        *)

Queue == INSTANCE DeadlineQueue

queueVars == <<pending, out, log, failed, nextOrder, now>>
history == <<job, sent, spoiled>>
timedVars == <<vars, queueVars, history>>

TimedInit == Init /\ Queue!Init /\ job = <<>> /\ sent = {} /\ spoiled = {}

----------------------------------------------------------------------------
\* schedule() and schedule_one(), by a client or in a handler.
Schedule(what, at) ==
  /\ Queue!Accept(at)
  /\ job' = Append(job, [what |-> what, at |-> at])
  /\ UNCHANGED <<vars, sent, spoiled>>

\* The timing thread takes the earliest request out once it is due.
Extract == Queue!Extract /\ UNCHANGED <<vars, history>>

JobOf(request) == job[request.order + 1].what

\* It calls publish() or publish_one(), and the bus numbers the publication.
Begins ==
  \E r \in out :
    LET what == JobOf(r) IN
    /\ \/ what.target = {} /\ Publish(Timer, what.id, what.superstep)
       \/ \E s \in what.target : PublishOne(Timer, s, what.id, what.superstep)
    /\ sent' = sent \cup {[number |-> sequence, order |-> r.order]}
    /\ UNCHANGED <<queueVars, job, spoiled>>

\* The slot is not in use any more, or again by somebody else: publish_one()
\* throws std::out_of_range in the first case and knows nothing of the second.
FindsNobody ==
  /\ pc[Timer] = "idle" /\ publishing = Free
  /\ \E r \in out : ~(JobOf(r).target \subseteq subscribers)
  /\ Queue!Fail
  /\ UNCHANGED <<vars, history>>

\* The handlers of m_run: overflow_error goes back to the heap, anything else
\* is counted.  Seeded bug: whatever is thrown goes back.
RetriesAll(thrown) == TRUE
Retries(thrown) == thrown = "overflow_error"

Catches(thrown) == IF Retries(thrown) THEN Queue!PutBack ELSE Queue!Fail

\* One partition after the other can accept, and takes, the event.
Continues ==
  /\ Preflight(Timer) \/ PushNext(Timer)
  /\ publishing' = Timer
  /\ UNCHANGED <<queueVars, history>>

\* A full partition: std::overflow_error out of the preflight.  Seeded bug: the
\* refusal is not noticed and the request counted as forwarded.
NotNoticed == Queue!Forward
Refused == Catches("overflow_error")
IsRefused ==
  /\ Preflight(Timer) \/ PushNext(Timer)
  /\ publishing' = Free
  /\ Refused
  /\ UNCHANGED history

\* The merger of the payload throws in the middle of the fan-out.
MergerThrew ==
  \E thrown \in Thrown :
    /\ MergerFails(Timer)
    /\ Catches(thrown)
    /\ spoiled' = IF thrown = "overflow_error"
                    THEN spoiled \cup {event.sequence : event \in fanout[Timer].event}
                    ELSE spoiled
    /\ UNCHANGED <<job, sent>>

\* The call returns: the request is forwarded.
CallReturns == PublishReturns(Timer) /\ Queue!Forward /\ UNCHANGED history

TimerStep ==
  Extract \/ Begins \/ FindsNobody \/ Continues \/ IsRefused \/ MergerThrew \/ CallReturns

\* Everybody else uses the bus as before.
BusStep ==
  /\ \/ \E t \in Threads \ {Timer} :
          \/ PublishCall(t) \/ PublishStep(t)
          \/ LifecycleStep(t) \/ \E call \in Calls : Call(t, call)
     \/ \E s \in Slots : WorkerStep(s)
  /\ UNCHANGED <<queueVars, history>>

Time == Queue!Tick /\ UNCHANGED <<vars, history>>

TimedNext ==
  \/ TimerStep \/ BusStep \/ Time
  \/ \E what \in Jobs, at \in Deadlines : Schedule(what, at)

TimedSpec == TimedInit /\ [][TimedNext]_timedVars

----------------------------------------------------------------------------
\* The publications made for request n that partition s took in.
CopiesOf(n, s) == {p \in sent : p.order = n /\ p.number \in accepted[s]}

\* "The scheduler removes a due item from the heap before publishing it", and a
\* refused one goes back: what is in the heap has reached no partition, so no
\* handler sees a request that is still pending, and a retry repeats nothing.
\* Only a publication in which a merger threw std::overflow_error, which m_run
\* takes for a full bus, leaves the partitions before that one with their copy.
PendingIsUntouched ==
  \A r \in pending, s \in Slots : \A p \in CopiesOf(r.order, s) : p.number \in spoiled

\* A request counted as forwarded was taken in once by each of its targets and
\* by nobody else, over all the attempts it took.  What a target has twice, it
\* has from an attempt that ended in an overflow_error of a merger: neither a
\* retry after a refusal nor the attempt that succeeds adds a second copy.
Whole(n, s) == {p \in CopiesOf(n, s) : p.number \notin spoiled}
ForwardedOnce ==
  [][\A r \in out, s \in Slots :
       log' # log => Cardinality(Whole(r.order, s))
                       = IF s \in fanout[Timer].targets THEN 1 ELSE 0]_timedVars

\* Requests in the queue before they were events: a handler that sees request m
\* before request n, though n was accepted first and is of no higher superstep,
\* sees it because m had the earlier deadline.
Requests(event) == {p.order : p \in {q \in sent : q.number = event.sequence}}
HandledByDeadline ==
  \A s \in Slots : \A i, j \in DOMAIN handled[s] :
    \A m \in Requests(handled[s][i]), n \in Requests(handled[s][j]) :
      i < j /\ n < m /\ handled[s][j].superstep <= handled[s][i].superstep
        => job[m + 1].at < job[n + 1].at
=============================================================================
