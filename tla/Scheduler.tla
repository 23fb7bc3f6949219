------------------------------ MODULE Scheduler ------------------------------
(***************************************************************************)
(* The timed publisher (include/yellowstone/scheduler.inl): producers put  *)
(* requests in a heap under m_mutex, one timing thread waits on            *)
(* m_condition for the earliest deadline, takes the root out, releases the *)
(* mutex and publishes it into the bus; a full bus sends the request back  *)
(* to the heap and the thread into a retry wait.  One thread calls start() *)
(* and stop(): m_worker is guarded by nothing, so calls that overlap race  *)
(* on it and have no meaning to model.                                     *)
(*                                                                         *)
(* A condition-variable wait is modelled in full: the predicate is read    *)
(* under the mutex, the thread then releases the mutex and falls asleep in *)
(* one step, and whoever notifies between the two wakes nobody.            *)
(* EventBus::publish and publish_one are the three ways they can end.      *)
(***************************************************************************)
EXTENDS Integers, Sequences, FiniteSets

CONSTANTS
  Producers,   (* threads that call schedule() and schedule_one()          *)
  Deadlines,   (* the deadlines requests may ask for                       *)
  MaxItems,    (* bound on the requests of a behaviour                     *)
  MaxTime,     (* bound on the clock                                       *)
  Timer,       (* the timing thread, m_worker                              *)
  Free         (* the owner of an unlocked mutex                           *)

ASSUME SchedulerAssumption ==
  /\ Deadlines \subseteq Nat
  /\ MaxItems \in Nat
  /\ MaxTime \in Nat
  /\ Free # Timer

VARIABLES
  mutex,          (* owner of m_mutex                                      *)
  heap,           (* m_schedule_heap                                       *)
  accepting,      (* m_accepting                                           *)
  running,        (* m_running                                             *)
  nextOrder,      (* m_next_insertion_order, also m_scheduled_events       *)
  forwarded,      (* m_forwarded_events                                    *)
  failed,         (* m_failed_events                                       *)
  notifying,      (* producers between their unlock and their notify_one   *)
  timer,          (* where the timing thread is; "none" when not joinable  *)
  wait,           (* which of the three waits of m_run it is in            *)
  observed,       (* {observed root} during the deadline wait              *)
  timedOut,       (* why the last sleep ended                              *)
  interrupted,    (* what the deadline wait returned                       *)
  due,            (* {request taken out and not yet settled}, or {}        *)
  stopRequested,  (* the stop token of m_worker                            *)
  caller,         (* where the thread that calls start() and stop() is     *)
  now,            (* the system clock                                      *)
  log             (* history: requests forwarded, in order                 *)

vars == <<mutex, heap, accepting, running, nextOrder, forwarded, failed, notifying,
          timer, wait, observed, timedOut, interrupted, due, stopRequested, caller,
          now, log>>

counters  == <<nextOrder, forwarded, failed>>
threadVars == <<wait, observed, timedOut, interrupted>>

----------------------------------------------------------------------------
(* ScheduledItem and EarlierDeadline                                       *)

Items == [at : Deadlines, order : Nat]

Earlier(a, b) == a.at < b.at \/ (a.at = b.at /\ a.order < b.order)

\* The heap's top().  Seeded bug: equal deadlines leave in reverse order.
TopNewest == CHOOSE t \in heap :
  \A x \in heap \ {t} : t.at < x.at \/ (t.at = x.at /\ t.order > x.order)
Top == CHOOSE t \in heap : \A x \in heap \ {t} : Earlier(t, x)

----------------------------------------------------------------------------
Init ==
  /\ mutex = Free /\ heap = {} /\ accepting = TRUE /\ running = TRUE
  /\ nextOrder = 0 /\ forwarded = 0 /\ failed = 0 /\ notifying = {}
  /\ timer = "begin" /\ wait = "empty" /\ observed = {} /\ timedOut = FALSE
  /\ interrupted = FALSE /\ due = {} /\ stopRequested = FALSE
  /\ caller = "idle" /\ now = 0 /\ log = <<>>

\* The clock is taken to be monotone.
Tick ==
  /\ now < MaxTime
  /\ now' = now + 1
  /\ UNCHANGED <<mutex, heap, accepting, running, counters, notifying, timer,
                 threadVars, due, stopRequested, caller, log>>

----------------------------------------------------------------------------
(* schedule(): refused once stopped, which changes nothing; otherwise one  *)
(* critical section, then notify_one outside it.                           *)

\* Seeded bug: m_next_insertion_order is not advanced.
SameOrder == nextOrder
OrderAfter == nextOrder + 1

Schedule(p, at) ==
  /\ p \notin notifying
  /\ mutex = Free
  /\ accepting
  /\ nextOrder < MaxItems
  /\ heap' = heap \cup {[at |-> at, order |-> nextOrder]}
  /\ nextOrder' = OrderAfter
  /\ notifying' = notifying \cup {p}
  /\ UNCHANGED <<mutex, accepting, running, forwarded, failed, timer, threadVars, due,
                 stopRequested, caller, now, log>>

\* notify_one and notify_all: only the timing thread ever sleeps on
\* m_condition.  Seeded bug: the notification is left out.
WakesNobody == timer' = timer /\ timedOut' = timedOut
WakesTimer ==
  /\ timer' = IF timer = "asleep" THEN "woken" ELSE timer
  /\ timedOut' = IF timer = "asleep" THEN FALSE ELSE timedOut

Notify(p) ==
  /\ p \in notifying
  /\ notifying' = notifying \ {p}
  /\ WakesTimer
  /\ UNCHANGED <<mutex, heap, accepting, running, counters, wait, observed, interrupted,
                 due, stopRequested, caller, now, log>>

----------------------------------------------------------------------------
(* m_run.  Lock: the thread takes m_mutex where it starts, where a sleep   *)
(* ends and after a publication.                                           *)

RootChanged ==
  heap = {} \/ \E o \in observed : Earlier(Top, o)

\* The predicates of the waits on an empty heap, for a deadline, for a retry.
Predicate ==
  \/ stopRequested
  \/ wait = "empty" /\ heap # {}
  \/ wait = "deadline" /\ RootChanged

\* A wait returns, with the predicate's value, to the code after it.
WaitReturns(value) ==
  /\ timer' = IF wait = "deadline" THEN "decide" ELSE "loop"
  /\ interrupted' = value

TimerBegin ==
  /\ timer = "begin" /\ mutex = Free
  /\ mutex' = Timer /\ timer' = "loop"
  /\ UNCHANGED <<heap, accepting, running, counters, notifying, threadVars, due,
                 stopRequested, caller, now, log>>

\* The head of the loop, down to the first predicate read.
TimerLoop ==
  /\ timer = "loop"
  /\ IF stopRequested
       THEN /\ timer' = "exited" /\ mutex' = Free
            /\ UNCHANGED <<wait, observed>>
       ELSE /\ timer' = "predicate" /\ mutex' = mutex
            /\ wait' = IF heap = {} THEN "empty" ELSE "deadline"
            /\ observed' = IF heap = {} THEN {} ELSE {Top}
  /\ UNCHANGED <<heap, accepting, running, counters, notifying, timedOut, interrupted,
                 due, stopRequested, caller, now, log>>

TimerPredicate ==
  /\ timer = "predicate"
  /\ IF Predicate THEN WaitReturns(TRUE)
                  ELSE timer' = "block" /\ interrupted' = interrupted
  /\ UNCHANGED <<mutex, heap, accepting, running, counters, notifying, wait, observed,
                 timedOut, due, stopRequested, caller, now, log>>

\* The condition variable releases the mutex and sleeps.
TimerBlock ==
  /\ timer = "block"
  /\ timer' = "asleep" /\ mutex' = Free
  /\ UNCHANGED <<heap, accepting, running, counters, notifying, threadVars, due,
                 stopRequested, caller, now, log>>

\* The deadline passes.  The retry wait runs on the steady clock, which owes
\* the system clock nothing: it may end at any time.
TimerExpires ==
  /\ timer = "asleep"
  /\ wait = "retry" \/ (wait = "deadline" /\ \E o \in observed : o.at <= now)
  /\ timer' = "woken" /\ timedOut' = TRUE
  /\ UNCHANGED <<mutex, heap, accepting, running, counters, notifying, wait, observed,
                 interrupted, due, stopRequested, caller, now, log>>

\* The platform may wake a sleeper for no reason, and need not.
SpuriousWakeup ==
  /\ timer = "asleep"
  /\ timer' = "woken" /\ timedOut' = FALSE
  /\ UNCHANGED <<mutex, heap, accepting, running, counters, notifying, wait, observed,
                 interrupted, due, stopRequested, caller, now, log>>

\* The sleeper has the mutex again: a timeout ends the wait with the
\* predicate's value, a notification reads the predicate once more.
TimerWakes ==
  /\ timer = "woken" /\ mutex = Free
  /\ mutex' = Timer
  /\ IF timedOut THEN WaitReturns(Predicate)
                 ELSE timer' = "predicate" /\ interrupted' = interrupted
  /\ UNCHANGED <<heap, accepting, running, counters, notifying, wait, observed, timedOut,
                 due, stopRequested, caller, now, log>>

\* Seeded bug: an interrupted deadline wait publishes the root it finds.
IgnoresInterrupt == FALSE
LoopsAgain == interrupted

\* After the deadline wait: break, continue, or extract_top and unlock.
TimerDecides ==
  /\ timer = "decide"
  /\ \/ /\ stopRequested
        /\ timer' = "exited" /\ mutex' = Free
        /\ UNCHANGED <<heap, due>>
     \/ /\ ~stopRequested /\ LoopsAgain
        /\ timer' = "loop"
        /\ UNCHANGED <<mutex, heap, due>>
     \/ /\ ~stopRequested /\ ~LoopsAgain
        /\ timer' = "publish" /\ mutex' = Free
        /\ due' = {Top} /\ heap' = heap \ {Top}
  /\ UNCHANGED <<accepting, running, counters, notifying, threadVars, stopRequested,
                 caller, now, log>>

PublishForwards ==
  /\ timer = "publish"
  /\ timer' = "relock"
  /\ \E d \in due : log' = Append(log, d)
  /\ forwarded' = forwarded + 1 /\ due' = {}
  /\ UNCHANGED <<mutex, heap, accepting, running, nextOrder, failed, notifying,
                 threadVars, stopRequested, caller, now>>

\* std::overflow_error: a target partition is full.
PublishOverflows ==
  /\ timer = "publish"
  /\ timer' = "relock"
  /\ UNCHANGED <<mutex, heap, accepting, running, counters, notifying, threadVars, due,
                 stopRequested, caller, now, log>>

\* Any other exception: counted, reported and dropped.
PublishFails ==
  /\ timer = "publish"
  /\ timer' = "relock"
  /\ failed' = failed + 1 /\ due' = {}
  /\ UNCHANGED <<mutex, heap, accepting, running, nextOrder, forwarded, notifying,
                 threadVars, stopRequested, caller, now, log>>

\* What the heap gets back.  Seeded bug: the overflowing request is dropped.
Nothing == {}
Reinserted == due

TimerRelocks ==
  /\ timer = "relock" /\ mutex = Free
  /\ mutex' = Timer
  /\ IF due = {} THEN timer' = "loop" /\ wait' = wait
                 ELSE timer' = "predicate" /\ wait' = "retry"
  /\ heap' = heap \cup Reinserted
  /\ due' = {}
  /\ UNCHANGED <<accepting, running, counters, notifying, observed, timedOut, interrupted,
                 stopRequested, caller, now, log>>

TimerStep ==
  \/ TimerBegin \/ TimerLoop \/ TimerPredicate \/ TimerBlock \/ TimerExpires
  \/ TimerWakes \/ TimerDecides \/ TimerRelocks
  \/ PublishForwards \/ PublishOverflows \/ PublishFails
----------------------------------------------------------------------------
(* start() and stop().  start() of a running scheduler changes nothing.    *)

\* Seeded bug: a restart leaves the stop token of the joined thread in place.
OldToken == stopRequested
NewToken == FALSE

Start ==
  /\ caller = "idle" /\ mutex = Free /\ ~running
  /\ accepting' = TRUE /\ running' = TRUE
  /\ timer' = "begin" /\ stopRequested' = NewToken
  /\ UNCHANGED <<mutex, heap, counters, notifying, threadVars, due, caller, now, log>>

\* Acceptance ends under the mutex; everything after it runs without.
Stop ==
  /\ caller = "idle" /\ mutex = Free
  /\ accepting' = FALSE
  /\ caller' = IF timer = "none" THEN "finish" ELSE "request"
  /\ UNCHANGED <<mutex, heap, running, counters, notifying, timer, threadVars, due,
                 stopRequested, now, log>>

\* Seeded bug: the thread is joined and never asked to stop.
NoRequest == stopRequested
Request == TRUE

StopRequests ==
  /\ caller = "request"
  /\ stopRequested' = Request
  /\ caller' = "notify"
  /\ UNCHANGED <<mutex, heap, accepting, running, counters, notifying, timer, threadVars,
                 due, now, log>>

StopNotifies ==
  /\ caller = "notify"
  /\ caller' = "join"
  /\ WakesTimer
  /\ UNCHANGED <<mutex, heap, accepting, running, counters, notifying, wait, observed,
                 interrupted, due, stopRequested, now, log>>

StopJoins ==
  /\ caller = "join" /\ timer = "exited"
  /\ caller' = "finish" /\ timer' = "none"
  /\ UNCHANGED <<mutex, heap, accepting, running, counters, notifying, threadVars, due,
                 stopRequested, now, log>>

StopFinishes ==
  /\ caller = "finish"
  /\ caller' = "idle" /\ running' = FALSE
  /\ UNCHANGED <<mutex, heap, accepting, counters, notifying, timer, threadVars, due,
                 stopRequested, now, log>>

StopStep == StopRequests \/ StopNotifies \/ StopJoins \/ StopFinishes

Next ==
  \/ TimerStep \/ SpuriousWakeup \/ Tick \/ Start \/ Stop \/ StopStep
  \/ \E p \in Producers : Notify(p) \/ \E at \in Deadlines : Schedule(p, at)

Spec == Init /\ [][Next]_vars

\* Threads that can take a step take one in the end and time passes.  A bus
\* that is full again and again is drained in between, so a request that can
\* be published over and over is not turned away for ever; a sleep whose time
\* has come is not cut short by spurious wakeups for ever.  Nothing obliges
\* anybody to call schedule(), start() or stop().
Fairness ==
  /\ WF_vars(TimerStep) /\ WF_vars(StopStep) /\ WF_vars(Tick)
  /\ SF_vars(PublishForwards \/ PublishFails) /\ SF_vars(TimerExpires)
  /\ \A p \in Producers : WF_vars(Notify(p))

FairSpec == Spec /\ Fairness

----------------------------------------------------------------------------
TimerStates == {"none", "begin", "loop", "predicate", "block", "asleep", "woken",
                "decide", "publish", "relock", "exited"}

Pending == heap \cup due

\* Types; the timing thread owns the mutex exactly in the states that hold it;
\* no two requests share an insertion order.
TypeOK ==
  /\ heap \in SUBSET Items /\ due \in SUBSET Items /\ observed \in SUBSET Items
  /\ accepting \in BOOLEAN /\ running \in BOOLEAN /\ stopRequested \in BOOLEAN
  /\ timedOut \in BOOLEAN /\ interrupted \in BOOLEAN
  /\ nextOrder \in 0 .. MaxItems /\ forwarded \in Nat /\ failed \in Nat
  /\ notifying \subseteq Producers
  /\ timer \in TimerStates /\ wait \in {"empty", "deadline", "retry"}
  /\ mutex = IF timer \in {"loop", "predicate", "block", "decide"} THEN Timer ELSE Free
  /\ caller \in {"idle", "request", "notify", "join", "finish"}
  /\ now \in 0 .. MaxTime /\ log \in Seq(Items)
  /\ \A a, b \in Pending : a.order = b.order => a = b

\* No request is lost or doubled by extraction, publication, the retry path or
\* a stop and restart: the accepted ones are pending, being published,
\* forwarded or failed (what the four counters of docs/scheduler.md say).
Conservation ==
  nextOrder = Cardinality(heap) + Cardinality(due) + forwarded + failed

\* "Equal deadlines are forwarded in insertion order" and "earliest deadline
\* first" over a whole run, retries, restarts and late arrivals included: a
\* request forwarded before one that was accepted earlier has the strictly
\* earlier deadline.
OvertakesOnlyByDeadline ==
  \A i, j \in DOMAIN log :
     i < j /\ log[j].order < log[i].order => log[i].at < log[j].at

\* "Publication never occurs before the requested deadline", though the root
\* may have changed between the observation and the extraction.
NeverEarly == \A d \in due : d.at <= now

\* Between the calls, acceptance, m_running and the timing thread agree: after
\* stop() nothing is accepted and no thread is left, after start() there is one
\* and its token is clear.
LifecycleAgrees ==
  caller = "idle" =>
    /\ accepting = running
    /\ running <=> timer # "none"
    /\ running => ~stopRequested
    /\ ~running => due = {}

Promise == INSTANCE DeadlineQueue WITH pending <- heap, out <- due

\* What producers and the bus see of all this is the queue the class comment
\* promises: locks, sleeps, wakeups, stops and restarts lose, double, reorder
\* and hurry nothing.
ImplementsQueue == Promise!Spec

\* Every request that becomes due leaves the heap for good, or the scheduler is
\* asked to stop: no wakeup for it is lost, however schedule() falls between
\* the predicate and the sleep.
Waiting(n) == \E x \in Pending : x.order = n
DueIsSettled ==
  \A n \in 0 .. MaxItems - 1 : Waiting(n) ~> (~Waiting(n) \/ ~accepting)

\* stop() returns when requests are pending: the timing thread then sleeps
\* against a deadline and finds the stop token whatever became of the wakeup.
StopReturnsWithWork ==
  (caller = "join" /\ heap # {}) ~> (caller = "idle")

\* "stop() ... wakes the condition variable, and joins the timing thread."
StopReturns == (caller = "join") ~> (caller = "idle")
=============================================================================
