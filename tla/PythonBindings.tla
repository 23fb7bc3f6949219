--------------------------- MODULE PythonBindings ----------------------------
(***************************************************************************)
(* The Python module (source/bindings/python.cc) as a set of locks: the    *)
(* GIL next to the mutexes of the bus and of the scheduler.  Only start()  *)
(* and stop() release the GIL; every other call blocks on native mutexes   *)
(* with it.  The native threads take it to run a handler or a merger, to   *)
(* report an error and to drop the last reference to a payload.            *)
(*                                                                         *)
(* One subscriber, whose partition holds at most one event, all of one     *)
(* key: what else the bus and the scheduler do is in EventBus and          *)
(* Scheduler.  A native critical section that takes no other lock is one   *)
(* step.  Handlers do not keep the events they are given.                  *)
(***************************************************************************)
EXTENDS Integers, FiniteSets

CONSTANTS
  Clients,       (* Python threads                                         *)
  Worker,        (* the subscriber's consumer thread, which runs handlers  *)
  Timer,         (* the scheduler's timing thread                          *)
  Uses,          (* the calls each Python thread and the handlers make     *)
  PythonMerger,  (* TRUE when the bus was built with a merge callable      *)
  MaxRequests,   (* bound on the requests in the scheduler's heap          *)
  Free           (* the owner of an unlocked lock                          *)

Locks == {"gil", "lifecycle", "publish", "partition", "scheduler"}
Threads == Clients \cup {Worker, Timer}
Calls == {"publish", "pending", "subscribe", "start", "stop", "schedule", "halt", "resume"}

ASSUME PythonAssumption ==
  /\ Worker \notin Clients /\ Timer \notin Clients \cup {Worker} /\ Free \notin Threads
  /\ Uses \in [Clients \cup {Worker} -> SUBSET Calls]
  /\ PythonMerger \in BOOLEAN /\ MaxRequests \in Nat
  \* Overlapping lifecycle calls of a scheduler race on its thread.
  /\ \A t, u \in Clients \cup {Worker} :
       {"halt", "resume"} \cap Uses[t] # {} /\ {"halt", "resume"} \cap Uses[u] # {} => t = u

VARIABLES
  owner,     (* the thread that holds each lock                            *)
  pc,        (* where each thread is; "python" is anywhere in Python code  *)
  queued,    (* the payload in the partition: "none", "own" when it is the *)
             (* last reference, "shared" with the timing thread's `due`    *)
  handling,  (* the same for the event the worker has popped               *)
  requests,  (* requests in the scheduler's heap                           *)
  running,   (* the bus runs                                               *)
  halting    (* the scheduler has been asked to stop                       *)

vars == <<owner, pc, queued, handling, requests, running, halting>>

payloads == <<queued, handling>>
switches == <<running, halting>>

Init ==
  /\ owner = [l \in Locks |-> Free]
  /\ pc = [t \in Threads |-> IF t = Worker THEN "off" ELSE IF t = Timer THEN "wait" ELSE "python"]
  /\ queued = "none" /\ handling = "none" /\ requests = 0
  /\ running = FALSE /\ halting = FALSE

Goes(t, state) == pc' = [pc EXCEPT ![t] = state]
Unlocked(l) == owner[l] = Free
Stay == UNCHANGED <<requests, payloads, switches>>

----------------------------------------------------------------------------
(* The interpreter hands the GIL from thread to thread between bytecodes,  *)
(* in a merge callable too.                                                *)

InPython(t) == pc[t] = "python" \/ (PythonMerger /\ pc[t] = "merge")

SwitchOut(t) ==
  /\ owner["gil"] = t /\ InPython(t)
  /\ owner' = [owner EXCEPT !["gil"] = Free]
  /\ pc' = pc /\ Stay

SwitchIn(t) ==
  /\ Unlocked("gil") /\ pc[t] \in {"python", "merge"}
  /\ owner' = [owner EXCEPT !["gil"] = t]
  /\ pc' = pc /\ Stay

\* A call into the native module.  The guards of start() and stop() release the
\* GIL for its duration.  Seeded bug: they do not.
KeepsGil(t, call) == owner
GilDuring(t, call) ==
  IF call \in {"start", "stop", "halt", "resume"}
    THEN [owner EXCEPT !["gil"] = Free] ELSE owner

Call(t, call) ==
  /\ pc[t] = "python" /\ owner["gil"] = t
  /\ call \in Uses[t]
  /\ Goes(t, call)
  /\ owner' = GilDuring(t, call)
  /\ Stay

----------------------------------------------------------------------------
(* publish(), from Python with the GIL and from the timing thread without. *)

PublishLocks(t) ==
  /\ pc[t] = "publish" /\ Unlocked("publish")
  /\ owner' = [owner EXCEPT !["publish"] = t]
  /\ Goes(t, "check") /\ Stay

\* can_accept()
Check(t) ==
  /\ pc[t] = "check" /\ Unlocked("partition")
  /\ Goes(t, "push") /\ owner' = owner /\ Stay

Published(t) == IF t = Timer THEN "relock" ELSE "python"
Reference(t) == IF t = Timer THEN "shared" ELSE "own"

\* push() inserts.
Insert(t) ==
  /\ pc[t] = "push" /\ Unlocked("partition") /\ queued = "none"
  /\ queued' = Reference(t)
  /\ owner' = [owner EXCEPT !["publish"] = Free]
  /\ Goes(t, Published(t))
  /\ UNCHANGED <<requests, handling, switches>>

\* push() coalesces, which takes Python to merge or to drop what is replaced.
Coalesce(t) ==
  /\ pc[t] = "push" /\ Unlocked("partition") /\ queued # "none"
  /\ owner' = [owner EXCEPT !["partition"] = t]
  /\ Goes(t, "merge") /\ Stay

\* The merge callable makes a new object; the default merger takes the incoming
\* one.  The timing thread gives the GIL back.
MergeReturns(t) ==
  /\ pc[t] = "merge" /\ owner["gil"] = t
  /\ queued' = IF PythonMerger THEN "own" ELSE Reference(t)
  /\ owner' = [owner EXCEPT !["publish"] = Free, !["partition"] = Free,
                            !["gil"] = IF t = Timer THEN Free ELSE t]
  /\ Goes(t, Published(t))
  /\ UNCHANGED <<requests, handling, switches>>

PublishStep(t) ==
  PublishLocks(t) \/ Check(t) \/ Insert(t) \/ Coalesce(t) \/ MergeReturns(t)

----------------------------------------------------------------------------
(* The other calls of the bus.                                             *)

\* pending() takes the partition's mutex.
Pending(t) ==
  /\ pc[t] = "pending" /\ Unlocked("partition")
  /\ Goes(t, "python") /\ owner' = owner /\ Stay

\* subscribe() and unsubscribe() of other subscribers: the lifecycle mutex, then
\* the publish mutex.
Subscribe(t) ==
  /\ pc[t] = "subscribe" /\ Unlocked("lifecycle")
  /\ owner' = [owner EXCEPT !["lifecycle"] = t]
  /\ Goes(t, "register") /\ Stay

Register(t) ==
  /\ pc[t] = "register" /\ Unlocked("publish")
  /\ owner' = [owner EXCEPT !["lifecycle"] = Free]
  /\ Goes(t, "python") /\ Stay

Start(t) ==
  /\ pc[t] = "start" /\ Unlocked("lifecycle")
  /\ running' = TRUE
  /\ pc' = [pc EXCEPT ![t] = "python", ![Worker] = IF running THEN @ ELSE "poll"]
  /\ UNCHANGED <<owner, payloads, requests, halting>>

\* stop() joins the worker with the lifecycle mutex held.
Stop(t) ==
  /\ pc[t] = "stop" /\ Unlocked("lifecycle")
  /\ running' = FALSE
  /\ IF running THEN owner' = [owner EXCEPT !["lifecycle"] = t] /\ Goes(t, "join")
                ELSE owner' = owner /\ Goes(t, "python")
  /\ UNCHANGED <<payloads, requests, halting>>

StopJoins(t) ==
  /\ pc[t] = "join" /\ pc[Worker] = "off"
  /\ owner' = [owner EXCEPT !["lifecycle"] = Free]
  /\ Goes(t, "python") /\ Stay

BusStep(t) ==
  Pending(t) \/ Subscribe(t) \/ Register(t) \/ Start(t) \/ Stop(t) \/ StopJoins(t)

----------------------------------------------------------------------------
(* The scheduler's calls: schedule(), schedule_one() and pending_events    *)
(* keep the GIL, stop() ("halt") and start() ("resume") release it.        *)

\* A call refused, or that only counts the pending requests, adds none.
Schedule(t) ==
  /\ pc[t] = "schedule" /\ Unlocked("scheduler")
  /\ requests' = IF halting \/ requests = MaxRequests THEN requests ELSE requests + 1
  /\ Goes(t, "python") /\ UNCHANGED <<owner, payloads, switches>>

Halt(t) ==
  /\ pc[t] = "halt" /\ Unlocked("scheduler")
  /\ halting' = TRUE
  /\ Goes(t, "await timer") /\ UNCHANGED <<owner, payloads, requests, running>>

HaltJoins(t) ==
  /\ pc[t] = "await timer" /\ pc[Timer] = "off"
  /\ Goes(t, "python") /\ owner' = owner /\ Stay

Resume(t) ==
  /\ pc[t] = "resume" /\ Unlocked("scheduler")
  /\ halting' = FALSE
  /\ pc' = [pc EXCEPT ![t] = "python", ![Timer] = IF halting THEN "wait" ELSE @]
  /\ UNCHANGED <<owner, payloads, requests, running>>

SchedulerStep(t) == Schedule(t) \/ Halt(t) \/ HaltJoins(t) \/ Resume(t)

----------------------------------------------------------------------------
(* The timing thread: publishes what it takes from the heap, or fails to,  *)
(* and destroys it with m_mutex held.                                      *)

TimerExtracts ==
  /\ pc[Timer] = "wait" /\ Unlocked("scheduler")
  /\ ~halting /\ requests > 0
  /\ requests' = requests - 1
  /\ Goes(Timer, "publish") /\ UNCHANGED <<owner, payloads, switches>>

TimerExits ==
  /\ pc[Timer] = "wait" /\ Unlocked("scheduler") /\ halting
  /\ Goes(Timer, "off") /\ owner' = owner /\ Stay

\* publish_one() to a subscriber that is gone throws.
TimerFails ==
  /\ pc[Timer] = "publish" /\ Unlocked("publish")
  /\ Goes(Timer, "report") /\ owner' = owner /\ Stay

TimerReports ==
  /\ pc[Timer] = "report" /\ Unlocked("gil")
  /\ Goes(Timer, "relock") /\ owner' = owner /\ Stay

Shared == queued = "shared" \/ handling = "shared"
Unshared(payload) == IF payload = "shared" THEN "own" ELSE payload

\* m_mutex is locked again and `due` goes out of scope under it: when nothing
\* shares its payload, the deleter asks for the GIL.
TimerRelocks ==
  /\ pc[Timer] = "relock" /\ Unlocked("scheduler")
  /\ IF Shared THEN owner' = owner /\ Goes(Timer, "wait")
     ELSE owner' = [owner EXCEPT !["scheduler"] = Timer] /\ Goes(Timer, "destroy")
  /\ queued' = Unshared(queued) /\ handling' = Unshared(handling)
  /\ UNCHANGED <<requests, switches>>

TimerDestroys ==
  /\ pc[Timer] = "destroy" /\ Unlocked("gil")
  /\ owner' = [owner EXCEPT !["scheduler"] = Free]
  /\ Goes(Timer, "wait") /\ Stay

TimerStep ==
  \/ TimerExtracts \/ TimerExits \/ TimerFails \/ TimerReports \/ TimerRelocks
  \/ TimerDestroys

----------------------------------------------------------------------------
(* The worker: pops an event, runs the handler under the GIL, drops it.    *)

WorkerPops ==
  /\ pc[Worker] = "poll" /\ Unlocked("partition") /\ queued # "none"
  /\ handling' = queued /\ queued' = "none"
  /\ Goes(Worker, "python")
  /\ UNCHANGED <<owner, requests, switches>>

HandlerReturns ==
  /\ pc[Worker] = "python" /\ owner["gil"] = Worker
  /\ owner' = [owner EXCEPT !["gil"] = Free]
  /\ Goes(Worker, "discard") /\ Stay

WorkerDiscards ==
  /\ pc[Worker] = "discard" /\ (handling = "own" => Unlocked("gil"))
  /\ handling' = "none"
  /\ Goes(Worker, "poll")
  /\ UNCHANGED <<owner, queued, requests, switches>>

WorkerExits ==
  /\ pc[Worker] = "poll" /\ ~running
  /\ Goes(Worker, "off") /\ owner' = owner /\ Stay

WorkerStep == WorkerPops \/ HandlerReturns \/ WorkerDiscards \/ WorkerExits

----------------------------------------------------------------------------
Next ==
  \/ TimerStep \/ WorkerStep
  \/ \E t \in Threads : SwitchIn(t) \/ SwitchOut(t) \/ PublishStep(t)
  \/ \E t \in Clients \cup {Worker} :
       BusStep(t) \/ SchedulerStep(t) \/ \E call \in Calls : Call(t, call)

Spec == Init /\ [][Next]_vars

----------------------------------------------------------------------------
(* Who waits for whom                                                      *)

LockOf(state) ==
  CASE state \in {"python", "merge", "report", "destroy", "discard"} -> {"gil"}
    [] state \in {"publish", "register"} -> {"publish"}
    [] state \in {"check", "push", "pending", "poll"} -> {"partition"}
    [] state \in {"schedule", "halt", "resume", "wait", "relock"} -> {"scheduler"}
    [] state \in {"subscribe", "start", "stop"} -> {"lifecycle"}
    [] OTHER -> {}

WaitsFor(t) ==
  CASE pc[t] = "join" -> {Worker}
    [] pc[t] = "await timer" -> {Timer}
    [] pc[t] = "discard" /\ handling = "shared" -> {}
    [] OTHER -> {owner[l] : l \in LockOf(pc[t])} \ {Free, t}

\* Threads that wait for each other, none of which will ever go on.
Stuck(S) == S # {} /\ \A t \in S : WaitsFor(t) \cap S # {}

\* What a circular wait takes: a call that keeps the GIL while it blocks on a
\* native mutex.  start() and stop() never are that call, however long they wait
\* for threads that need the GIL ("start() and stop() release the GIL while
\* native lifecycle work runs").
StuckNeedsHeldGil ==
  \A S \in SUBSET Threads :
     Stuck(S) => \E t \in S : owner["gil"] = t /\ LockOf(pc[t]) # {}

\* A program that schedules nothing, merges nothing in Python and leaves the
\* subscribers alone while the bus is stopped never gets stuck: publishing from
\* clients and handlers, pending(), start() and stop() do not wait in a circle.
BusAloneIsSafe ==
  \A S \in SUBSET Threads :
     Stuck(S) => Timer \in S \/ \E t \in S : pc[t] \in {"merge", "subscribe", "register"}

\* "Subscriber callbacks may safely re-enter the scheduler or bus": a handler
\* that calls publish(), pending() or schedule() is not part of a circular wait.
CallbacksMayReenter ==
  \A S \in SUBSET Threads :
     Stuck(S) => Worker \notin S
                 \/ pc[Worker] \notin {"publish", "check", "push", "pending", "schedule"}
=============================================================================
