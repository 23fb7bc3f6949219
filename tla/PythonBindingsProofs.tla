------------------------- MODULE PythonBindingsProofs --------------------------
(***************************************************************************)
(* What circular waits of the Python module take, for any number of Python *)
(* threads and whatever calls they make, as long as the handlers neither   *)
(* start nor stop the bus that runs them.  The native mutexes are taken in *)
(* one order, lifecycle before publish before partition, with the joins    *)
(* outside; only the place of the GIL in that order varies.                *)
(***************************************************************************)
EXTENDS PythonBindings, TLAPS

\* A handler that called stop() would join its own thread.
HandlersLeaveLifecycle == {"start", "stop"} \cap Uses[Worker] = {}

\* Where a thread can be with the GIL, and with each native mutex.
GilStates ==
  {"python", "publish", "check", "push", "merge", "pending", "subscribe", "register", "schedule"}

OwnerStates ==
  [gil |-> GilStates, lifecycle |-> {"register", "join"}, publish |-> {"check", "push", "merge"},
   partition |-> {"merge"}, scheduler |-> {"destroy"}]

TimerStates ==
  {"wait", "off", "publish", "check", "push", "merge", "report", "relock", "destroy"}

Owners ==
  /\ owner \in [Locks -> Threads \cup {Free}]
  /\ pc = [t \in Threads |-> pc[t]]
  /\ \A l \in Locks, t \in Threads : owner[l] = t => pc[t] \in OwnerStates[l]
  \* subscribe() keeps it while it waits for the lifecycle mutex.
  /\ \A t \in Threads : pc[t] = "subscribe" => owner["gil"] = t
  \* The timing thread takes the GIL to merge and keeps it for nothing else.
  /\ owner["gil"] = Timer => pc[Timer] = "merge"
  /\ pc[Timer] \in TimerStates
  /\ owner["scheduler"] \in {Free, Timer}

MayHalt(t) == {"halt", "resume"} \cap Uses[t] # {}

\* Only threads that may make a lifecycle call are in it.
Callers ==
  \A t \in Threads :
     /\ pc[t] \in {"start", "stop", "join"} => t # Worker /\ t # Timer
     /\ pc[t] \in {"halt", "await timer", "resume"} =>
          t # Timer /\ MayHalt(t)
     /\ pc[t] \in {"register", "join"} => owner["lifecycle"] = t

\* What was stopped and not joined yet has somebody who waits to join it.
Joiners ==
  /\ pc[Worker] # "off" => running \/ \E t \in Threads : pc[t] = "join"
  /\ pc[Timer] # "off" => ~halting \/ \E t \in Threads : pc[t] = "await timer"

LocksInv == Owners /\ Callers /\ Joiners

\* The native threads are two, and none of them is a Python thread.
LEMMA Facts ==
  /\ Worker \in Threads /\ Timer \in Threads /\ Clients \subseteq Threads
  /\ Free \notin Threads /\ Worker # Timer /\ Worker \notin Clients /\ Timer \notin Clients
BY PythonAssumption DEF Threads

LEMMA InitOK == Init => LocksInv
<1> SUFFICES ASSUME Init PROVE LocksInv
  OBVIOUS
<1>1. Owners
  BY Facts DEF Init, Owners, Locks, TimerStates
<1>2. Callers /\ Joiners
  BY Facts DEF Init, Callers, Joiners
<1> QED BY <1>1, <1>2 DEF LocksInv

\* What a thread that moves on leaves alone.
LEMMA Moves ==
  ASSUME Owners, NEW t \in Threads, NEW state, Goes(t, state)
  PROVE  /\ pc'[t] = state
         /\ \A u \in Threads : u # t => pc'[u] = pc[u]
BY DEF Owners, Goes

LEMMA SwitchStep ==
  ASSUME LocksInv, NEW t \in Threads, SwitchIn(t) \/ SwitchOut(t)
  PROVE  LocksInv'
<1>1. Owners'
  BY Facts DEF LocksInv, Owners, SwitchIn, SwitchOut, InPython, Unlocked, Locks, OwnerStates,
               GilStates, TimerStates
<1>2. Callers'
  BY DEF LocksInv, Owners, Callers, SwitchIn, SwitchOut, Locks
<1>3. Joiners'
  <2>1. UNCHANGED <<pc, switches>>
    BY DEF SwitchIn, SwitchOut, Stay
  <2> QED BY <2>1 DEF LocksInv, Joiners, switches
<1> QED BY <1>1, <1>2, <1>3 DEF LocksInv

LEMMA CallStep ==
  ASSUME HandlersLeaveLifecycle, LocksInv,
         NEW t \in Clients \cup {Worker}, NEW call \in Calls, Call(t, call)
  PROVE  LocksInv'
<1>1. Owners'
  BY Facts DEF LocksInv, Owners, Call, GilDuring, Goes, Calls, Locks, OwnerStates, GilStates,
               TimerStates
<1>2. Callers'
  <2>1. Goes(t, call) /\ (t = Worker => call \notin {"start", "stop"}) /\ t # Timer
        /\ (call \in {"halt", "resume"} => MayHalt(t))
        /\ call \notin {"join", "await timer", "register"}
    BY Facts DEF Call, Calls, HandlersLeaveLifecycle, MayHalt
  <2>2. owner'["lifecycle"] = owner["lifecycle"]
    BY DEF LocksInv, Owners, Call, GilDuring, Locks
  <2> QED BY <2>1, <2>2, Facts, Moves DEF LocksInv, Callers
<1>3. Joiners'
  BY Facts, Moves DEF LocksInv, Joiners, Call, Stay, switches
<1> QED BY <1>1, <1>2, <1>3 DEF LocksInv

LEMMA PublishingStep ==
  ASSUME LocksInv, NEW t \in Threads, PublishStep(t)
  PROVE  LocksInv'
<1>1. Owners'
  BY Facts DEF LocksInv, Owners, PublishStep, PublishLocks, Check, Insert, Coalesce, MergeReturns,
               Published, Unlocked, Goes, Locks, OwnerStates, GilStates, TimerStates
<1>2. PICK state \in {"check", "push", "merge", "relock", "python"} :
        Goes(t, state) /\ pc[t] \notin {"off", "join", "await timer"}
  BY DEF PublishStep, PublishLocks, Check, Insert, Coalesce, MergeReturns, Published
<1>3. Callers'
  <2>1. owner'["lifecycle"] = owner["lifecycle"]
    BY DEF LocksInv, Owners, Locks, PublishStep, PublishLocks, Check, Insert, Coalesce,
           MergeReturns
  <2> QED BY <1>2, <2>1, Moves DEF LocksInv, Callers
<1>4. Joiners'
  <2>1. UNCHANGED switches
    BY DEF PublishStep, PublishLocks, Check, Insert, Coalesce, MergeReturns, Stay, switches
  <2> QED BY <1>2, <2>1, Facts, Moves DEF LocksInv, Joiners, switches
<1> QED BY <1>1, <1>3, <1>4 DEF LocksInv

LEMMA BusCallStep ==
  ASSUME LocksInv, NEW t \in Clients \cup {Worker}, BusStep(t)
  PROVE  LocksInv'
<1>1. CASE Pending(t) \/ Subscribe(t) \/ Register(t)
  <2>1. Owners'
    BY <1>1, Facts DEF LocksInv, Owners, Pending, Subscribe, Register, Unlocked, Goes, Locks,
                 OwnerStates, GilStates, TimerStates
  <2>2. PICK state \in {"register", "python"} :
          Goes(t, state) /\ pc[t] \in {"pending", "subscribe", "register"}
    BY <1>1 DEF Pending, Subscribe, Register
  <2>3. Callers'
    <3>1. CASE Pending(t)
      BY <2>2, <3>1, Facts, Moves DEF LocksInv, Callers, Pending
    <3>2. CASE Subscribe(t)
      <4>1. Goes(t, "register") /\ owner["lifecycle"] = Free /\ owner'["lifecycle"] = t
        BY <3>2 DEF LocksInv, Owners, Subscribe, Unlocked, Locks
      <4>2. \A u \in Threads : pc[u] \notin {"register", "join"}
        BY <4>1, Facts DEF LocksInv, Callers
      <4>3. pc'[t] = "register" /\ \A u \in Threads \ {t} : pc'[u] = pc[u]
        BY <4>1, Facts, Moves DEF LocksInv
      <4> QED BY <4>1, <4>2, <4>3 DEF LocksInv, Callers
    <3>3. CASE Register(t)
      <4>1. Goes(t, "python") /\ owner["lifecycle"] = t
        BY <3>3, Facts DEF LocksInv, Callers, Register
      <4>2. \A u \in Threads \ {t} : pc[u] \notin {"register", "join"}
        BY <4>1 DEF LocksInv, Callers
      <4> QED BY <4>1, <4>2, Facts, Moves DEF LocksInv, Callers
    <3> QED BY <1>1, <3>1, <3>2, <3>3
  <2>4. Joiners'
    <3>1. UNCHANGED switches
      BY <1>1 DEF Pending, Subscribe, Register, Stay
    <3> QED BY <2>2, <3>1, Facts, Moves DEF LocksInv, Joiners, switches
  <2> QED BY <2>1, <2>3, <2>4 DEF LocksInv
<1>2. CASE Start(t)
  <2>1. \A u \in Threads : pc[u] \notin {"join", "register"}
    BY <1>2, Facts DEF LocksInv, Callers, Start, Unlocked
  <2>2. t # Worker /\ (pc[Worker] # "off" => running)
    BY <1>2, <2>1, Facts DEF LocksInv, Callers, Joiners, Start
  <2>3. /\ pc'[t] = "python" /\ pc'[Worker] \in {pc[Worker], "poll"}
        /\ pc[Worker] # "off" => pc'[Worker] = pc[Worker]
        /\ \A u \in Threads \ {t, Worker} : pc'[u] = pc[u]
        /\ pc' = [u \in Threads |-> pc'[u]] /\ owner' = owner
    <3>1. pc' = [pc EXCEPT ![t] = "python", ![Worker] = IF running THEN @ ELSE "poll"]
          /\ owner' = owner
      BY <1>2 DEF Start
    <3>2. pc = [u \in Threads |-> pc[u]] /\ t \in Threads
      BY Facts DEF LocksInv, Owners
    <3>3. CASE running
      <4>1. pc' = [pc EXCEPT ![t] = "python"]
        BY <3>1, <3>2, <3>3, <2>2, Facts
      <4> QED BY <3>1, <3>2, <4>1, <2>2, Facts
    <3>4. CASE ~running
      <4>1. pc' = [pc EXCEPT ![t] = "python", ![Worker] = "poll"] /\ pc[Worker] = "off"
        BY <3>1, <3>4, <2>2
      <4> QED BY <3>1, <3>2, <4>1, <2>2, Facts
    <3> QED BY <3>3, <3>4
  <2>4. Owners'
    BY <1>2, <2>3, Facts DEF LocksInv, Owners, Start, Locks, OwnerStates, GilStates, TimerStates
  <2>5. Callers'
    BY <1>2, <2>1, <2>3, Facts DEF LocksInv, Callers, Start
  <2>6. Joiners'
    BY <1>2, <2>3, Facts DEF LocksInv, Joiners, Start
  <2> QED BY <2>4, <2>5, <2>6 DEF LocksInv
<1>3. CASE Stop(t)
  <2>1. PICK state \in {"join", "python"} : Goes(t, state) /\ (running => state = "join")
    BY <1>3 DEF Stop
  <2>2. t # Worker
    BY <1>3, Facts DEF LocksInv, Callers, Stop
  <2>3. Owners'
    BY <1>3, Facts DEF LocksInv, Owners, Stop, Unlocked, Goes, Locks, OwnerStates, GilStates,
                 TimerStates
  <2>4. Callers'
    <3>1. \A u \in Threads : pc[u] \notin {"join", "register"}
      BY <1>3, Facts DEF LocksInv, Callers, Stop, Unlocked
    <3>2. owner'["lifecycle"] = IF running THEN t ELSE owner["lifecycle"]
      BY <1>3 DEF LocksInv, Owners, Stop, Locks
    <3>3. state = "join" => running
      <4>1. ~running => Goes(t, "python")
        BY <1>3 DEF Stop
      <4> QED BY <4>1, <2>1, Facts, Moves DEF LocksInv
    <3> QED BY <2>1, <2>2, <3>1, <3>2, <3>3, <1>3, Facts, Moves DEF LocksInv, Callers, Stop
  <2>5. Joiners'
    <3>1. ASSUME pc'[Worker] # "off" PROVE \E u \in Threads : pc'[u] = "join"
      <4>1. pc[Worker] # "off"
        BY <3>1, <2>1, <2>2, Facts, Moves DEF LocksInv
      <4>2. \A u \in Threads : pc[u] # "join"
        BY <1>3, Facts DEF LocksInv, Callers, Stop, Unlocked
      <4> QED BY <4>1, <4>2, <2>1, Facts, Moves DEF LocksInv, Joiners
    <3>2. ASSUME pc'[Timer] # "off" PROVE ~halting' \/ \E u \in Threads : pc'[u] = "await timer"
      BY <3>2, <1>3, <2>1, Facts, Moves DEF LocksInv, Joiners, Stop
    <3> QED BY <3>1, <3>2 DEF Joiners
  <2> QED BY <2>3, <2>4, <2>5 DEF LocksInv
<1>4. CASE StopJoins(t)
  <2>1. Goes(t, "python") /\ pc[Worker] = "off" /\ pc[t] = "join" /\ t # Worker
    BY <1>4, Facts DEF StopJoins, LocksInv, Callers
  <2>2. owner["lifecycle"] = t
    BY <2>1, Facts DEF LocksInv, Callers
  <2>3. Owners'
    BY <1>4, <2>1, Facts DEF LocksInv, Owners, StopJoins, Goes, Locks, OwnerStates, GilStates,
                 TimerStates
  <2>4. Callers'
    <3>1. \A u \in Threads \ {t} : pc[u] \notin {"register", "join"}
      BY <2>2 DEF LocksInv, Callers
    <3>2. pc'[t] = "python" /\ \A u \in Threads \ {t} : pc'[u] = pc[u]
      BY <2>1, Facts, Moves DEF LocksInv
    <3> QED BY <3>1, <3>2 DEF LocksInv, Callers
  <2>5. Joiners'
    <3>1. UNCHANGED switches
      BY <1>4 DEF StopJoins, Stay
    <3> QED BY <2>1, <3>1, Facts, Moves DEF LocksInv, Joiners, switches
  <2> QED BY <2>3, <2>4, <2>5 DEF LocksInv
<1> QED BY <1>1, <1>2, <1>3, <1>4 DEF BusStep

LEMMA SchedulerCallStep ==
  ASSUME LocksInv, NEW t \in Clients \cup {Worker}, SchedulerStep(t)
  PROVE  LocksInv'
<1>1. UNCHANGED <<owner, running>>
  BY DEF SchedulerStep, Schedule, Halt, HaltJoins, Resume, Stay, switches
<1>2. CASE Schedule(t) \/ Halt(t) \/ HaltJoins(t)
  <2>1. PICK state \in {"python", "await timer"} :
          /\ Goes(t, state) /\ pc[t] \in {"schedule", "halt", "await timer"}
          /\ state = "await timer" => pc[t] = "halt"
          /\ pc[t] = "schedule" => halting' = halting /\ state = "python"
          /\ pc[t] = "halt" => state = "await timer"
          /\ pc[t] = "await timer" => pc[Timer] = "off"
    BY <1>2 DEF Schedule, Halt, HaltJoins, Stay, switches
  <2>2. Owners'
    <3>1. \A l \in Locks : owner[l] = t => l = "gil" /\ pc[t] = "schedule"
      BY <2>1, Facts DEF LocksInv, Owners, Locks, OwnerStates, GilStates
    <3>3. \A l \in Locks, u \in Threads : owner[l] = u => pc'[u] \in OwnerStates[l]
      <4>1. ASSUME NEW l \in Locks, owner[l] = t
            PROVE  "python" \in OwnerStates[l] /\ pc'[t] = "python"
        <5>1. l = "gil" /\ state = "python"
          BY <2>1, <3>1, <4>1
        <5> QED BY <2>1, <5>1, Facts, Moves DEF LocksInv, OwnerStates, GilStates
      <4>2. ASSUME NEW l \in Locks, NEW u \in Threads, u # t, owner[l] = u
            PROVE  pc'[u] \in OwnerStates[l]
        BY <2>1, <4>2, Facts, Moves DEF LocksInv, Owners
      <4> QED BY <4>1, <4>2
    <3>4. pc' = [u \in Threads |-> pc'[u]] /\ t \in Threads \ {Timer}
      BY <2>1, Facts DEF LocksInv, Owners, Goes
    <3>5. \A u \in Threads : pc'[u] = "subscribe" => owner["gil"] = u
      BY <2>1, <3>4, Facts, Moves DEF LocksInv, Owners
    <3>6. pc'[Timer] = pc[Timer]
      BY <2>1, <3>4, Facts, Moves DEF LocksInv
    <3> QED BY <1>1, <3>3, <3>4, <3>5, <3>6 DEF LocksInv, Owners
  <2>3. Callers'
    BY <1>1, <2>1, Facts, Moves DEF LocksInv, Callers
  <2>4. Joiners'
    <3>1. /\ pc'[Worker] # "off" => pc[Worker] # "off"
          /\ pc'[Timer] = pc[Timer] /\ pc'[t] = state
          /\ \A u \in Threads : u # t => pc'[u] = pc[u]
      BY <2>1, Facts, Moves DEF LocksInv
    <3>2. pc'[Worker] # "off" => running' \/ \E u \in Threads : pc'[u] = "join"
      BY <1>1, <2>1, <3>1 DEF LocksInv, Joiners
    <3>3. pc'[Timer] # "off" => ~halting' \/ \E u \in Threads : pc'[u] = "await timer"
      <4>1. CASE pc[t] = "schedule"
        BY <2>1, <3>1, <4>1 DEF LocksInv, Joiners
      <4>2. CASE pc[t] = "halt"
        BY <2>1, <3>1, <4>2, Facts
      <4>3. CASE pc[t] = "await timer"
        BY <2>1, <3>1, <4>3
      <4> QED BY <2>1, <4>1, <4>2, <4>3
    <3> QED BY <3>2, <3>3 DEF Joiners
  <2> QED BY <2>2, <2>3, <2>4 DEF LocksInv
<1>3. CASE Resume(t)
  <2>1. \A u \in Threads : pc[u] # "await timer"
    BY <1>3, PythonAssumption, Facts DEF LocksInv, Callers, Resume, Threads, MayHalt
  <2>2. pc[Timer] # "off" => ~halting
    BY <2>1 DEF LocksInv, Joiners
  <2>3. /\ pc'[t] = "python" /\ pc'[Timer] \in {pc[Timer], "wait"}
        /\ pc[Timer] # "off" => pc'[Timer] = pc[Timer]
        /\ \A u \in Threads \ {t, Timer} : pc'[u] = pc[u]
        /\ pc' = [u \in Threads |-> pc'[u]] /\ ~halting' /\ pc[t] = "resume"
    BY <1>3, <2>2, Facts DEF LocksInv, Owners, Resume
  <2>4. Owners'
    BY <1>1, <2>3, Facts DEF LocksInv, Owners, Locks, OwnerStates, GilStates, TimerStates
  <2>5. Callers'
    BY <1>1, <2>3, Facts DEF LocksInv, Callers
  <2>6. Joiners'
    BY <1>1, <2>3, Facts DEF LocksInv, Joiners
  <2> QED BY <2>4, <2>5, <2>6 DEF LocksInv
<1> QED BY <1>2, <1>3 DEF SchedulerStep

LEMMA TimerThreadStep ==
  ASSUME LocksInv, TimerStep
  PROVE  LocksInv'
<1>1. PICK state \in {"publish", "off", "report", "relock", "wait", "destroy"} :
        /\ Goes(Timer, state) /\ pc[Timer] \in {"wait", "publish", "report", "relock", "destroy"}
        /\ UNCHANGED switches
  BY DEF TimerStep, TimerExtracts, TimerExits, TimerFails, TimerReports, TimerRelocks,
         TimerDestroys, Stay, switches
<1>2. Owners'
  BY Facts DEF LocksInv, Owners, TimerStep, TimerExtracts, TimerExits, TimerFails, TimerReports,
         TimerRelocks, TimerDestroys, Unlocked, Goes, Stay, Locks, OwnerStates, GilStates,
         TimerStates
<1>3. Callers'
  <2>1. owner'["lifecycle"] = owner["lifecycle"]
    BY DEF LocksInv, Owners, Locks, TimerStep, TimerExtracts, TimerExits, TimerFails,
           TimerReports, TimerRelocks, TimerDestroys, Stay
  <2> QED BY <1>1, <2>1, Facts, Moves DEF LocksInv, Callers
<1>4. Joiners'
  BY <1>1, Facts, Moves DEF LocksInv, Joiners, switches
<1> QED BY <1>2, <1>3, <1>4 DEF LocksInv

LEMMA WorkerThreadStep ==
  ASSUME LocksInv, WorkerStep
  PROVE  LocksInv'
<1>1. PICK state \in {"python", "discard", "poll", "off"} :
        /\ Goes(Worker, state) /\ pc[Worker] \in {"poll", "python", "discard"}
        /\ UNCHANGED switches
  BY DEF WorkerStep, WorkerPops, HandlerReturns, WorkerDiscards, WorkerExits, Stay, switches
<1>2. Owners'
  BY Facts DEF LocksInv, Owners, WorkerStep, WorkerPops, HandlerReturns, WorkerDiscards,
         WorkerExits, Goes, Stay, Locks, OwnerStates, GilStates, TimerStates
<1>3. Callers'
  <2>1. owner'["lifecycle"] = owner["lifecycle"]
    BY DEF LocksInv, Owners, Locks, WorkerStep, WorkerPops, HandlerReturns, WorkerDiscards,
           WorkerExits
  <2> QED BY <1>1, <2>1, Facts, Moves DEF LocksInv, Callers
<1>4. Joiners'
  BY <1>1, Facts, Moves DEF LocksInv, Joiners, switches
<1> QED BY <1>2, <1>3, <1>4 DEF LocksInv

----------------------------------------------------------------------------
(* Nobody of a circle without a held GIL can be waiting for any lock: not  *)
(* for the GIL, so not for what is held by those who wait for it, and so   *)
(* on up the order.                                                        *)

LEMMA InCircle ==
  ASSUME NEW S \in SUBSET Threads, Stuck(S), NEW t \in S
  PROVE  /\ pc[t] = "join" => Worker \in S
         /\ pc[t] = "await timer" => Timer \in S
         /\ pc[t] \in {"join", "await timer"} \/ LockOf(pc[t]) # {}
         /\ \A l : LockOf(pc[t]) = {l} => owner[l] \in S \ {t}
<1>1. WaitsFor(t) \cap S # {}
  BY DEF Stuck
<1>2. pc[t] = "join" => WaitsFor(t) = {Worker}
  BY DEF WaitsFor
<1>3. pc[t] = "await timer" => WaitsFor(t) = {Timer}
  BY DEF WaitsFor
<1>4. pc[t] \notin {"join", "await timer"} /\ LockOf(pc[t]) = {} => WaitsFor(t) = {}
  BY DEF WaitsFor
<1>5. ASSUME NEW l, LockOf(pc[t]) = {l} PROVE owner[l] \in S \ {t}
  <2>1. pc[t] \notin {"join", "await timer"}
    BY <1>5 DEF LockOf
  <2>2. WaitsFor(t) = {} \/ WaitsFor(t) = {owner[k] : k \in LockOf(pc[t])} \ {Free, t}
    BY <2>1 DEF WaitsFor
  <2> QED BY <1>1, <1>5, <2>2
<1> QED BY <1>1, <1>2, <1>3, <1>4, <1>5

LEMMA NoCircle ==
  ASSUME LocksInv
  PROVE  StuckNeedsHeldGil
<1> SUFFICES ASSUME NEW S \in SUBSET Threads, Stuck(S),
                    \A t \in S : owner["gil"] = t => LockOf(pc[t]) = {}
             PROVE  FALSE
  BY DEF StuckNeedsHeldGil
<1> USE Facts
<1>1. ASSUME NEW l \in Locks, NEW t \in S, owner[l] = t PROVE pc[t] \in OwnerStates[l]
  BY <1>1 DEF LocksInv, Owners
<1>2. owner["gil"] \notin S
  BY <1>1 DEF Locks, OwnerStates, GilStates, LockOf
<1>3. \A t \in S : pc[t] \notin {"python", "merge", "report", "destroy", "discard"}
  BY <1>2, InCircle DEF LockOf
<1>4. owner["partition"] \notin S /\ owner["scheduler"] \notin S
  BY <1>1, <1>3 DEF Locks, OwnerStates
<1>5. \A t \in S : pc[t] \notin {"check", "push", "pending", "poll"}
  BY <1>4, InCircle DEF LockOf
<1>6. \A t \in S : pc[t] \notin {"schedule", "halt", "resume", "wait", "relock"}
  BY <1>4, InCircle DEF LockOf
<1>7. owner["publish"] \notin S
  BY <1>1, <1>3, <1>5 DEF Locks, OwnerStates
<1>8. \A t \in S : pc[t] \notin {"publish", "register"}
  BY <1>7, InCircle DEF LockOf
<1>9. \A t \in S : pc[t] # "subscribe"
  BY <1>2 DEF LocksInv, Owners
<1>10. \A t \in S : pc[t] \in {"join", "await timer", "start", "stop"}
  BY <1>3, <1>5, <1>6, <1>8, <1>9, InCircle DEF LockOf
<1>11. Timer \notin S
  BY <1>10 DEF LocksInv, Owners, TimerStates
<1>12. Worker \notin S
  BY <1>10, <1>11, InCircle DEF LocksInv, Callers
<1>13. owner["lifecycle"] \notin S
  BY <1>1, <1>8, <1>11, <1>12, InCircle DEF Locks, OwnerStates
<1> QED BY <1>10, <1>11, <1>12, <1>13, InCircle DEF LockOf, Stuck

\* Without the timing thread and a merge callable nobody waits for the GIL with a
\* native mutex held, but subscribe() and unsubscribe(): the GIL comes first, then
\* the same order.
LEMMA NoCircleInBus ==
  ASSUME LocksInv
  PROVE  BusAloneIsSafe
<1> SUFFICES ASSUME NEW S \in SUBSET Threads, Stuck(S), Timer \notin S,
                    \A t \in S : pc[t] \notin {"merge", "subscribe", "register"}
             PROVE  FALSE
  BY DEF BusAloneIsSafe
<1> USE Facts
<1>1. ASSUME NEW l \in Locks, NEW t \in S, owner[l] = t PROVE pc[t] \in OwnerStates[l]
  BY <1>1 DEF LocksInv, Owners
<1>2. \A t \in S : pc[t] \notin {"check", "push", "pending", "poll"}
  <2>1. owner["partition"] \notin S
    BY <1>1 DEF Locks, OwnerStates
  <2> QED BY <2>1, InCircle DEF LockOf
<1>3. \A t \in S : pc[t] # "publish"
  <2>1. owner["publish"] \notin S
    BY <1>1, <1>2 DEF Locks, OwnerStates
  <2> QED BY <2>1, InCircle DEF LockOf
<1>4. \A t \in S : pc[t] # "await timer"
  BY InCircle
<1>5. \A t \in S : pc[t] \notin {"schedule", "halt", "resume", "wait", "relock"}
  <2>1. owner["scheduler"] \notin S
    BY DEF LocksInv, Owners
  <2> QED BY <2>1, InCircle DEF LockOf
<1>6. \A t \in S : pc[t] \notin {"python", "report", "destroy", "discard"}
  <2>1. ASSUME owner["gil"] \in S PROVE pc[owner["gil"]] = "python"
    BY <2>1, <1>1, <1>2, <1>3, <1>5 DEF Locks, OwnerStates, GilStates
  <2>2. owner["gil"] \notin S
    BY <2>1, InCircle DEF LockOf
  <2> QED BY <2>2, InCircle DEF LockOf
<1>7. \A t \in S : pc[t] \in {"join", "start", "stop"}
  <2> TAKE t \in S
  <2>1. pc[t] \in {"join", "await timer"} \/ LockOf(pc[t]) # {}
    BY InCircle
  <2>2. pc[t] \notin {"merge", "subscribe", "register"}
    OBVIOUS
  <2> QED BY <2>1, <2>2, <1>2, <1>3, <1>4, <1>5, <1>6 DEF LockOf
<1>8. Worker \notin S
  BY <1>7, InCircle DEF LocksInv, Callers
<1>9. \A t \in S : pc[t] \in {"start", "stop"}
  BY <1>7, <1>8, InCircle
<1>10. owner["lifecycle"] \notin S
  BY <1>1, <1>9 DEF Locks, OwnerStates
<1> QED BY <1>9, <1>10, InCircle DEF LockOf, Stuck

LEMMA LocksStep ==
  ASSUME HandlersLeaveLifecycle, LocksInv, [Next]_vars
  PROVE  LocksInv'
<1>1. CASE UNCHANGED vars
  BY <1>1 DEF vars, switches, LocksInv, Owners, Callers, Joiners
<1>2. CASE Next
  BY <1>2, SwitchStep, CallStep, PublishingStep, BusCallStep, SchedulerCallStep,
     TimerThreadStep, WorkerThreadStep DEF Next
<1> QED BY <1>1, <1>2

\* Threads only wait for each other in a circle when one of them blocks with the GIL
\* held, which it does in a call other than start() and stop().
THEOREM CirclesHoldTheGil ==
  ASSUME HandlersLeaveLifecycle
  PROVE  Spec => []StuckNeedsHeldGil
BY InitOK, NoCircle, LocksStep, PTL DEF Spec

\* Publishing from Python threads and handlers, pending(), start() and stop() never
\* wait in a circle on their own: it takes the timing thread, a merge under way, or a
\* subscribe() or unsubscribe().
THEOREM BusCallsNeverCircle ==
  ASSUME HandlersLeaveLifecycle
  PROVE  Spec => []BusAloneIsSafe
BY InitOK, NoCircleInBus, LocksStep, PTL DEF Spec
=============================================================================
