------------------------------ MODULE Evaluation ------------------------------
(***************************************************************************)
(* What the workers of the legacy layer do with the events they drain      *)
(* (source/context.cc, source/worker.cc): a client publishes an expression *)
(* to one worker, round robin, and waits on a ticket, or keeps the ticket  *)
(* for later; the worker evaluates it, feeds the outcome back to the model *)
(* that chose it, answers the ticket and gives the load back.  Commands    *)
(* are kept in a write-behind buffer and flushed in batches.               *)
(*                                                                         *)
(* How an event gets from the bus to its worker is the module Observer;    *)
(* here it is in the worker's queue.  The bookkeeper, the evaluator and    *)
(* the disk are not in the tree: a counter per device, a choice of outcome *)
(* and a set of rows.  Each client has an interpreter state of its own.    *)
(***************************************************************************)
EXTENDS Integers, Sequences, FiniteSets

CONSTANTS
  Clients,
  NumWorkers,    (* m_num_workers                                          *)
  Uses,          (* the requests each client makes: kind, and whether      *)
                 (* there is an expression                                 *)
  TraceLimit,    (* trace_u32_limit of the interpreter states              *)
  BatchSize,     (* kPersistenceBatchSize                                  *)
  MaxRequests,   (* bound on the requests of a run                         *)
  MaxFailures    (* bound on the stores that fail                          *)

Workers == 0 .. NumWorkers - 1
Devices == {"cpu", "gpu"}

ASSUME EvaluationAssumption ==
  /\ NumWorkers \in Nat \ {0} /\ TraceLimit \in Nat
  /\ Uses \in [Clients -> SUBSET [kind : {"f32", "word", "async", "command"},
                                  expression : BOOLEAN]]
  /\ BatchSize \in Nat \ {0} /\ MaxRequests \in Nat /\ MaxFailures \in Nat

VARIABLES
  inline,      (* m_inline_execution                                       *)
  asked,       (* the requests made so far, in order                       *)
  turn,        (* m_rr_expression_worker                                   *)
  pc,          (* where each client is, and with which request             *)
  queue,       (* requests on their way to a worker                        *)
  work,        (* which stage of which request a worker is at              *)
  done,        (* requests whose ticket is marked done                     *)
  references,  (* owners of the ticket of each request                     *)
  trace,       (* trace_u32 of each client's interpreter state             *)
  load,        (* what the bookkeeper counts for each device               *)
  buffer,      (* m_pending_events of each worker                          *)
  nextId,      (* m_next_event_id of each worker                           *)
  disk,        (* the rows each worker has stored                          *)
  told,        (* how many workers Context::stop() has told to stop        *)
  blamed,      (* history: the last bias entry lowered, and the failure    *)
  settled,     (* history: requests a worker has finished with             *)
  failures     (* history: stores that failed                              *)

asking == <<asked, turn, pc>>
tickets == <<done, references>>
persistence == <<buffer, nextId, disk, failures>>
feedback == <<trace, blamed>>
vars == <<inline, asking, queue, work, tickets, feedback, load, persistence, told, settled>>

None == -1
Idle == [at |-> "idle", of |-> None]

Init ==
  /\ inline \in BOOLEAN
  /\ asked = <<>> /\ turn = 0 /\ pc = [c \in Clients |-> Idle]
  /\ queue = [w \in Workers |-> {}] /\ work = [w \in Workers |-> Idle]
  /\ done = {} /\ references = <<>>
  /\ trace = [c \in Clients |-> <<>>] /\ load = [d \in Devices |-> 0]
  /\ buffer = [w \in Workers |-> <<>>] /\ nextId = [w \in Workers |-> 0]
  /\ disk = [w \in Workers |-> {}]
  /\ told = 0 /\ blamed = {} /\ settled = {} /\ failures = 0

----------------------------------------------------------------------------
(* Clients: publish_expression, publish_word_expression, ..._async         *)

Alive == \A w \in Workers : work[w].at # "gone"
Number == Len(asked) + 1
Goes(c, at, n) == pc' = [pc EXCEPT ![c] = [at |-> at, of |-> n]]
At(c, at) == pc[c].at = at
Counted(d, by) == load' = [load EXCEPT ![d] = @ + by]
Released(n) == [references EXCEPT ![n] = @ - 1]

\* make_shared, and a copy for the request.  Seeded bug: it has the raw pointer.
OnlyCaller == 1
CallerAndRequest == 2

Evaluated(use) == use.kind # "command" /\ (inline => use.expression)

\* The bookkeeper chooses a device and is charged.  A client that chose a byte has
\* put it into its trace.
Request(c, use, device) ==
  /\ Alive /\ At(c, "idle") /\ Len(asked) < MaxRequests
  /\ asked' = Append(asked, [kind |-> use.kind, expression |-> use.expression, client |-> c,
                             worker |-> turn % NumWorkers, device |-> device])
  /\ Counted(device, 1)
  /\ trace' = IF use.kind = "f32" THEN trace
              ELSE [trace EXCEPT ![c] = Append(@, [is |-> "byte", of |-> Number])]
  /\ UNCHANGED <<inline, work, done, blamed, persistence, told, settled>>

\* The request goes to the next worker in turn; the caller waits on the ticket, at
\* once or, when the call is asynchronous, later.
Publishes(c) ==
  /\ ~inline
  /\ \E use \in Uses[c], device \in Devices :
       /\ Evaluated(use) /\ Request(c, use, device)
  /\ Goes(c, "waiting", Number)
  /\ references' = Append(references, CallerAndRequest)
  /\ queue' = [queue EXCEPT ![turn % NumWorkers] = @ \cup {Number}]
  /\ turn' = turn + 1

\* With inline execution only an async request has a ticket.
StartsInline(c) ==
  /\ inline
  /\ \E use \in Uses[c], device \in Devices :
       /\ Evaluated(use) /\ Request(c, use, device)
       /\ references' = Append(references, IF use.kind = "async" THEN CallerAndRequest ELSE 0)
  /\ Goes(c, "evaluate", Number)
  /\ UNCHANGED <<queue, turn>>

Keeps == UNCHANGED <<inline, asked, turn, queue, work, done, feedback, load, persistence, told,
                     settled>>

\* The predicate of the wait, under the ticket's mutex: the result, or sleep.
Returns(c) ==
  /\ At(c, "waiting") /\ pc[c].of \in done
  /\ references' = Released(pc[c].of)
  /\ pc' = [pc EXCEPT ![c] = Idle] /\ Keeps

Sleeps(c) ==
  /\ At(c, "waiting") /\ pc[c].of \notin done
  /\ Goes(c, "asleep", pc[c].of) /\ Keeps /\ UNCHANGED references

WakesSpuriously(c) ==
  /\ At(c, "asleep") /\ Goes(c, "waiting", pc[c].of) /\ Keeps /\ UNCHANGED references

\* Whoever has an async ticket may drop it, and never uses that interpreter state
\* again.
Abandons(c) ==
  /\ At(c, "waiting") /\ asked[pc[c].of].kind = "async"
  /\ Goes(c, "left", pc[c].of)
  /\ references' = Released(pc[c].of) /\ Keeps

\* Commands go to a worker and nobody waits for them.
Commands(c, w) ==
  /\ Alive /\ ~inline /\ At(c, "idle") /\ Len(asked) < MaxRequests
  /\ \E use \in Uses[c] : use.kind = "command"
  /\ asked' = Append(asked, [kind |-> "command", expression |-> FALSE, client |-> c,
                             worker |-> w, device |-> "cpu"])
  /\ queue' = [queue EXCEPT ![w] = @ \cup {Number}]
  /\ references' = Append(references, 0)
  /\ UNCHANGED <<inline, turn, pc, work, done, feedback, load, persistence, told, settled>>

----------------------------------------------------------------------------
(* Evaluation and its feedback                                             *)

\* The trace makes room for one more entry, from the oldest on.
Recorded(t, n) ==
  Append(IF Len(t) < TraceLimit THEN t ELSE SubSeq(t, Len(t) + 2 - TraceLimit, Len(t)),
         [is |-> "code", of |-> n])

\* Seeded bug: the load of word requests goes back to the CPU as well.
AlwaysCpu(request) == "cpu"
\* Scalar requests are taken for CPU requests whatever was charged.
PoppedFrom(request) == IF request.kind = "f32" THEN "cpu" ELSE request.device

\* With inline execution the caller evaluates: no ticket for those who would
\* wait, an entry in the trace for async requests only, and the bias is left alone.
EvaluatesInline(c) ==
  /\ At(c, "evaluate")
  /\ LET n == pc[c].of  async == asked[n].kind = "async" IN
     /\ trace' = IF async /\ TraceLimit # 0 THEN [trace EXCEPT ![c] = Recorded(@, n)] ELSE trace
     /\ done' = IF async THEN done \cup {n} ELSE done
     /\ references' = IF async THEN Released(n) ELSE references
     /\ Counted(PoppedFrom(asked[n]), -1)
     /\ settled' = settled \cup {n}
     /\ IF async THEN Goes(c, "waiting", n) ELSE pc' = [pc EXCEPT ![c] = Idle]
  /\ UNCHANGED <<inline, asked, turn, queue, work, blamed, persistence, told>>

\* What the IMMEDIATE handler does, in order.  Seeded bugs: the ticket is
\* answered before the feedback, or its waiters woken before it is done.
AnswerFirst(kind) == <<"answer", "notify", "feedback", "settle">>
NotifyFirst(kind) == <<"feedback", "notify", "answer", "settle">>
Stages(kind) ==
  IF kind = "f32" THEN <<"answer", "notify", "settle">>
                  ELSE <<"feedback", "answer", "notify", "settle">>

Doing(w, stage) == work[w].at = stage
Moves(w, at, n) == work' = [work EXCEPT ![w] = [at |-> at, of |-> n]]
GoesOn(w) ==
  LET stages == Stages(asked[work[w].of].kind)
      i == CHOOSE k \in DOMAIN stages : stages[k] = work[w].at
  IN  Moves(w, stages[i + 1], work[w].of)

\* A request without an expression is only given back.
Takes(w) ==
  /\ Doing(w, "idle") /\ ~inline
  /\ \E n \in queue[w] :
       /\ asked[n].kind # "command"
       /\ queue' = [queue EXCEPT ![w] = @ \ {n}]
       /\ Moves(w, IF asked[n].expression THEN Stages(asked[n].kind)[1] ELSE "settle", n)
  /\ UNCHANGED <<inline, asking, tickets, feedback, load, persistence, told, settled>>

\* The outcome goes into the trace; after a failure the entry before it is taken
\* for the byte that was chosen, and its bias lowered.
FeedsBack(w) ==
  /\ Doing(w, "feedback")
  /\ LET n == work[w].of  c == asked[n].client  t == Recorded(trace[c], n) IN
     IF TraceLimit = 0
       THEN UNCHANGED feedback
       ELSE /\ trace' = [trace EXCEPT ![c] = t]
            /\ \E fails \in BOOLEAN :
                 blamed' = IF fails /\ Len(t) >= 2
                             THEN {[chosen |-> t[Len(t) - 1], failed |-> n]}
                             ELSE blamed
  /\ GoesOn(w)
  /\ UNCHANGED <<inline, asking, queue, tickets, load, persistence, told, settled>>

Answers(w) ==
  /\ Doing(w, "answer")
  /\ done' = done \cup {work[w].of}
  /\ GoesOn(w)
  /\ UNCHANGED <<inline, asking, queue, references, feedback, load, persistence, told, settled>>

Notifies(w) ==
  /\ Doing(w, "notify")
  /\ pc' = [c \in Clients |-> IF pc[c] = [at |-> "asleep", of |-> work[w].of]
                                THEN [pc[c] EXCEPT !.at = "waiting"] ELSE pc[c]]
  /\ GoesOn(w)
  /\ UNCHANGED <<inline, asked, turn, queue, tickets, feedback, load, persistence, told, settled>>

Settles(w) ==
  /\ Doing(w, "settle")
  /\ LET n == work[w].of IN
     /\ Counted(PoppedFrom(asked[n]), -1)
     /\ references' = Released(n)
     /\ settled' = settled \cup {n}
  /\ work' = [work EXCEPT ![w] = Idle]
  /\ UNCHANGED <<inline, asking, queue, done, feedback, persistence, told>>

----------------------------------------------------------------------------
(* Persistence                                                             *)

\* After a store has failed: seeded bug, the buffer is cleared all the same.
Dropped(rows) == <<>>
Kept(rows) == rows

\* flush(): a row and an id at a time, up to the first that cannot be stored.
Flush(w, rows) ==
  \E k \in 0 .. Len(rows) :
    /\ disk' = [disk EXCEPT ![w] = @ \cup {[id |-> nextId[w] + i, row |-> rows[i]] : i \in 1 .. k}]
    /\ IF k = Len(rows)
         THEN /\ buffer' = [buffer EXCEPT ![w] = <<>>]
              /\ nextId' = [nextId EXCEPT ![w] = @ + k]
              /\ UNCHANGED failures
         ELSE /\ failures < MaxFailures /\ failures' = failures + 1
              /\ buffer' = [buffer EXCEPT ![w] = Kept(rows)]
              /\ nextId' = [nextId EXCEPT ![w] = @ + k + 1]

\* dispatch() buffers what can be persisted, flushes a full batch, and routes.
Persists(w) ==
  /\ Doing(w, "idle") /\ ~inline
  /\ \E n \in queue[w] :
       /\ asked[n].kind = "command"
       /\ queue' = [queue EXCEPT ![w] = @ \ {n}]
       /\ settled' = settled \cup {n}
       /\ LET rows == Append(buffer[w], n) IN
          IF Len(rows) < BatchSize
            THEN buffer' = [buffer EXCEPT ![w] = rows] /\ UNCHANGED <<nextId, disk, failures>>
            ELSE Flush(w, rows)
  /\ UNCHANGED <<inline, asking, work, tickets, feedback, load, told>>

----------------------------------------------------------------------------
(* Context::stop() and ~ContextGuard()                                     *)

\* One worker after the other is told to stop and joined.
Tells ==
  /\ ~inline /\ told < NumWorkers
  /\ \A w \in Workers : w < told => Doing(w, "terminated")
  /\ told' = told + 1
  /\ UNCHANGED <<inline, asking, queue, work, tickets, feedback, load, persistence, settled>>

\* A worker may end with events in its partition (ReadsStop of Observer).
Terminates(w) ==
  /\ w < told /\ Doing(w, "idle")
  /\ Moves(w, "terminated", None)
  /\ UNCHANGED <<inline, asking, queue, tickets, feedback, load, persistence, told, settled>>

\* The events go with the bus, then ~Worker() flushes once more.
Destroys(w) ==
  /\ told = NumWorkers /\ Doing(w, "terminated")
  /\ \A v \in Workers : work[v].at \in {"terminated", "gone"}
  /\ \A c \in Clients :
       pc[c].at \in {"waiting", "asleep"} => asked[pc[c].of].kind = "async"
  /\ Flush(w, buffer[w])
  /\ queue' = [queue EXCEPT ![w] = {}]
  /\ references' = [n \in DOMAIN references |->
                      IF n \in queue[w] /\ asked[n].kind # "command" THEN references[n] - 1
                                                                     ELSE references[n]]
  /\ Moves(w, "gone", None)
  /\ UNCHANGED <<inline, asking, done, feedback, load, told, settled>>

----------------------------------------------------------------------------
Call(c) == Returns(c) \/ Sleeps(c) \/ EvaluatesInline(c)
ClientStep(c) ==
  \/ Publishes(c) \/ StartsInline(c) \/ Call(c) \/ WakesSpuriously(c) \/ Abandons(c)
  \/ \E w \in Workers : Commands(c, w)
WorkerStep(w) ==
  Takes(w) \/ FeedsBack(w) \/ Answers(w) \/ Notifies(w) \/ Settles(w) \/ Persists(w)

Next ==
  \/ Tells
  \/ \E c \in Clients : ClientStep(c)
  \/ \E w \in Workers : WorkerStep(w) \/ Terminates(w) \/ Destroys(w)

Spec == Init /\ [][Next]_vars

\* Calls go on and workers drain; a worker handles one event after the other, so
\* that each event it has is taken in the end.
FairSpec ==
  /\ Spec
  /\ \A c \in Clients : WF_vars(Call(c))
  /\ \A w \in Workers : WF_vars(WorkerStep(w))

----------------------------------------------------------------------------
Asked == DOMAIN asked
Evaluations == {n \in Asked : asked[n].kind # "command"}

\* The worker wakes the waiters after it has let go of the ticket's mutex, when
\* the caller may have returned and dropped its share: the ticket it notifies
\* still has an owner.  And once both have dropped it, nobody has it.
TicketOutlives ==
  /\ \A w \in Workers : work[w].at \in {"answer", "notify"} => references[work[w].of] > 0
  /\ \A n \in Evaluations : references[n] >= 0
  /\ told = 0 /\ (\A c \in Clients : At(c, "idle")) /\ Evaluations \subseteq settled
       => \A n \in Evaluations : references[n] = 0

\* "Teardown pushes chosen_byte before execution completes": the entry whose bias
\* is lowered was chosen for the request that failed, as long as nobody uses an
\* interpreter state while a request on it is under way.
BlamesChosen == \A b \in blamed : b.chosen = [is |-> "byte", of |-> b.failed]

\* What was charged and is not settled is what the bookkeeper counts, device by
\* device; except that a scalar request that was charged to the GPU goes back to
\* the CPU, and the GPU keeps its load for ever.
LoadAccounted ==
  LET open(d) == {n \in Evaluations \ settled : asked[n].device = d}
      stray == {n \in Evaluations \cap settled : asked[n].kind = "f32" /\ asked[n].device = "gpu"}
  IN  /\ load["gpu"] = Cardinality(open("gpu")) + Cardinality(stray)
      /\ load["cpu"] = Cardinality(open("cpu")) - Cardinality(stray)

\* A command that was dispatched is in its worker's buffer or on its disk, through
\* failing flushes and retries; on disk more than once only after a failure, never
\* two under one id; and after ~Worker() on disk, if no flush ever failed.
CommandsKept ==
  \A w \in Workers :
    LET buffered == {buffer[w][i] : i \in DOMAIN buffer[w]}
        copies(n) == {r \in disk[w] : r.row = n}
    IN  /\ \A n \in settled \ Evaluations : asked[n].worker = w =>
             /\ n \in buffered \/ copies(n) # {}
             /\ Cardinality(copies(n)) <= 1 + failures
        /\ \A r, s \in disk[w] : r.id = s.id => r = s
        /\ Doing(w, "gone") /\ failures = 0 => buffer[w] = <<>>

WaitsForAnswer(c) ==
  /\ At(c, "waiting") \/ At(c, "asleep")
  /\ asked[pc[c].of].expression /\ asked[pc[c].of].worker >= told

\* Whoever waits for an answer gets it: no notification is missed between the
\* predicate and the sleep.  Not for a request without an expression, whose ticket
\* nobody marks done, nor from a worker that was told to stop.
AnswersArrive == \A c \in Clients : []<>~WaitsForAnswer(c)
=============================================================================
