--------------------------- MODULE EvaluationProofs ---------------------------
(***************************************************************************)
(* What workers do with requests, for any number of clients, workers and   *)
(* requests: who owns a ticket (TicketOutlives), what the bookkeeper       *)
(* counts (LoadAccounted), whose bias a failure lowers (BlamesChosen) and  *)
(* where a command is after failing flushes (CommandsKept).  The count of  *)
(* owners is explained by where the caller and the request are             *)
(* (SharesOK); that needs each request to be in one place, its own         *)
(* worker's queue or hands, and each client to be busy with a request of   *)
(* its own, and on this the other three rest as well.                      *)
(***************************************************************************)
EXTENDS Evaluation, FiniteSetTheorems, TLAPS

----------------------------------------------------------------------------
(* The inductive invariant                                                 *)

Requests == [kind : {"f32", "word", "async", "command"}, expression : BOOLEAN,
             client : Clients, worker : Workers, device : Devices]

Busy == {"feedback", "answer", "notify", "settle"}

Types ==
  /\ inline \in BOOLEAN
  /\ asked \in Seq(Requests) /\ turn \in Nat
  /\ pc \in [Clients -> [at : {"idle", "waiting", "asleep", "evaluate", "left"}, of : Int]]
  /\ queue \in [Workers -> SUBSET Int]
  /\ work \in [Workers -> [at : Busy \cup {"idle", "terminated", "gone"}, of : Int]]
  /\ references \in Seq(Int) /\ Len(references) = Len(asked)
  /\ settled \subseteq DOMAIN asked

\* A client is busy with an evaluation that it asked for.
ClientsOK ==
  \A c \in Clients :
    /\ pc[c].at = "idle" <=> pc[c].of = None
    /\ pc[c].at # "idle" => /\ pc[c].of \in DOMAIN asked
                            /\ asked[pc[c].of].client = c
                            /\ asked[pc[c].of].kind # "command"
    /\ pc[c].at = "evaluate" => inline /\ pc[c].of \notin settled

\* What a worker has was sent to it and is not settled; what it works on has
\* left its queue.
QueuesOK ==
  \A w \in Workers : \A n \in queue[w] :
    n \in DOMAIN asked /\ asked[n].worker = w /\ n \notin settled

WorkersOK ==
  \A w \in Workers :
    /\ work[w].at \in Busy =>
         /\ work[w].of \in DOMAIN asked \ (settled \cup queue[w])
         /\ asked[work[w].of].worker = w
         /\ asked[work[w].of].kind # "command"
         /\ work[w].at = "feedback" => asked[work[w].of].kind # "f32"
    /\ work[w].at \notin Busy => work[w].of = None

InlineOK ==
  inline => \A w \in Workers : queue[w] = {} /\ work[w].at \notin Busy

\* The two owners of a ticket: its caller, and the request itself.
CallerHas(n) ==
  LET c == asked[n].client IN
  /\ pc[c].of = n
  /\ \/ pc[c].at \in {"waiting", "asleep"}
     \/ pc[c].at = "evaluate" /\ asked[n].kind = "async"

RequestHas(n) ==
  LET c == asked[n].client  w == asked[n].worker IN
  \/ n \in queue[w] \/ work[w].of = n
  \/ pc[c].of = n /\ pc[c].at = "evaluate" /\ asked[n].kind = "async"

Owners(n) == (IF CallerHas(n) THEN 1 ELSE 0) + (IF RequestHas(n) THEN 1 ELSE 0)

SharesOK == \A n \in Evaluations : references[n] = Owners(n)

IInv == Types /\ ClientsOK /\ QueuesOK /\ WorkersOK /\ InlineOK /\ SharesOK

----------------------------------------------------------------------------
LEMMA OwnersCount ==
  ASSUME NEW n
  PROVE  Owners(n) \in 0 .. 2 /\ (RequestHas(n) => Owners(n) > 0)
         /\ (~CallerHas(n) /\ ~RequestHas(n) => Owners(n) = 0)
         /\ (CallerHas(n) /\ RequestHas(n) => Owners(n) = 2)
BY DEF Owners

LEMMA Known ==
  ASSUME Types, NEW n \in Evaluations
  PROVE  /\ n \in DOMAIN asked /\ n \in DOMAIN references /\ n \in Nat /\ n # None
         /\ asked[n].client \in Clients /\ asked[n].worker \in Workers
         /\ asked[n].kind \in {"f32", "word", "async"}
<1>1. n \in DOMAIN asked /\ asked[n].kind # "command"
  BY DEF Evaluations, Asked
<1>2. asked[n] \in Requests
  BY <1>1 DEF Types
<1>3. n \in DOMAIN references /\ n \in Nat /\ n # None
  BY <1>1 DEF Types, None
<1> QED BY <1>1, <1>2, <1>3 DEF Requests

\* The invariant says what TicketOutlives asks for.
LEMMA OwnersSuffice ==
  ASSUME IInv
  PROVE  TicketOutlives
<1> USE DEF IInv, SharesOK, Evaluations, Asked
<1>1. ASSUME NEW w \in Workers, work[w].at \in {"answer", "notify"}
      PROVE  references[work[w].of] > 0
  <2> DEFINE n == work[w].of
  <2>1. n \in Evaluations /\ asked[n].worker = w
    BY <1>1 DEF WorkersOK, Busy
  <2>2. RequestHas(n)
    BY <2>1 DEF RequestHas
  <2> QED BY <2>1, <2>2, OwnersCount
<1>2. ASSUME NEW n \in Evaluations PROVE references[n] >= 0
  BY OwnersCount
<1>3. ASSUME \A c \in Clients : At(c, "idle"), Evaluations \subseteq settled,
             NEW n \in Evaluations
      PROVE  references[n] = 0
  <2> DEFINE c == asked[n].client  w == asked[n].worker
  <2>1. n \in DOMAIN asked /\ c \in Clients /\ w \in Workers /\ n \in settled
    <3>1. n \in DOMAIN asked /\ n \in settled
      BY <1>3
    <3>2. asked[n] \in Requests
      BY <3>1 DEF Types
    <3> QED BY <3>1, <3>2 DEF Requests
  <2>2. n # None
    BY <2>1 DEF None, Types
  <2>3. pc[c].at = "idle" /\ pc[c].of = None
    BY <1>3, <2>1 DEF At, ClientsOK
  <2>4. ~CallerHas(n)
    BY <2>2, <2>3 DEF CallerHas
  <2>5. n \notin queue[w] /\ work[w].of # n
    BY <2>1, <2>2 DEF QueuesOK, WorkersOK
  <2>6. ~RequestHas(n)
    BY <2>2, <2>3, <2>5 DEF RequestHas
  <2> QED BY <2>4, <2>6, OwnersCount
<1> QED BY <1>1, <1>2, <1>3 DEF TicketOutlives

LEMMA InitOK ==
  ASSUME Init
  PROVE  IInv
<1> USE EvaluationAssumption DEF Init, Idle, None, Evaluations, Asked, Busy
<1>1. Types
  BY DEF Types
<1>2. ClientsOK /\ QueuesOK /\ WorkersOK /\ InlineOK /\ SharesOK
  BY DEF ClientsOK, QueuesOK, WorkersOK, InlineOK, SharesOK
<1> QED BY <1>1, <1>2 DEF IInv

----------------------------------------------------------------------------
(* New requests                                                            *)

LEMMA TurnsAreWorkers ==
  ASSUME turn \in Nat
  PROVE  turn % NumWorkers \in Workers
BY EvaluationAssumption DEF Workers

\* What appending a request does to the requests made so far.
LEMMA OneMore ==
  ASSUME Types, NEW r \in Requests, asked' = Append(asked, r)
  PROVE  /\ asked' \in Seq(Requests) /\ Len(asked') = Number
         /\ DOMAIN asked' = DOMAIN asked \cup {Number}
         /\ Number \in Nat /\ Number # None /\ Number \notin DOMAIN asked
         /\ asked'[Number] = r
         /\ \A n \in DOMAIN asked : asked'[n] = asked[n]
BY DEF Types, Number, None

\* The same for the counts of owners.
LEMMA OneMoreTicket ==
  ASSUME Types, NEW k \in Int, references' = Append(references, k)
  PROVE  /\ references' \in Seq(Int) /\ Len(references') = Number
         /\ references'[Number] = k
         /\ \A n \in DOMAIN asked : references'[n] = references[n]
BY DEF Types, Number

\* What a client asks for is an evaluation of its own.
LEMMA RequestMade ==
  ASSUME IInv, NEW c \in Clients, NEW use \in Uses[c], NEW device \in Devices,
         Evaluated(use), Request(c, use, device)
  PROVE  \E r \in Requests :
           /\ asked' = Append(asked, r)
           /\ r.client = c /\ r.worker = turn % NumWorkers
           /\ r.kind = use.kind /\ r.kind # "command"
           /\ pc[c].at = "idle" /\ pc[c].of = None
           /\ UNCHANGED <<inline, work, settled>>
<1> DEFINE r == [kind |-> use.kind, expression |-> use.expression, client |-> c,
                 worker |-> turn % NumWorkers, device |-> device]
<1>1. use.kind \in {"f32", "word", "async", "command"} /\ use.expression \in BOOLEAN
  BY EvaluationAssumption
<1>2. r \in Requests
  BY <1>1, TurnsAreWorkers DEF Requests, IInv, Types
<1>3. asked' = Append(asked, r) /\ pc[c].at = "idle" /\ UNCHANGED <<inline, work, settled>>
  BY DEF Request, At
<1>4. pc[c].of = None
  BY <1>3 DEF IInv, ClientsOK
<1> QED BY <1>2, <1>3, <1>4 DEF Evaluated

LEMMA PublishesStep ==
  ASSUME IInv, NEW c \in Clients, Publishes(c)
  PROVE  IInv'
<1> USE DEF IInv
<1>1. PICK r \in Requests :
        /\ asked' = Append(asked, r)
        /\ r.client = c /\ r.worker = turn % NumWorkers /\ r.kind # "command"
        /\ pc[c].at = "idle" /\ pc[c].of = None
        /\ UNCHANGED <<inline, work, settled>>
  BY RequestMade DEF Publishes
<1>2. /\ asked' \in Seq(Requests) /\ Len(asked') = Number
      /\ DOMAIN asked' = DOMAIN asked \cup {Number}
      /\ Number \in Nat /\ Number # None /\ Number \notin DOMAIN asked
      /\ asked'[Number] = r
      /\ \A n \in DOMAIN asked : asked'[n] = asked[n]
  BY <1>1, OneMore
<1>3. /\ references' \in Seq(Int) /\ Len(references') = Number
      /\ references'[Number] = 2
      /\ \A n \in DOMAIN asked : references'[n] = references[n]
  <2>1. PICK k \in Int : k = 2 /\ references' = Append(references, k)
    BY DEF Publishes, CallerAndRequest
  <2> QED BY <2>1, OneMoreTicket
<1>4. /\ pc' = [pc EXCEPT ![c] = [at |-> "waiting", of |-> Number]]
      /\ queue' = [queue EXCEPT ![r.worker] = @ \cup {Number}]
      /\ turn' = turn + 1 /\ ~inline /\ r.worker \in Workers
  BY <1>1 DEF Publishes, Goes, Requests
<1> HIDE DEF Number
<1>5. Types'
  BY <1>1, <1>2, <1>3, <1>4 DEF Types
<1>6. ClientsOK'
  BY <1>1, <1>2, <1>4 DEF Types, ClientsOK
<1>7. QueuesOK'
  BY <1>1, <1>2, <1>4 DEF Types, QueuesOK
<1>8. WorkersOK' /\ InlineOK'
  BY <1>1, <1>2, <1>4 DEF Types, WorkersOK, InlineOK
<1>9. SharesOK'
  <2> SUFFICES ASSUME NEW n \in Evaluations' PROVE references'[n] = Owners(n)'
    BY DEF SharesOK
  <2>1. CASE n = Number
    <3>1. CallerHas(n)' /\ RequestHas(n)'
      BY <2>1, <1>1, <1>2, <1>4 DEF CallerHas, RequestHas, Types
    <3> QED BY <3>1, <2>1, <1>3 DEF Owners
  <2>2. CASE n # Number
    <3>1. n \in DOMAIN asked /\ asked'[n] = asked[n] /\ n \in Evaluations
      BY <2>2, <1>2 DEF Evaluations, Asked
    <3>2. n # None
      BY <3>1 DEF None, Types
    <3>3. (CallerHas(n)' <=> CallerHas(n)) /\ (RequestHas(n)' <=> RequestHas(n))
      BY <3>1, <3>2, <2>2, <1>1, <1>4 DEF CallerHas, RequestHas, Types, Requests
    <3> QED BY <3>1, <3>3, <1>3 DEF Owners, SharesOK
  <2> QED BY <2>1, <2>2
<1> QED BY <1>5, <1>6, <1>7, <1>8, <1>9

LEMMA StartsInlineStep ==
  ASSUME IInv, NEW c \in Clients, StartsInline(c)
  PROVE  IInv'
<1> USE DEF IInv
<1>0. PICK use \in Uses[c], device \in Devices :
        /\ Evaluated(use) /\ Request(c, use, device)
        /\ references' = Append(references, IF use.kind = "async" THEN CallerAndRequest ELSE 0)
  BY DEF StartsInline
<1>1. PICK r \in Requests :
        /\ asked' = Append(asked, r)
        /\ r.client = c /\ r.kind = use.kind /\ r.kind # "command"
        /\ pc[c].at = "idle" /\ pc[c].of = None
        /\ UNCHANGED <<inline, work, settled>>
  BY <1>0, RequestMade
<1>2. /\ asked' \in Seq(Requests) /\ Len(asked') = Number
      /\ DOMAIN asked' = DOMAIN asked \cup {Number}
      /\ Number \in Nat /\ Number # None /\ Number \notin DOMAIN asked
      /\ asked'[Number] = r
      /\ \A n \in DOMAIN asked : asked'[n] = asked[n]
  BY <1>1, OneMore
<1>3. /\ references' \in Seq(Int) /\ Len(references') = Number
      /\ references'[Number] = IF r.kind = "async" THEN 2 ELSE 0
      /\ \A n \in DOMAIN asked : references'[n] = references[n]
  <2>1. PICK k \in Int : k = (IF r.kind = "async" THEN 2 ELSE 0) /\ references' = Append(references, k)
    BY <1>0, <1>1 DEF CallerAndRequest
  <2> QED BY <2>1, OneMoreTicket
<1>4. /\ pc' = [pc EXCEPT ![c] = [at |-> "evaluate", of |-> Number]]
      /\ UNCHANGED <<queue, turn>> /\ inline
  BY DEF StartsInline, Goes
<1> HIDE DEF Number
<1>5. Types'
  BY <1>1, <1>2, <1>3, <1>4 DEF Types
<1>6. ClientsOK'
  BY <1>1, <1>2, <1>4 DEF Types, ClientsOK
<1>7. QueuesOK' /\ WorkersOK' /\ InlineOK'
  BY <1>1, <1>2, <1>4 DEF Types, QueuesOK, WorkersOK, InlineOK
<1>9. SharesOK'
  <2> SUFFICES ASSUME NEW n \in Evaluations' PROVE references'[n] = Owners(n)'
    BY DEF SharesOK
  <2>1. CASE n = Number
    <3>1. asked'[n].worker \in Workers /\ asked'[n].client = c /\ asked'[n].kind = r.kind
      BY <2>1, <1>1, <1>2 DEF Requests
    <3>2. queue'[asked'[n].worker] = {} /\ work'[asked'[n].worker].of # n
      BY <3>1, <2>1, <1>1, <1>2, <1>4 DEF InlineOK, WorkersOK
    <3>3. (CallerHas(n)' <=> r.kind = "async") /\ (RequestHas(n)' <=> r.kind = "async")
      BY <2>1, <3>1, <3>2, <1>4 DEF CallerHas, RequestHas, Types
    <3> QED BY <3>3, <2>1, <1>3 DEF Owners
  <2>2. CASE n # Number
    <3>1. n \in DOMAIN asked /\ asked'[n] = asked[n] /\ n \in Evaluations
      BY <2>2, <1>2 DEF Evaluations, Asked
    <3>2. n # None
      BY <3>1 DEF None, Types
    <3>3. (CallerHas(n)' <=> CallerHas(n)) /\ (RequestHas(n)' <=> RequestHas(n))
      BY <3>1, <3>2, <2>2, <1>1, <1>4 DEF CallerHas, RequestHas, Types, Requests
    <3> QED BY <3>1, <3>3, <1>3 DEF Owners, SharesOK
  <2> QED BY <2>1, <2>2
<1> QED BY <1>5, <1>6, <1>7, <1>9

LEMMA CommandsStep ==
  ASSUME IInv, NEW c \in Clients, NEW w \in Workers, Commands(c, w)
  PROVE  IInv'
<1> USE DEF IInv
<1> DEFINE r == [kind |-> "command", expression |-> FALSE, client |-> c, worker |-> w,
                 device |-> "cpu"]
<1>1. r \in Requests /\ asked' = Append(asked, r)
  BY DEF Requests, Commands, Devices
<1>2. /\ asked' \in Seq(Requests) /\ Len(asked') = Number
      /\ DOMAIN asked' = DOMAIN asked \cup {Number}
      /\ Number \in Nat /\ Number # None /\ Number \notin DOMAIN asked
      /\ asked'[Number] = r
      /\ \A n \in DOMAIN asked : asked'[n] = asked[n]
  BY <1>1, OneMore
<1>3. /\ references' \in Seq(Int) /\ Len(references') = Number
      /\ \A n \in DOMAIN asked : references'[n] = references[n]
  <2>1. PICK k \in Int : k = 0 /\ references' = Append(references, k)
    BY DEF Commands
  <2> QED BY <2>1, OneMoreTicket
<1>4. /\ queue' = [queue EXCEPT ![w] = @ \cup {Number}] /\ ~inline
      /\ UNCHANGED <<inline, turn, pc, work, settled>>
  BY DEF Commands
<1>10. r.worker = w /\ r.kind = "command"
  OBVIOUS
<1> HIDE DEF Number, r
<1>5. Types'
  <2>1. queue' \in [Workers -> SUBSET Int]
    BY <1>2, <1>4 DEF Types
  <2>2. settled' \subseteq DOMAIN asked'
    BY <1>2, <1>4 DEF Types
  <2> QED BY <2>1, <2>2, <1>2, <1>3, <1>4 DEF Types
<1>6. ClientsOK'
  BY <1>2, <1>4 DEF Types, ClientsOK
<1>7. QueuesOK'
  <2> SUFFICES ASSUME NEW v \in Workers, NEW n \in queue'[v]
               PROVE  n \in DOMAIN asked' /\ asked'[n].worker = v /\ n \notin settled'
    BY DEF QueuesOK
  <2>1. n \in queue[v] \/ (n = Number /\ v = w)
    BY <1>4 DEF Types
  <2>2. CASE n \in queue[v]
    <3>1. n \in DOMAIN asked /\ asked[n].worker = v /\ n \notin settled
      BY <2>2 DEF QueuesOK
    <3> QED BY <3>1, <1>2, <1>4
  <2>3. CASE n = Number /\ v = w
    BY <2>3, <1>2, <1>4, <1>10 DEF Types
  <2> QED BY <2>1, <2>2, <2>3
<1>8. WorkersOK' /\ InlineOK'
  BY <1>2, <1>4 DEF Types, WorkersOK, InlineOK
<1>9. SharesOK'
  <2> SUFFICES ASSUME NEW n \in Evaluations' PROVE references'[n] = Owners(n)'
    BY DEF SharesOK
  <2>1. n # Number /\ n \in DOMAIN asked /\ asked'[n] = asked[n] /\ n \in Evaluations
    BY <1>2, <1>10 DEF Evaluations, Asked
  <2>2. (CallerHas(n)' <=> CallerHas(n)) /\ (RequestHas(n)' <=> RequestHas(n))
    BY <2>1, <1>4 DEF CallerHas, RequestHas, Types, Requests
  <2> QED BY <2>1, <2>2, <1>3 DEF Owners, SharesOK
<1> QED BY <1>5, <1>6, <1>7, <1>8, <1>9

----------------------------------------------------------------------------
(* Callers                                                                 *)

\* A caller that goes on from request n to something that is not evaluation:
\* nothing moves but its own share.
LEMMA CallerMoves ==
  ASSUME IInv, NEW c \in Clients, NEW at \in {"waiting", "asleep", "left"},
         pc[c].at \in {"waiting", "asleep"},
         pc' = [pc EXCEPT ![c] = [at |-> at, of |-> pc[c].of]],
         references' = IF at = "left" THEN Released(pc[c].of) ELSE references,
         UNCHANGED <<inline, asked, turn, queue, work, settled>>
  PROVE  IInv'
<1> USE DEF IInv
<1> DEFINE m == pc[c].of
<1>1. m \in DOMAIN asked /\ asked[m].client = c /\ m # None /\ m \in DOMAIN references
  BY DEF Types, ClientsOK, None
<1>2. Types'
  BY <1>1 DEF Types, Released
<1>3. ClientsOK'
  BY DEF Types, ClientsOK
<1>4. QueuesOK' /\ WorkersOK' /\ InlineOK'
  BY DEF Types, QueuesOK, WorkersOK, InlineOK
<1>5. SharesOK'
  <2> SUFFICES ASSUME NEW n \in Evaluations PROVE references'[n] = Owners(n)'
    BY DEF SharesOK, Evaluations, Asked
  <2>0. n \in DOMAIN asked /\ n \in DOMAIN references /\ asked[n].client \in Clients
    BY Known
  <2>1. RequestHas(n)' <=> RequestHas(n)
    BY <2>0, <1>1 DEF RequestHas, Types
  <2>2. CASE n = m
    <3>1. CallerHas(n) /\ (CallerHas(n)' <=> at # "left")
      BY <2>2, <1>1 DEF CallerHas, Types
    <3>2. references'[n] = IF at = "left" THEN references[n] - 1 ELSE references[n]
      BY <2>0, <2>2 DEF Released, Types
    <3> QED BY <3>1, <3>2, <2>1 DEF Owners, SharesOK
  <2>3. CASE n # m
    <3>1. CallerHas(n)' <=> CallerHas(n)
      BY <2>0, <2>3, <1>1 DEF CallerHas, Types
    <3>2. references'[n] = references[n]
      BY <2>0, <2>3 DEF Released, Types
    <3> QED BY <3>1, <3>2, <2>1 DEF Owners, SharesOK
  <2> QED BY <2>2, <2>3
<1> QED BY <1>2, <1>3, <1>4, <1>5

LEMMA ReturnsStep ==
  ASSUME IInv, NEW c \in Clients, Returns(c)
  PROVE  IInv'
<1> USE DEF IInv
<1> DEFINE m == pc[c].of
<1>0. /\ pc[c].at = "waiting"
      /\ references' = [references EXCEPT ![m] = @ - 1]
      /\ pc' = [pc EXCEPT ![c] = [at |-> "idle", of |-> None]]
      /\ UNCHANGED <<inline, asked, turn, queue, work, settled>>
  BY DEF Returns, At, Released, Keeps, Idle
<1>1. m \in DOMAIN asked /\ asked[m].client = c /\ m # None /\ m \in DOMAIN references
  BY <1>0 DEF Types, ClientsOK, None
<1>2. Types'
  BY <1>0, <1>1 DEF Types, None
<1>3. ClientsOK'
  BY <1>0 DEF Types, ClientsOK
<1>4. QueuesOK' /\ WorkersOK' /\ InlineOK'
  BY <1>0 DEF Types, QueuesOK, WorkersOK, InlineOK
<1>5. SharesOK'
  <2> SUFFICES ASSUME NEW n \in Evaluations PROVE references'[n] = Owners(n)'
    BY <1>0 DEF SharesOK, Evaluations, Asked
  <2>0. n \in DOMAIN asked /\ n \in DOMAIN references /\ asked[n].client \in Clients /\ n # None
    BY Known
  <2>1. RequestHas(n)' <=> RequestHas(n)
    BY <2>0, <1>0, <1>1 DEF RequestHas, Types
  <2>2. CASE n = m
    <3>1. CallerHas(n) /\ ~CallerHas(n)'
      BY <2>2, <1>0, <1>1 DEF CallerHas, Types
    <3>2. references'[n] = references[n] - 1
      BY <2>0, <2>2, <1>0 DEF Types
    <3> QED BY <3>1, <3>2, <2>1 DEF Owners, SharesOK
  <2>3. CASE n # m
    <3>1. CallerHas(n)' <=> CallerHas(n)
      BY <2>0, <2>3, <1>0, <1>1 DEF CallerHas, Types
    <3>2. references'[n] = references[n]
      BY <2>0, <2>3, <1>0 DEF Types
    <3> QED BY <3>1, <3>2, <2>1 DEF Owners, SharesOK
  <2> QED BY <2>2, <2>3
<1> QED BY <1>2, <1>3, <1>4, <1>5

\* With inline execution the caller is the worker as well.
LEMMA EvaluatesInlineStep ==
  ASSUME IInv, NEW c \in Clients, EvaluatesInline(c)
  PROVE  IInv'
<1> USE DEF IInv
<1> DEFINE m == pc[c].of
           async == asked[m].kind = "async"
<1>0. /\ pc[c].at = "evaluate"
      /\ references' = IF async THEN [references EXCEPT ![m] = @ - 1] ELSE references
      /\ pc' = [pc EXCEPT ![c] = IF async THEN [at |-> "waiting", of |-> m]
                                          ELSE [at |-> "idle", of |-> None]]
      /\ settled' = settled \cup {m}
      /\ UNCHANGED <<inline, asked, turn, queue, work>>
  BY DEF EvaluatesInline, At, Released, Goes, Idle
<1>1. /\ m \in DOMAIN asked /\ asked[m].client = c /\ m # None /\ m \in DOMAIN references
      /\ asked[m].kind # "command" /\ inline
  BY <1>0 DEF Types, ClientsOK, None
<1>2. Types'
  BY <1>0, <1>1 DEF Types, None
<1>3. ClientsOK'
  BY <1>0, <1>1 DEF Types, ClientsOK
<1>4. QueuesOK' /\ WorkersOK' /\ InlineOK'
  BY <1>0, <1>1 DEF Types, QueuesOK, WorkersOK, InlineOK
<1>5. SharesOK'
  <2> SUFFICES ASSUME NEW n \in Evaluations PROVE references'[n] = Owners(n)'
    BY <1>0 DEF SharesOK, Evaluations, Asked
  <2>0. /\ n \in DOMAIN asked /\ n \in DOMAIN references /\ asked[n].client \in Clients
        /\ asked[n].worker \in Workers /\ n # None
    BY Known
  <2>1. queue[asked[n].worker] = {} /\ work[asked[n].worker].of # n
    BY <2>0, <1>1 DEF InlineOK, WorkersOK
  <2>2. CASE n = m
    <3>1. (CallerHas(n) <=> async) /\ (RequestHas(n) <=> async)
      BY <2>1, <2>2, <1>0, <1>1 DEF CallerHas, RequestHas
    <3>2. (CallerHas(n)' <=> async) /\ ~RequestHas(n)'
      BY <2>1, <2>2, <1>0, <1>1 DEF CallerHas, RequestHas, Types
    <3>3. references'[n] = IF async THEN references[n] - 1 ELSE references[n]
      BY <2>0, <2>2, <1>0 DEF Types
    <3> QED BY <3>1, <3>2, <3>3 DEF Owners, SharesOK
  <2>3. CASE n # m
    <3>1. (CallerHas(n)' <=> CallerHas(n)) /\ (RequestHas(n)' <=> RequestHas(n))
      BY <2>0, <2>3, <1>0, <1>1 DEF CallerHas, RequestHas, Types
    <3>2. references'[n] = references[n]
      BY <2>0, <2>3, <1>0 DEF Types
    <3> QED BY <3>1, <3>2 DEF Owners, SharesOK
  <2> QED BY <2>2, <2>3
<1> QED BY <1>2, <1>3, <1>4, <1>5

----------------------------------------------------------------------------
(* Workers                                                                 *)

\* The stages of the handler follow each other up to the last one.
LEMMA NextStage ==
  ASSUME IInv, NEW w \in Workers, work[w].at \in {"feedback", "answer", "notify"}, GoesOn(w)
  PROVE  \E at \in {"answer", "notify", "settle"} :
           work' = [work EXCEPT ![w] = [at |-> at, of |-> work[w].of]]
<1> DEFINE kind == asked[work[w].of].kind
           i == CHOOSE k \in DOMAIN Stages(kind) : Stages(kind)[k] = work[w].at
<1>1. work[w].at = "feedback" => kind # "f32"
  BY DEF IInv, WorkersOK, Busy
<1>2. Stages(kind)[i + 1] \in {"answer", "notify", "settle"}
  <2>1. CASE kind = "f32"
    <3>1. Stages(kind) = <<"answer", "notify", "settle">>
      BY <2>1 DEF Stages
    <3>0. DOMAIN Stages(kind) = {1, 2, 3}
      BY <3>1
    <3>2. CASE work[w].at = "answer"
      <4>1. \A k \in {1, 2, 3} : Stages(kind)[k] = work[w].at <=> k = 1
        BY <3>1, <3>2
      <4>2. i = 1
        BY <3>0, <4>1
      <4>3. Stages(kind)[2] = "notify"
        BY <3>1
      <4> HIDE DEF i
      <4> QED BY <4>2, <4>3
    <3>3. CASE work[w].at = "notify"
      <4>1. \A k \in {1, 2, 3} : Stages(kind)[k] = work[w].at <=> k = 2
        BY <3>1, <3>3
      <4>2. i = 2
        BY <3>0, <4>1
      <4>3. Stages(kind)[3] = "settle"
        BY <3>1
      <4> HIDE DEF i
      <4> QED BY <4>2, <4>3
    <3> QED BY <1>1, <2>1, <3>2, <3>3
  <2>2. CASE kind # "f32"
    <3>1. Stages(kind) = <<"feedback", "answer", "notify", "settle">>
      BY <2>2 DEF Stages
    <3>2. CASE work[w].at = "feedback"
      <4>1. i = 1
        BY <3>1, <3>2
      <4> QED BY <3>1, <4>1
    <3>3. CASE work[w].at = "answer"
      <4>1. i = 2
        BY <3>1, <3>3
      <4> QED BY <3>1, <4>1
    <3>4. CASE work[w].at = "notify"
      <4>1. i = 3
        BY <3>1, <3>4
      <4> QED BY <3>1, <4>1
    <3> QED BY <3>2, <3>3, <3>4
  <2> QED BY <2>1, <2>2
<1>3. work' = [work EXCEPT ![w] = [at |-> Stages(kind)[i + 1], of |-> work[w].of]]
  BY DEF GoesOn, Moves
<1> QED BY <1>2, <1>3

\* A worker that goes on with its request, and perhaps wakes its caller.
LEMMA HandlerStep ==
  ASSUME IInv, NEW w \in Workers, FeedsBack(w) \/ Answers(w) \/ Notifies(w)
  PROVE  IInv'
<1> USE DEF IInv
<1>1. PICK at \in {"answer", "notify", "settle"} :
        work' = [work EXCEPT ![w] = [at |-> at, of |-> work[w].of]]
  <2>1. work[w].at \in {"feedback", "answer", "notify"} /\ GoesOn(w)
    BY DEF FeedsBack, Answers, Notifies, Doing
  <2> QED BY <2>1, NextStage
<1>2. /\ UNCHANGED <<inline, asked, turn, queue, references, settled>>
      /\ work[w].at \in Busy
  BY DEF FeedsBack, Answers, Notifies, Doing, tickets, asking, Busy
<1>3. /\ pc' \in [Clients -> [at : {"idle", "waiting", "asleep", "evaluate", "left"}, of : Int]]
      /\ \A c \in Clients : \/ pc'[c] = pc[c]
                            \/ /\ pc'[c].of = pc[c].of
                               /\ pc[c].at = "asleep" /\ pc'[c].at = "waiting"
  <2>1. CASE UNCHANGED pc
    BY <2>1 DEF Types
  <2>2. CASE Notifies(w)
    <3>1. pc' = [c \in Clients |-> IF pc[c] = [at |-> "asleep", of |-> work[w].of]
                                     THEN [pc[c] EXCEPT !.at = "waiting"] ELSE pc[c]]
      BY <2>2 DEF Notifies
    <3> QED BY <3>1 DEF Types
  <2> QED BY <2>1, <2>2 DEF FeedsBack, Answers, asking
<1>4. Types'
  BY <1>1, <1>2, <1>3 DEF Types, Busy
<1>5. ClientsOK'
  BY <1>2, <1>3 DEF ClientsOK
<1>6. QueuesOK'
  BY <1>2 DEF QueuesOK
<1>7. WorkersOK' /\ InlineOK'
  BY <1>1, <1>2 DEF Types, WorkersOK, InlineOK, Busy
<1>8. SharesOK'
  <2> SUFFICES ASSUME NEW n \in Evaluations PROVE references'[n] = Owners(n)'
    BY <1>2 DEF SharesOK, Evaluations, Asked
  <2>1. asked[n].client \in Clients /\ asked[n].worker \in Workers
    BY Known
  <2>2. work'[asked[n].worker].of = work[asked[n].worker].of
    BY <2>1, <1>1 DEF Types
  <2>3. (CallerHas(n)' <=> CallerHas(n)) /\ (RequestHas(n)' <=> RequestHas(n))
    BY <2>1, <2>2, <1>2, <1>3 DEF CallerHas, RequestHas
  <2> QED BY <2>3, <1>2 DEF Owners, SharesOK
<1> QED BY <1>4, <1>5, <1>6, <1>7, <1>8

LEMMA TakesStep ==
  ASSUME IInv, NEW w \in Workers, Takes(w)
  PROVE  IInv'
<1> USE DEF IInv
<1>0. PICK m \in queue[w] :
        /\ asked[m].kind # "command"
        /\ queue' = [queue EXCEPT ![w] = @ \ {m}]
        /\ work' = [work EXCEPT ![w] =
                      [at |-> IF asked[m].expression THEN Stages(asked[m].kind)[1] ELSE "settle",
                       of |-> m]]
  BY DEF Takes, Moves
<1>1. /\ work[w].at = "idle" /\ ~inline
      /\ UNCHANGED <<inline, asked, turn, pc, references, settled>>
  BY DEF Takes, Doing, asking, tickets
<1>2. m \in DOMAIN asked /\ asked[m].worker = w /\ m \notin settled /\ m \in Nat
  BY DEF QueuesOK, Types
<1>3. PICK at \in Busy : /\ work' = [work EXCEPT ![w] = [at |-> at, of |-> m]]
                         /\ at = "feedback" => asked[m].kind # "f32"
  BY <1>0 DEF Stages, Busy
<1>4. Types'
  BY <1>0, <1>1, <1>2, <1>3 DEF Types
<1>5. ClientsOK'
  BY <1>1 DEF ClientsOK
<1>6. QueuesOK'
  BY <1>0, <1>1 DEF QueuesOK, Types
<1>7. WorkersOK' /\ InlineOK'
  BY <1>0, <1>1, <1>2, <1>3 DEF Types, WorkersOK, InlineOK
<1>8. SharesOK'
  <2> SUFFICES ASSUME NEW n \in Evaluations PROVE references'[n] = Owners(n)'
    BY <1>1 DEF SharesOK, Evaluations, Asked
  <2>1. n # None /\ asked[n].worker \in Workers
    BY Known
  <2>2. work[w].of = None
    BY <1>1 DEF WorkersOK, Busy
  <2>3. (CallerHas(n)' <=> CallerHas(n)) /\ (RequestHas(n)' <=> RequestHas(n))
    BY <2>1, <2>2, <1>0, <1>1, <1>2, <1>3 DEF CallerHas, RequestHas, Types
  <2> QED BY <2>3, <1>1 DEF Owners, SharesOK
<1> QED BY <1>4, <1>5, <1>6, <1>7, <1>8

LEMMA SettlesStep ==
  ASSUME IInv, NEW w \in Workers, Settles(w)
  PROVE  IInv'
<1> USE DEF IInv
<1> DEFINE m == work[w].of
<1>0. /\ work[w].at = "settle"
      /\ references' = [references EXCEPT ![m] = @ - 1]
      /\ settled' = settled \cup {m}
      /\ work' = [work EXCEPT ![w] = [at |-> "idle", of |-> None]]
      /\ UNCHANGED <<inline, asked, turn, pc, queue>>
  BY DEF Settles, Doing, Released, Idle, asking
<1>1. /\ m \in DOMAIN asked /\ asked[m].worker = w /\ m \notin settled /\ m \notin queue[w]
      /\ asked[m].kind # "command" /\ ~inline /\ m # None /\ m \in DOMAIN references
  BY <1>0 DEF WorkersOK, InlineOK, Busy, Types, None
<1>2. Types'
  BY <1>0, <1>1 DEF Types, None
<1>3. ClientsOK'
  BY <1>0, <1>1 DEF ClientsOK
<1>4. QueuesOK'
  BY <1>0, <1>1 DEF QueuesOK
<1>5. WorkersOK' /\ InlineOK'
  BY <1>0, <1>1 DEF Types, WorkersOK, InlineOK, Busy
<1>6. SharesOK'
  <2> SUFFICES ASSUME NEW n \in Evaluations PROVE references'[n] = Owners(n)'
    BY <1>0 DEF SharesOK, Evaluations, Asked
  <2>0. n # None /\ asked[n].worker \in Workers /\ asked[n].client \in Clients
        /\ n \in DOMAIN references
    BY Known
  <2>1. CallerHas(n)' <=> CallerHas(n)
    BY <1>0 DEF CallerHas
  <2>2. pc[asked[n].client].at # "evaluate"
    BY <2>0, <1>1 DEF ClientsOK
  <2>3. CASE n = m
    <3>1. RequestHas(n) /\ ~RequestHas(n)'
      BY <2>0, <2>2, <2>3, <1>0, <1>1 DEF RequestHas, Types
    <3>2. references'[n] = references[n] - 1
      BY <2>0, <2>3, <1>0 DEF Types
    <3> QED BY <3>1, <3>2, <2>1 DEF Owners, SharesOK
  <2>4. CASE n # m
    <3>1. RequestHas(n)' <=> RequestHas(n)
      BY <2>0, <2>2, <2>4, <1>0, <1>1 DEF RequestHas, Types
    <3>2. references'[n] = references[n]
      BY <2>0, <2>4, <1>0 DEF Types
    <3> QED BY <3>1, <3>2, <2>1 DEF Owners, SharesOK
  <2> QED BY <2>3, <2>4
<1> QED BY <1>2, <1>3, <1>4, <1>5, <1>6

\* A command that leaves the queue is nobody's ticket.
LEMMA PersistsStep ==
  ASSUME IInv, NEW w \in Workers, Persists(w)
  PROVE  IInv'
<1> USE DEF IInv
<1>0. PICK m \in queue[w] :
        /\ asked[m].kind = "command"
        /\ queue' = [queue EXCEPT ![w] = @ \ {m}]
        /\ settled' = settled \cup {m}
  BY DEF Persists
<1>1. ~inline /\ UNCHANGED <<inline, asked, turn, pc, work, references>>
  BY DEF Persists, asking, tickets
<1>2. m \in DOMAIN asked /\ asked[m].worker = w
  BY DEF QueuesOK
<1>3. Types'
  BY <1>0, <1>1, <1>2 DEF Types
<1>4. ClientsOK'
  BY <1>0, <1>1 DEF ClientsOK
<1>5. QueuesOK'
  BY <1>0, <1>1, <1>2 DEF QueuesOK, Types
<1>6. WorkersOK' /\ InlineOK'
  BY <1>0, <1>1 DEF Types, WorkersOK, InlineOK
<1>7. SharesOK'
  <2> SUFFICES ASSUME NEW n \in Evaluations PROVE references'[n] = Owners(n)'
    BY <1>1 DEF SharesOK, Evaluations, Asked
  <2>1. n # m /\ asked[n].worker \in Workers
    BY Known, <1>0
  <2>2. (CallerHas(n)' <=> CallerHas(n)) /\ (RequestHas(n)' <=> RequestHas(n))
    BY <2>1, <1>0, <1>1 DEF CallerHas, RequestHas, Types
  <2> QED BY <2>2, <1>1 DEF Owners, SharesOK
<1> QED BY <1>3, <1>4, <1>5, <1>6, <1>7

\* A worker that ends: nothing it works on, and its events keep their tickets.
LEMMA TerminatesStep ==
  ASSUME IInv, NEW w \in Workers, Terminates(w)
  PROVE  IInv'
<1> USE DEF IInv
<1>0. /\ work[w].at = "idle"
      /\ work' = [work EXCEPT ![w] = [at |-> "terminated", of |-> None]]
      /\ UNCHANGED <<inline, asked, turn, pc, queue, references, settled>>
  BY DEF Terminates, Doing, Moves, asking, tickets
<1>1. work[w].of = None
  BY <1>0 DEF WorkersOK, Busy
<1>2. Types'
  BY <1>0 DEF Types, None
<1>3. ClientsOK' /\ QueuesOK'
  BY <1>0 DEF ClientsOK, QueuesOK
<1>4. WorkersOK' /\ InlineOK'
  BY <1>0 DEF Types, WorkersOK, InlineOK, Busy
<1>5. SharesOK'
  <2> SUFFICES ASSUME NEW n \in Evaluations PROVE references'[n] = Owners(n)'
    BY <1>0 DEF SharesOK, Evaluations, Asked
  <2>1. n # None /\ asked[n].worker \in Workers
    BY Known
  <2>2. (CallerHas(n)' <=> CallerHas(n)) /\ (RequestHas(n)' <=> RequestHas(n))
    BY <2>1, <1>0, <1>1 DEF CallerHas, RequestHas, Types
  <2> QED BY <2>2, <1>0 DEF Owners, SharesOK
<1> QED BY <1>2, <1>3, <1>4, <1>5

\* The events that go with the bus give up their shares.
LEMMA DestroysStep ==
  ASSUME IInv, NEW w \in Workers, Destroys(w)
  PROVE  IInv'
<1> USE DEF IInv
<1>0. /\ work[w].at = "terminated"
      /\ queue' = [queue EXCEPT ![w] = {}]
      /\ references' = [n \in DOMAIN references |->
                          IF n \in queue[w] /\ asked[n].kind # "command"
                            THEN references[n] - 1 ELSE references[n]]
      /\ work' = [work EXCEPT ![w] = [at |-> "gone", of |-> None]]
      /\ UNCHANGED <<inline, asked, turn, pc, settled>>
  BY DEF Destroys, Doing, Moves, asking
<1>1. work[w].of = None
  BY <1>0 DEF WorkersOK, Busy
<1>2. Types'
  <2>1. references' \in Seq(Int) /\ Len(references') = Len(references)
    <3>1. /\ Len(references) \in Nat /\ DOMAIN references = 1 .. Len(references)
          /\ \A n \in DOMAIN references : references[n] \in Int
      BY DEF Types
    <3>2. references' \in [1 .. Len(references) -> Int]
      BY <3>1, <1>0
    <3> QED BY <3>1, <3>2
  <2> QED BY <2>1, <1>0 DEF Types, None
<1>3. ClientsOK' /\ QueuesOK'
  BY <1>0 DEF ClientsOK, QueuesOK, Types
<1>4. WorkersOK' /\ InlineOK'
  BY <1>0 DEF Types, WorkersOK, InlineOK, Busy
<1>5. SharesOK'
  <2> SUFFICES ASSUME NEW n \in Evaluations PROVE references'[n] = Owners(n)'
    BY <1>0 DEF SharesOK, Evaluations, Asked
  <2>0. /\ n # None /\ asked[n].worker \in Workers /\ n \in DOMAIN references
        /\ asked[n].client \in Clients /\ asked[n].kind # "command"
    BY Known
  <2>1. CallerHas(n)' <=> CallerHas(n)
    BY <1>0 DEF CallerHas
  <2>2. CASE n \in queue[w]
    <3>1. asked[n].worker = w /\ ~inline
      BY <2>2 DEF QueuesOK, InlineOK
    <3>2. pc[asked[n].client].at # "evaluate"
      BY <2>0, <3>1 DEF ClientsOK
    <3>3. RequestHas(n) /\ ~RequestHas(n)'
      BY <2>0, <2>2, <3>1, <3>2, <1>0 DEF RequestHas, Types
    <3>4. references'[n] = references[n] - 1
      BY <2>0, <2>2, <1>0
    <3> QED BY <3>3, <3>4, <2>1 DEF Owners, SharesOK
  <2>3. CASE n \notin queue[w]
    <3>1. RequestHas(n)' <=> RequestHas(n)
      BY <2>0, <2>3, <1>0, <1>1 DEF RequestHas, Types
    <3>2. references'[n] = references[n]
      BY <2>0, <2>3, <1>0
    <3> QED BY <3>1, <3>2, <2>1 DEF Owners, SharesOK
  <2> QED BY <2>2, <2>3
<1> QED BY <1>2, <1>3, <1>4, <1>5

\* Steps that touch nothing the invariant is about.
LEMMA StutterStep ==
  ASSUME IInv, UNCHANGED <<inline, asked, turn, pc, queue, work, references, settled>>
  PROVE  IInv'
BY DEF IInv, Types, ClientsOK, QueuesOK, WorkersOK, InlineOK, SharesOK, Owners, CallerHas,
       RequestHas, Evaluations, Asked

----------------------------------------------------------------------------
(* The theorem                                                             *)

LEMMA ClientSteps ==
  ASSUME IInv, NEW c \in Clients, ClientStep(c)
  PROVE  IInv'
<1>1. CASE Sleeps(c)
  <2>1. /\ pc[c].at = "waiting"
        /\ pc' = [pc EXCEPT ![c] = [at |-> "asleep", of |-> pc[c].of]]
        /\ UNCHANGED <<inline, asked, turn, queue, work, settled, references>>
    BY <1>1 DEF Sleeps, At, Goes, Keeps
  <2> QED BY <2>1, CallerMoves
<1>2. CASE WakesSpuriously(c)
  <2>1. /\ pc[c].at = "asleep"
        /\ pc' = [pc EXCEPT ![c] = [at |-> "waiting", of |-> pc[c].of]]
        /\ UNCHANGED <<inline, asked, turn, queue, work, settled, references>>
    BY <1>2 DEF WakesSpuriously, At, Goes, Keeps
  <2> QED BY <2>1, CallerMoves
<1>3. CASE Abandons(c)
  <2>1. /\ pc[c].at = "waiting"
        /\ pc' = [pc EXCEPT ![c] = [at |-> "left", of |-> pc[c].of]]
        /\ references' = Released(pc[c].of)
        /\ UNCHANGED <<inline, asked, turn, queue, work, settled>>
    BY <1>3 DEF Abandons, At, Goes, Keeps
  <2> QED BY <2>1, CallerMoves
<1> QED BY <1>1, <1>2, <1>3, PublishesStep, StartsInlineStep, ReturnsStep,
           EvaluatesInlineStep, CommandsStep DEF ClientStep, Call

LEMMA NextOK ==
  ASSUME IInv, [Next]_vars
  PROVE  IInv'
<1>1. ASSUME NEW w \in Workers, WorkerStep(w) PROVE IInv'
  BY <1>1, TakesStep, HandlerStep, SettlesStep, PersistsStep DEF WorkerStep
<1>2. CASE Tells
  BY <1>2, StutterStep DEF Tells, asking, tickets
<1>3. CASE UNCHANGED vars
  BY <1>3, StutterStep DEF vars, asking, tickets
<1> QED BY <1>1, <1>2, <1>3, ClientSteps, TerminatesStep, DestroysStep DEF Next

\* Every reachable state satisfies the inductive invariant.
THEOREM EvaluationInvariance == Spec => []IInv
BY InitOK, NextOK, PTL DEF Spec

\* Whatever callers drop, abandon or wait for, and wherever stop() leaves the
\* requests, a worker never answers or notifies a ticket that has no owner.
THEOREM TicketsOutlive == Spec => []TicketOutlives
<1>1. IInv => TicketOutlives
  BY OwnersSuffice
<1> QED BY <1>1, EvaluationInvariance, PTL

----------------------------------------------------------------------------
(* What the bookkeeper counts                                              *)

Open(d) == {n \in Evaluations \ settled : asked[n].device = d}
Stray == {n \in Evaluations \cap settled : asked[n].kind = "f32" /\ asked[n].device = "gpu"}

LoadInv ==
  /\ load \in [Devices -> Int]
  /\ load["gpu"] = Cardinality(Open("gpu")) + Cardinality(Stray)
  /\ load["cpu"] = Cardinality(Open("cpu")) - Cardinality(Stray)

LEMMA OpenAreFinite ==
  ASSUME Types
  PROVE  /\ IsFiniteSet(Stray) /\ Cardinality(Stray) \in Nat
         /\ \A d : IsFiniteSet(Open(d)) /\ Cardinality(Open(d)) \in Nat
<1>1. Len(asked) \in Nat /\ DOMAIN asked = 1 .. Len(asked)
  BY DEF Types
<1>2. IsFiniteSet(DOMAIN asked)
  BY <1>1, FS_Interval
<1>3. Stray \subseteq DOMAIN asked /\ \A d : Open(d) \subseteq DOMAIN asked
  BY DEF Stray, Open, Evaluations, Asked
<1> QED BY <1>2, <1>3, FS_Subset, FS_CardinalityType

\* A step that charges and settles nothing.
LEMMA LoadKept ==
  ASSUME LoadInv, UNCHANGED load, Stray' = Stray, \A d \in Devices : Open(d)' = Open(d)
  PROVE  LoadInv'
BY DEF LoadInv, Devices

LEMMA LoadCharged ==
  ASSUME IInv, LoadInv, NEW c \in Clients, NEW use \in Uses[c], NEW device \in Devices,
         Evaluated(use), Request(c, use, device)
  PROVE  LoadInv'
<1> USE DEF IInv
<1>1. PICK r \in Requests : /\ asked' = Append(asked, r) /\ r.kind # "command"
                            /\ r.device = device
  <2> DEFINE r == [kind |-> use.kind, expression |-> use.expression, client |-> c,
                   worker |-> turn % NumWorkers, device |-> device]
  <2>1. use.kind \in {"f32", "word", "async", "command"} /\ use.expression \in BOOLEAN
    BY EvaluationAssumption
  <2>2. r \in Requests
    BY <2>1, TurnsAreWorkers DEF Requests, Types
  <2> QED BY <2>2 DEF Request, Evaluated
<1>2. /\ DOMAIN asked' = DOMAIN asked \cup {Number} /\ Number \notin DOMAIN asked
      /\ asked'[Number] = r /\ \A n \in DOMAIN asked : asked'[n] = asked[n]
  BY <1>1, OneMore
<1>3. settled' = settled /\ load' = [load EXCEPT ![device] = @ + 1]
  BY DEF Request, Counted
<1>4. Number \notin settled
  BY <1>2 DEF Types
<1> HIDE DEF Number
<1>5. Stray' = Stray
  BY <1>1, <1>2, <1>3, <1>4 DEF Stray, Evaluations, Asked
<1>6. Open(device)' = Open(device) \cup {Number} /\ Number \notin Open(device)
  BY <1>1, <1>2, <1>3, <1>4 DEF Open, Evaluations, Asked
<1>7. \A d \in Devices \ {device} : Open(d)' = Open(d)
  BY <1>1, <1>2, <1>3 DEF Open, Evaluations, Asked
<1>8. Cardinality(Open(device) \cup {Number}) = Cardinality(Open(device)) + 1
  BY <1>6, OpenAreFinite, FS_AddElement
<1>9. Cardinality(Stray) \in Nat /\ \A d : Cardinality(Open(d)) \in Nat
  BY OpenAreFinite
<1>10. \A d \in Devices : Cardinality(Open(d)') = IF d = device THEN Cardinality(Open(d)) + 1
                                                               ELSE Cardinality(Open(d))
  BY <1>6, <1>7, <1>8
<1>11. CASE device = "gpu"
  BY <1>3, <1>5, <1>9, <1>10, <1>11 DEF LoadInv, Devices
<1>12. CASE device = "cpu"
  BY <1>3, <1>5, <1>9, <1>10, <1>12 DEF LoadInv, Devices
<1> QED BY <1>11, <1>12 DEF Devices

LEMMA LoadGivenBack ==
  ASSUME IInv, LoadInv, NEW m \in Evaluations \ settled,
         UNCHANGED asked, settled' = settled \cup {m},
         load' = [load EXCEPT ![PoppedFrom(asked[m])] = @ + -1]
  PROVE  LoadInv'
<1> USE DEF IInv
<1> DEFINE device == asked[m].device
<1>1. device \in Devices
  <2>1. m \in DOMAIN asked
    BY DEF Evaluations, Asked
  <2>2. asked[m] \in Requests
    BY <2>1 DEF Types
  <2> QED BY <2>2 DEF Requests
<1>2. Open(device)' = Open(device) \ {m} /\ m \in Open(device)
  BY DEF Open, Evaluations, Asked
<1>3. \A d \in Devices \ {device} : Open(d)' = Open(d)
  BY DEF Open, Evaluations, Asked
<1>4. Cardinality(Open(device) \ {m}) = Cardinality(Open(device)) - 1
  BY <1>2, OpenAreFinite, FS_RemoveElement
<1>5. \A d \in Devices : Cardinality(Open(d)') = IF d = device THEN Cardinality(Open(d)) - 1
                                                              ELSE Cardinality(Open(d))
  BY <1>2, <1>3, <1>4
<1>6. Cardinality(Stray) \in Nat /\ \A d : Cardinality(Open(d)) \in Nat
  BY OpenAreFinite
<1>7. CASE asked[m].kind = "f32" /\ device = "gpu"
  <2>1. Stray' = Stray \cup {m} /\ m \notin Stray
    BY <1>7 DEF Stray, Evaluations, Asked
  <2>2. Cardinality(Stray') = Cardinality(Stray) + 1
    BY <2>1, OpenAreFinite, FS_AddElement
  <2>3. PoppedFrom(asked[m]) = "cpu"
    BY <1>7 DEF PoppedFrom
  <2> HIDE DEF device
  <2> QED BY <2>2, <2>3, <1>5, <1>6, <1>7 DEF LoadInv, Devices
<1>8. CASE ~(asked[m].kind = "f32" /\ device = "gpu")
  <2>1. Stray' = Stray
    BY <1>8 DEF Stray, Evaluations, Asked
  <2>2. PoppedFrom(asked[m]) = device
    BY <1>1, <1>8 DEF PoppedFrom, Devices
  <2>3. device \in {"cpu", "gpu"}
    BY <1>1 DEF Devices
  <2> HIDE DEF device
  <2>4. CASE device = "gpu"
    BY <2>1, <2>2, <2>4, <1>5, <1>6 DEF LoadInv, Devices
  <2>5. CASE device = "cpu"
    BY <2>1, <2>2, <2>5, <1>5, <1>6 DEF LoadInv, Devices
  <2> QED BY <2>3, <2>4, <2>5
<1> QED BY <1>7, <1>8

LEMMA LoadStep ==
  ASSUME IInv, LoadInv, [Next]_vars
  PROVE  LoadInv'
<1> USE DEF IInv
<1>1. ASSUME NEW c \in Clients, Publishes(c) \/ StartsInline(c) PROVE LoadInv'
  BY <1>1, LoadCharged DEF Publishes, StartsInline
<1>2. ASSUME NEW c \in Clients, EvaluatesInline(c) PROVE LoadInv'
  <2> DEFINE m == pc[c].of
  <2>1. m \in Evaluations \ settled
    BY <1>2 DEF EvaluatesInline, At, ClientsOK, Evaluations, Asked
  <2>2. /\ UNCHANGED asked /\ settled' = settled \cup {m}
        /\ load' = [load EXCEPT ![PoppedFrom(asked[m])] = @ + -1]
    BY <1>2 DEF EvaluatesInline, Counted
  <2> QED BY <2>1, <2>2, LoadGivenBack
<1>3. ASSUME NEW w \in Workers, Settles(w) PROVE LoadInv'
  <2> DEFINE m == work[w].of
  <2>1. m \in Evaluations \ settled
    BY <1>3 DEF Settles, Doing, WorkersOK, Busy, Evaluations, Asked
  <2>2. /\ UNCHANGED asked /\ settled' = settled \cup {m}
        /\ load' = [load EXCEPT ![PoppedFrom(asked[m])] = @ + -1]
    BY <1>3 DEF Settles, Counted, asking
  <2> QED BY <2>1, <2>2, LoadGivenBack
<1>4. CASE UNCHANGED <<asked, settled, load>>
  BY <1>4, LoadKept DEF Open, Stray, Evaluations, Asked
<1>5. ASSUME NEW c \in Clients, NEW w \in Workers, Commands(c, w) PROVE LoadInv'
  <2> DEFINE r == [kind |-> "command", expression |-> FALSE, client |-> c, worker |-> w,
                   device |-> "cpu"]
  <2>0. r \in Requests /\ asked' = Append(asked, r)
    BY <1>5 DEF Requests, Commands, Devices
  <2>1. r \in Requests /\ asked' = Append(asked, r) /\ r.kind = "command"
    BY <2>0
  <2> HIDE DEF r
  <2>2. /\ DOMAIN asked' = DOMAIN asked \cup {Number}
        /\ asked'[Number] = r /\ \A n \in DOMAIN asked : asked'[n] = asked[n]
    BY <2>1, OneMore
  <2> HIDE DEF Number
  <2>3. Evaluations' = Evaluations
    BY <2>1, <2>2 DEF Evaluations, Asked
  <2>4. UNCHANGED <<settled, load>>
    BY <1>5 DEF Commands
  <2>5. Stray' = Stray /\ \A d \in Devices : Open(d)' = Open(d)
    BY <2>2, <2>3, <2>4 DEF Stray, Open, Evaluations, Asked
  <2> QED BY <2>4, <2>5, LoadKept
<1>6. ASSUME NEW w \in Workers, Persists(w) PROVE LoadInv'
  <2>1. PICK m \in queue[w] : asked[m].kind = "command" /\ settled' = settled \cup {m}
    BY <1>6 DEF Persists
  <2>2. UNCHANGED <<asked, load>>
    BY <1>6 DEF Persists, asking
  <2>3. Stray' = Stray /\ \A d \in Devices : Open(d)' = Open(d)
    BY <2>1, <2>2 DEF Stray, Open, Evaluations, Asked
  <2> QED BY <2>2, <2>3, LoadKept
<1>7. ASSUME NEW c \in Clients, Returns(c) \/ Sleeps(c) \/ WakesSpuriously(c) \/ Abandons(c)
      PROVE  UNCHANGED <<asked, settled, load>>
  BY <1>7 DEF Returns, Sleeps, WakesSpuriously, Abandons, Keeps
<1>8. ASSUME NEW w \in Workers,
             \/ Takes(w) \/ FeedsBack(w) \/ Answers(w) \/ Notifies(w)
             \/ Terminates(w) \/ Destroys(w)
      PROVE  UNCHANGED <<asked, settled, load>>
  BY <1>8 DEF Takes, FeedsBack, Answers, Notifies, Terminates, Destroys, asking
<1>9. CASE Tells \/ UNCHANGED vars
  <2>1. UNCHANGED <<asked, settled, load>>
    BY <1>9 DEF Tells, vars, asking
  <2> QED BY <2>1, <1>4
<1> QED BY <1>1, <1>2, <1>3, <1>4, <1>5, <1>6, <1>7, <1>8, <1>9
        DEF Next, ClientStep, Call, WorkerStep

\* The bookkeeper counts what is under way, device by device, but for the scalar
\* requests it charged to the GPU, which go back to the CPU.
THEOREM LoadsAccounted == Spec => []LoadAccounted
<1>1. Init => LoadInv
  <2> SUFFICES ASSUME Init PROVE LoadInv
    OBVIOUS
  <2>1. Stray = {} /\ \A d : Open(d) = {}
    BY DEF Init, Stray, Open, Evaluations, Asked
  <2>2. Cardinality(Stray) = 0 /\ \A d : Cardinality(Open(d)) = 0
    BY <2>1, FS_EmptySet
  <2> QED BY <2>2 DEF Init, LoadInv, Devices
<1>2. IInv /\ LoadInv /\ [Next]_vars => LoadInv'
  BY LoadStep
<1>3. LoadInv => LoadAccounted
  BY DEF LoadInv, LoadAccounted, Open, Stray
<1> QED BY <1>1, <1>2, <1>3, EvaluationInvariance, PTL DEF Spec

----------------------------------------------------------------------------
(* Whose bias is lowered                                                   *)

Entries == [is : {"byte", "code"}, of : Int]

Waits(n) ==
  LET w == asked[n].worker IN
  n \in queue[w] \/ (work[w].at = "feedback" /\ work[w].of = n)

\* Until the outcome of a request is fed back, its client is with that request, and
\* the byte chosen for it is the last thing in the client's trace.
LastIsByte(n) ==
  LET t == trace[asked[n].client] IN
  t # <<>> /\ t[Len(t)] = [is |-> "byte", of |-> n]

ByteOK ==
  \A n \in Evaluations : asked[n].kind # "f32" /\ Waits(n) =>
    n \notin done /\ pc[asked[n].client].of = n /\ LastIsByte(n)

FeedbackInv ==
  /\ trace \in [Clients -> Seq(Entries)] /\ done \subseteq DOMAIN asked
  /\ ByteOK
  /\ BlamesChosen

\* What the trace keeps when it makes room: if there is an entry before the new one,
\* it is the one that was last.
LEMMA RecordedAfterLast ==
  ASSUME NEW t \in Seq(Entries), NEW n \in Int, TraceLimit # 0
  PROVE  /\ Recorded(t, n) \in Seq(Entries)
         /\ Len(Recorded(t, n)) >= 2 =>
              t # <<>> /\ Recorded(t, n)[Len(Recorded(t, n)) - 1] = t[Len(t)]
<1> DEFINE e == [is |-> "code", of |-> n]
<1>1. e \in Entries /\ Len(t) \in Nat /\ TraceLimit \in Nat \ {0}
  BY EvaluationAssumption DEF Entries
<1> HIDE DEF e
<1>2. CASE Len(t) < TraceLimit
  <2>1. Recorded(t, n) = Append(t, e)
    BY <1>2 DEF Recorded, e
  <2> QED BY <1>1, <2>1
<1>3. CASE Len(t) >= TraceLimit
  <2> DEFINE s == SubSeq(t, Len(t) + 2 - TraceLimit, Len(t))
  <2>1. Recorded(t, n) = Append(s, e)
    BY <1>1, <1>3 DEF Recorded, e
  <2>2. s \in Seq(Entries) /\ Len(s) = TraceLimit - 1
    BY <1>1, <1>3
  <2>3. TraceLimit >= 2 => s[Len(s)] = t[Len(t)] /\ t # <<>>
    BY <1>1, <1>3
  <2> HIDE DEF s
  <2> QED BY <1>1, <2>1, <2>2, <2>3
<1> QED BY <1>1, <1>2, <1>3

\* A step that no waiting request and no trace notices.
LEMMA ByteKept ==
  ASSUME ByteOK, UNCHANGED <<asked, trace>>,
         \A n \in Evaluations : Waits(n)' /\ n \notin done =>
           /\ Waits(n) /\ n \notin done'
           /\ pc'[asked[n].client].of = pc[asked[n].client].of,
         \A n \in Evaluations : Waits(n)' => Waits(n)
  PROVE  ByteOK'
<1> SUFFICES ASSUME NEW n \in Evaluations, asked[n].kind # "f32", Waits(n)'
             PROVE  n \notin done' /\ pc'[asked[n].client].of = n /\ LastIsByte(n)'
  BY DEF ByteOK, Evaluations, Asked
<1>1. n \notin done /\ pc[asked[n].client].of = n /\ LastIsByte(n)
  BY DEF ByteOK
<1> QED BY <1>1 DEF LastIsByte

\* With inline execution nothing waits for a worker.
LEMMA NothingWaitsInline ==
  ASSUME IInv, inline
  PROVE  ByteOK
<1> SUFFICES ASSUME NEW n \in Evaluations PROVE ~Waits(n)
  BY DEF ByteOK
<1>1. asked[n].worker \in Workers
  BY Known DEF IInv
<1> QED BY <1>1 DEF IInv, InlineOK, Waits, Busy

\* A client publishes when it is idle, so that nothing of it waits; the byte that
\* was chosen is now last in its trace.
LEMMA BytePublished ==
  ASSUME IInv, FeedbackInv, NEW c \in Clients, Publishes(c)
  PROVE  ByteOK' /\ trace' \in [Clients -> Seq(Entries)]
<1> USE DEF IInv
<1>0. PICK use \in Uses[c], device \in Devices : Evaluated(use) /\ Request(c, use, device)
  BY DEF Publishes
<1>1. PICK r \in Requests :
        /\ asked' = Append(asked, r)
        /\ r.client = c /\ r.worker = turn % NumWorkers /\ r.kind = use.kind
        /\ pc[c].at = "idle" /\ pc[c].of = None
        /\ UNCHANGED <<inline, work, settled>>
  BY <1>0, RequestMade
<1>2. /\ DOMAIN asked' = DOMAIN asked \cup {Number}
      /\ Number \in Nat /\ Number # None /\ Number \notin DOMAIN asked
      /\ asked'[Number] = r
      /\ \A n \in DOMAIN asked : asked'[n] = asked[n]
  BY <1>1, OneMore
<1>3. /\ pc' = [pc EXCEPT ![c] = [at |-> "waiting", of |-> Number]]
      /\ queue' = [queue EXCEPT ![r.worker] = @ \cup {Number}]
      /\ r.worker \in Workers
      /\ done' = done
  BY <1>0, <1>1 DEF Publishes, Goes, Requests, Request
<1>4. trace' = IF r.kind = "f32" THEN trace
               ELSE [trace EXCEPT ![c] = Append(@, [is |-> "byte", of |-> Number])]
  BY <1>0, <1>1 DEF Request
<1> HIDE DEF Number
<1>5. [is |-> "byte", of |-> Number] \in Entries
  BY <1>2 DEF Entries
<1>6. trace' \in [Clients -> Seq(Entries)]
  BY <1>4, <1>5 DEF FeedbackInv
<1>7. ByteOK'
  <2> SUFFICES ASSUME NEW n \in Evaluations', asked'[n].kind # "f32", Waits(n)'
               PROVE  n \notin done' /\ pc'[asked'[n].client].of = n /\ LastIsByte(n)'
    BY DEF ByteOK
  <2>1. CASE n = Number
    <3> DEFINE t == trace[c]  e == [is |-> "byte", of |-> Number]
    <3>1. trace'[c] = Append(t, e) /\ t \in Seq(Entries) /\ e \in Entries
      BY <2>1, <1>1, <1>2, <1>4, <1>5 DEF FeedbackInv
    <3> HIDE DEF t, e
    <3>2. trace'[c] # <<>> /\ trace'[c][Len(trace'[c])] = e
      BY <3>1
    <3>3. LastIsByte(n)'
      BY <3>2, <2>1, <1>1, <1>2 DEF LastIsByte, e
    <3> QED BY <3>3, <2>1, <1>1, <1>2, <1>3 DEF Types, FeedbackInv
  <2>2. CASE n # Number
    <3>1. n \in DOMAIN asked /\ asked'[n] = asked[n] /\ n \in Evaluations
      BY <2>2, <1>2 DEF Evaluations, Asked
    <3>2. Waits(n) /\ asked[n].client \in Clients /\ n # None
      BY <3>1, <2>2, <1>1, <1>3, Known DEF Waits, Types
    <3>3. n \notin done /\ pc[asked[n].client].of = n /\ LastIsByte(n)
      BY <3>1, <3>2 DEF FeedbackInv, ByteOK
    <3>4. asked[n].client # c
      BY <3>2, <3>3, <1>1
    <3>5. LastIsByte(n)'
      BY <3>1, <3>2, <3>3, <3>4, <1>4 DEF LastIsByte, FeedbackInv
    <3> QED BY <3>1, <3>2, <3>3, <3>4, <3>5, <1>3 DEF Types
  <2> QED BY <2>1, <2>2
<1> QED BY <1>6, <1>7

\* The outcome is recorded behind the byte of the same request, which leaves its
\* stage; whoever else waits has another client's trace.
LEMMA ByteFedBack ==
  ASSUME IInv, FeedbackInv, NEW w \in Workers, FeedsBack(w)
  PROVE  FeedbackInv'
<1> USE DEF IInv
<1> DEFINE m == work[w].of  c == asked[m].client  t == Recorded(trace[c], m)
<1>0. /\ work[w].at = "feedback" /\ GoesOn(w)
      /\ UNCHANGED <<asked, pc, queue, done>>
  BY DEF FeedsBack, Doing, asking, tickets
<1>1. PICK at \in {"answer", "notify", "settle"} :
        work' = [work EXCEPT ![w] = [at |-> at, of |-> m]]
  BY <1>0, NextStage
<1>2. /\ m \in Evaluations /\ asked[m].worker = w /\ m \notin queue[w]
      /\ asked[m].kind # "f32" /\ m \in Int /\ c \in Clients
  <2>1. /\ m \in DOMAIN asked /\ asked[m].worker = w /\ m \notin queue[w]
        /\ asked[m].kind # "command" /\ asked[m].kind # "f32"
    BY <1>0 DEF WorkersOK, Busy
  <2>2. m \in Evaluations
    BY <2>1 DEF Evaluations, Asked
  <2> QED BY <2>1, <2>2, Known
<1>3. pc[c].of = m /\ LastIsByte(m) /\ trace[c] \in Seq(Entries)
  BY <1>0, <1>2 DEF FeedbackInv, ByteOK, Waits
<1>4. \A n \in Evaluations : Waits(n)' => Waits(n) /\ n # m
  <2> SUFFICES ASSUME NEW n \in Evaluations, Waits(n)' PROVE Waits(n) /\ n # m
    OBVIOUS
  <2>1. asked[n].worker \in Workers
    BY Known
  <2> QED BY <2>1, <1>0, <1>1, <1>2 DEF Waits, Types
<1>5. CASE TraceLimit = 0
  <2>1. UNCHANGED <<trace, blamed>>
    BY <1>5 DEF FeedsBack, feedback
  <2>2. ByteOK'
    BY <2>1, <1>0, <1>4, ByteKept DEF FeedbackInv
  <2> QED BY <2>1, <2>2, <1>0 DEF FeedbackInv, BlamesChosen
<1>6. CASE TraceLimit # 0
  <2>1. /\ trace' = [trace EXCEPT ![c] = t]
        /\ \/ blamed' = blamed
           \/ Len(t) >= 2 /\ blamed' = {[chosen |-> t[Len(t) - 1], failed |-> m]}
    BY <1>6 DEF FeedsBack
  <2>2. t \in Seq(Entries)
        /\ (Len(t) >= 2 => t[Len(t) - 1] = trace[c][Len(trace[c])])
    BY <1>2, <1>3, <1>6, RecordedAfterLast
  <2>3. trace[c][Len(trace[c])] = [is |-> "byte", of |-> m]
    BY <1>3 DEF LastIsByte
  <2> HIDE DEF t
  <2>4. BlamesChosen'
    <3>1. CASE blamed' = blamed
      BY <3>1 DEF FeedbackInv, BlamesChosen
    <3>2. CASE Len(t) >= 2 /\ blamed' = {[chosen |-> t[Len(t) - 1], failed |-> m]}
      <4>1. t[Len(t) - 1] = [is |-> "byte", of |-> m]
        BY <3>2, <2>2, <2>3
      <4>2. blamed' = {[chosen |-> [is |-> "byte", of |-> m], failed |-> m]}
        BY <3>2, <4>1
      <4> QED BY <4>2 DEF BlamesChosen
    <3> QED BY <2>1, <3>1, <3>2
  <2>5. trace' \in [Clients -> Seq(Entries)]
    BY <2>1, <2>2 DEF FeedbackInv
  <2>6. ByteOK'
    <3> SUFFICES ASSUME NEW n \in Evaluations, asked[n].kind # "f32", Waits(n)'
                 PROVE  n \notin done' /\ pc'[asked[n].client].of = n /\ LastIsByte(n)'
      BY <1>0 DEF ByteOK, Evaluations, Asked
    <3>1. n \notin done /\ pc[asked[n].client].of = n /\ LastIsByte(n) /\ n # m
      BY <1>4 DEF FeedbackInv, ByteOK
    <3>2. asked[n].client # c /\ asked[n].client \in Clients
      BY <3>1, <1>3, Known
    <3>3. LastIsByte(n)'
      BY <3>1, <3>2, <2>1, <1>0 DEF LastIsByte, FeedbackInv
    <3> QED BY <3>1, <3>3, <1>0
  <2> QED BY <2>4, <2>5, <2>6, <1>0 DEF FeedbackInv
<1> QED BY <1>5, <1>6

LEMMA ByteStep ==
  ASSUME IInv, IInv', FeedbackInv, [Next]_vars
  PROVE  FeedbackInv'
<1> USE DEF IInv
\* Steps that leave the requests, the traces and the blame alone.
<1> DEFINE Quiet == UNCHANGED <<asked, trace, blamed>>
<1>0. ASSUME Quiet, UNCHANGED <<pc, queue, work, done>>
      PROVE  FeedbackInv'
  BY <1>0 DEF FeedbackInv, ByteOK, BlamesChosen, LastIsByte, Waits, Evaluations, Asked
<1>1. ASSUME Quiet, UNCHANGED <<queue, work, done>>,
             \A c \in Clients : pc'[c].of = pc[c].of \/ pc[c].of \in done PROVE FeedbackInv'
  <2> SUFFICES ASSUME NEW n \in Evaluations, asked[n].kind # "f32", Waits(n)
               PROVE  pc'[asked[n].client].of = n
    BY <1>1 DEF FeedbackInv, ByteOK, BlamesChosen, LastIsByte, Waits, Evaluations, Asked
  <2>1. n \notin done /\ pc[asked[n].client].of = n /\ asked[n].client \in Clients
    BY Known DEF FeedbackInv, ByteOK
  <2> QED BY <2>1, <1>1
<1>2. ASSUME Quiet, UNCHANGED done, \A n \in Evaluations : Waits(n)' => Waits(n),
             \A c \in Clients : pc'[c].of = pc[c].of PROVE FeedbackInv'
  <2>1. \A n \in Evaluations : asked[n].client \in Clients
    BY Known
  <2>2. ByteOK'
    BY <2>1, <1>2, ByteKept DEF FeedbackInv
  <2> QED BY <2>2, <1>2 DEF FeedbackInv, BlamesChosen
<1>3. ASSUME NEW c \in Clients, Publishes(c) PROVE FeedbackInv'
  <2>1. ByteOK' /\ trace' \in [Clients -> Seq(Entries)]
    BY <1>3, BytePublished
  <2>2. PICK use \in Uses[c], device \in Devices : Evaluated(use) /\ Request(c, use, device)
    BY <1>3 DEF Publishes
  <2>3. UNCHANGED <<blamed, done>>
    BY <2>2 DEF Request
  <2>4. PICK r \in Requests : asked' = Append(asked, r)
    BY <2>2, RequestMade
  <2>5. DOMAIN asked' = DOMAIN asked \cup {Number}
    BY <2>4, OneMore
  <2> QED BY <2>1, <2>3, <2>5 DEF FeedbackInv, BlamesChosen
<1>4. ASSUME NEW c \in Clients, StartsInline(c) PROVE FeedbackInv'
  <2>2. PICK use \in Uses[c], device \in Devices : Evaluated(use) /\ Request(c, use, device)
    BY <1>4 DEF StartsInline
  <2>3. UNCHANGED <<inline, blamed, done>> /\ inline
    BY <2>2, <1>4 DEF Request, StartsInline
  <2>4. PICK r \in Requests : asked' = Append(asked, r)
    BY <2>2, RequestMade
  <2>5. DOMAIN asked' = DOMAIN asked \cup {Number} /\ Number \in Nat
    BY <2>4, OneMore
  <2>6. trace' \in [Clients -> Seq(Entries)]
    <3> DEFINE e == [is |-> "byte", of |-> Number]
    <3>1. e \in Entries
      BY <2>5 DEF Entries
    <3>2. trace' = trace \/ trace' = [trace EXCEPT ![c] = Append(@, e)]
      BY <2>2 DEF Request
    <3> HIDE DEF e
    <3>3. trace[c] \in Seq(Entries) /\ Append(trace[c], e) \in Seq(Entries)
      BY <3>1 DEF FeedbackInv
    <3> QED BY <3>2, <3>3 DEF FeedbackInv
  <2>7. (IInv /\ inline => ByteOK)'
    BY <2>3, NothingWaitsInline, PTL
  <2> QED BY <2>3, <2>5, <2>6, <2>7 DEF FeedbackInv, BlamesChosen
<1>5. ASSUME NEW c \in Clients, EvaluatesInline(c) PROVE FeedbackInv'
  <2> DEFINE n == pc[c].of  async == asked[n].kind = "async"
  <2>1. inline /\ inline' /\ n \in DOMAIN asked
    BY <1>5 DEF EvaluatesInline, At, ClientsOK
  <2>2. /\ trace' = IF async /\ TraceLimit # 0 THEN [trace EXCEPT ![c] = Recorded(@, n)]
                                               ELSE trace
        /\ done' = IF async THEN done \cup {n} ELSE done
        /\ UNCHANGED <<asked, blamed>>
    BY <1>5 DEF EvaluatesInline
  <2>3. trace[c] \in Seq(Entries) /\ n \in Int
    BY <2>1 DEF FeedbackInv, Types
  <2>4. TraceLimit # 0 => Recorded(trace[c], n) \in Seq(Entries)
    BY <2>3, RecordedAfterLast
  <2>5. trace' \in [Clients -> Seq(Entries)]
    BY <2>2, <2>4 DEF FeedbackInv
  <2>6. (IInv /\ inline => ByteOK)'
    BY NothingWaitsInline, PTL
  <2> HIDE DEF n
  <2>7. ByteOK'
    BY <2>1, <2>6
  <2> QED BY <2>1, <2>2, <2>5, <2>7 DEF FeedbackInv, BlamesChosen
<1>6. ASSUME NEW c \in Clients, Returns(c) \/ Sleeps(c) \/ WakesSpuriously(c) \/ Abandons(c)
      PROVE  FeedbackInv'
  <2>1. Quiet /\ UNCHANGED <<queue, work, done>>
    BY <1>6 DEF Returns, Sleeps, WakesSpuriously, Abandons, Keeps, feedback
  <2>2. \A d \in Clients : pc'[d].of = pc[d].of \/ pc[d].of \in done
    <3>1. CASE Returns(c)
      <4>1. pc[c].of \in done /\ pc' = [pc EXCEPT ![c] = Idle]
        BY <3>1 DEF Returns
      <4> QED BY <4>1 DEF Types
    <3>2. CASE Sleeps(c) \/ WakesSpuriously(c) \/ Abandons(c)
      <4>1. PICK at : pc' = [pc EXCEPT ![c] = [at |-> at, of |-> pc[c].of]]
        BY <3>2 DEF Sleeps, WakesSpuriously, Abandons, Goes
      <4> QED BY <4>1 DEF Types
    <3> QED BY <1>6, <3>1, <3>2
  <2> QED BY <2>1, <2>2, <1>1
<1>7. ASSUME NEW c \in Clients, NEW w \in Workers, Commands(c, w) PROVE FeedbackInv'
  <2> DEFINE r == [kind |-> "command", expression |-> FALSE, client |-> c, worker |-> w,
                   device |-> "cpu"]
  <2>1. r \in Requests /\ asked' = Append(asked, r) /\ r.kind = "command"
    BY <1>7 DEF Requests, Commands, Devices
  <2> HIDE DEF r
  <2>2. /\ DOMAIN asked' = DOMAIN asked \cup {Number} /\ Number \notin DOMAIN asked
        /\ asked'[Number] = r /\ \A n \in DOMAIN asked : asked'[n] = asked[n]
    BY <2>1, OneMore
  <2>3. /\ queue' = [queue EXCEPT ![w] = @ \cup {Number}]
        /\ UNCHANGED <<pc, work, done, trace, blamed>>
    BY <1>7 DEF Commands, feedback
  <2> HIDE DEF Number
  <2>4. ByteOK'
    <3> SUFFICES ASSUME NEW n \in Evaluations', asked'[n].kind # "f32", Waits(n)'
                 PROVE  n \notin done' /\ pc'[asked'[n].client].of = n /\ LastIsByte(n)'
      BY DEF ByteOK
    <3>1. n \in DOMAIN asked /\ asked'[n] = asked[n] /\ n # Number /\ n \in Evaluations
      BY <2>1, <2>2 DEF Evaluations, Asked
    <3>2. Waits(n)
      BY <3>1, <2>3, Known DEF Waits, Types
    <3> QED BY <3>1, <3>2, <2>3 DEF FeedbackInv, ByteOK, LastIsByte
  <2> QED BY <2>2, <2>3, <2>4 DEF FeedbackInv, BlamesChosen
<1>8. ASSUME NEW w \in Workers, Takes(w) PROVE FeedbackInv'
  <2>1. PICK m \in queue[w], at \in Busy :
          /\ queue' = [queue EXCEPT ![w] = @ \ {m}]
          /\ work' = [work EXCEPT ![w] = [at |-> at, of |-> m]]
    BY <1>8 DEF Takes, Moves, Stages, Busy
  <2>2. Quiet /\ UNCHANGED <<pc, done>>
    BY <1>8 DEF Takes, asking, tickets, feedback
  <2>3. \A n \in Evaluations : Waits(n)' => Waits(n)
    <3> SUFFICES ASSUME NEW n \in Evaluations, Waits(n)' PROVE Waits(n)
      OBVIOUS
    <3>1. asked[n].worker \in Workers /\ asked[m].worker = w
      BY Known DEF QueuesOK
    <3> QED BY <3>1, <2>1, <2>2 DEF Waits, Types
  <2> QED BY <2>2, <2>3, <1>2
<1>9. ASSUME NEW w \in Workers, FeedsBack(w) PROVE FeedbackInv'
  <2>1. UNCHANGED <<asked, done>>
    BY <1>9 DEF FeedsBack, asking, tickets
  <2> QED BY <2>1, <1>9, ByteFedBack
<1>10. ASSUME NEW w \in Workers, Answers(w) PROVE FeedbackInv'
  <2> DEFINE m == work[w].of
  <2>1. /\ work[w].at = "answer" /\ done' = done \cup {m} /\ GoesOn(w)
        /\ UNCHANGED <<pc, queue>> /\ Quiet
    BY <1>10 DEF Answers, Doing, asking, feedback
  <2>2. m \in DOMAIN asked /\ asked[m].worker = w /\ m \notin queue[w]
    BY <2>1 DEF WorkersOK, Busy
  <2>3. PICK at \in {"answer", "notify", "settle"} :
          work' = [work EXCEPT ![w] = [at |-> at, of |-> m]]
    BY <2>1, NextStage
  <2>4. \A n \in Evaluations : Waits(n)' => Waits(n) /\ n # m
    <3> SUFFICES ASSUME NEW n \in Evaluations, Waits(n)' PROVE Waits(n) /\ n # m
      OBVIOUS
    <3>1. asked[n].worker \in Workers
      BY Known
    <3> QED BY <3>1, <2>1, <2>2, <2>3 DEF Waits, Types
  <2>5. ByteOK'
    BY <2>1, <2>4, ByteKept DEF FeedbackInv
  <2> QED BY <2>1, <2>2, <2>5 DEF FeedbackInv, BlamesChosen
<1>11. ASSUME NEW w \in Workers, Notifies(w) PROVE FeedbackInv'
  <2> DEFINE m == work[w].of
  <2>1. work[w].at = "notify" /\ GoesOn(w) /\ UNCHANGED <<queue, done>> /\ Quiet
    BY <1>11 DEF Notifies, Doing, tickets, feedback
  <2>2. PICK at \in {"answer", "notify", "settle"} :
          work' = [work EXCEPT ![w] = [at |-> at, of |-> m]]
    BY <2>1, NextStage
  <2>3. \A n \in Evaluations : Waits(n)' => Waits(n)
    <3> SUFFICES ASSUME NEW n \in Evaluations, Waits(n)' PROVE Waits(n)
      OBVIOUS
    <3>1. asked[n].worker \in Workers
      BY Known
    <3> QED BY <3>1, <2>1, <2>2 DEF Waits, Types
  <2>4. \A c \in Clients : pc'[c].of = pc[c].of
    <3>1. pc' = [c \in Clients |-> IF pc[c] = [at |-> "asleep", of |-> m]
                                     THEN [pc[c] EXCEPT !.at = "waiting"] ELSE pc[c]]
      BY <1>11 DEF Notifies
    <3> QED BY <3>1 DEF Types
  <2> QED BY <2>1, <2>3, <2>4, <1>2
<1>12. ASSUME NEW w \in Workers, Settles(w) \/ Terminates(w) \/ Persists(w) \/ Destroys(w)
       PROVE  FeedbackInv'
  <2>1. UNCHANGED <<pc, done>> /\ Quiet
    BY <1>12 DEF Settles, Terminates, Persists, Destroys, asking, tickets, feedback
  <2>2. /\ \A v \in Workers : queue'[v] \subseteq queue[v]
        /\ \/ UNCHANGED work
           \/ \E at \in {"idle", "terminated", "gone"} :
                work' = [work EXCEPT ![w] = [at |-> at, of |-> None]]
    BY <1>12 DEF Settles, Terminates, Persists, Destroys, Idle, Moves, Types, asking
  <2>3. \A n \in Evaluations : Waits(n)' => Waits(n)
    <3> SUFFICES ASSUME NEW n \in Evaluations, Waits(n)' PROVE Waits(n)
      OBVIOUS
    <3>1. asked[n].worker \in Workers
      BY Known
    <3>2. CASE UNCHANGED work
      BY <3>1, <3>2, <2>1, <2>2 DEF Waits
    <3>3. CASE ~UNCHANGED work
      <4>1. PICK at \in {"idle", "terminated", "gone"} :
              work' = [work EXCEPT ![w] = [at |-> at, of |-> None]]
        BY <3>3, <2>2
      <4> QED BY <3>1, <4>1, <2>1, <2>2 DEF Waits, Types
    <3> QED BY <3>2, <3>3
  <2> QED BY <2>1, <2>3, <1>2
<1>13. CASE Tells \/ UNCHANGED vars
  <2>1. Quiet /\ UNCHANGED <<pc, queue, work, done>>
    BY <1>13 DEF Tells, vars, asking, tickets, feedback
  <2> QED BY <2>1, <1>0
<1> HIDE DEF Quiet
<1> QED BY <1>3, <1>4, <1>5, <1>6, <1>7, <1>8, <1>9, <1>10, <1>11, <1>12, <1>13
        DEF Next, ClientStep, Call, WorkerStep

\* The bias a failure lowers is that of the byte chosen for the request that failed:
\* no other request of that interpreter state came between the choice and the
\* feedback, whatever the workers do in between.
THEOREM BlamesTheChosen == Spec => []BlamesChosen
<1>1. Init => FeedbackInv
  <2> SUFFICES ASSUME Init PROVE FeedbackInv
    OBVIOUS
  <2>1. ByteOK /\ BlamesChosen /\ done = {}
    BY DEF Init, ByteOK, BlamesChosen, Evaluations, Asked
  <2>2. trace \in [Clients -> Seq(Entries)]
    BY DEF Init
  <2> QED BY <2>1, <2>2 DEF FeedbackInv
<1>2. IInv /\ IInv' /\ FeedbackInv /\ [Next]_vars => FeedbackInv'
  BY ByteStep
<1>3. FeedbackInv => BlamesChosen
  BY DEF FeedbackInv
<1> QED BY <1>1, <1>2, <1>3, EvaluationInvariance, PTL DEF Spec

----------------------------------------------------------------------------
(* What becomes of commands                                                *)

In(rows, n) == \E i \in DOMAIN rows : rows[i] = n
CopiesIn(stored, n) == {r \in stored : r.row = n}
WithRows(stored, last, rows, k) ==
  stored \cup {[id |-> last + i, row |-> rows[i]] : i \in 1 .. k}

\* A buffer, the rows on the disk beside it and the last id, when the events S have
\* been dispatched and some stores have failed: each failure may leave one more copy
\* of a row, and what is still in the buffer has none for the flush to come.
RowsOK(rows, stored, last, S, failed) ==
  /\ rows \in Seq(Int) /\ stored \subseteq [id : Int, row : Int]
  /\ \A i, j \in DOMAIN rows : rows[i] = rows[j] => i = j
  /\ \A i \in DOMAIN rows : rows[i] \in S
  /\ \A r \in stored : r.id <= last /\ r.row \in S
  /\ \A r, s \in stored : r.id = s.id => r = s
  /\ \A n \in Int : /\ IsFiniteSet(CopiesIn(stored, n))
                    /\ Cardinality(CopiesIn(stored, n)) <= failed + 1
                    /\ In(rows, n) => Cardinality(CopiesIn(stored, n)) <= failed

CommandsInv ==
  /\ buffer \in [Workers -> Seq(Int)] /\ nextId \in [Workers -> Nat]
  /\ disk \in [Workers -> SUBSET [id : Int, row : Int]] /\ failures \in Nat
  /\ \A w \in Workers : RowsOK(buffer[w], disk[w], nextId[w], settled, failures)
  /\ \A n \in settled \ Evaluations :
       In(buffer[asked[n].worker], n) \/ CopiesIn(disk[asked[n].worker], n) # {}
  /\ \A w \in Workers : work[w].at = "gone" /\ failures = 0 => buffer[w] = <<>>

LEMMA RowsWeaken ==
  ASSUME NEW rows, NEW stored, NEW last \in Nat, NEW S, NEW T, NEW f \in Nat, NEW g \in Nat,
         RowsOK(rows, stored, last, S, f), S \subseteq T, f <= g
  PROVE  RowsOK(rows, stored, last, T, g)
<1>1. ASSUME NEW n \in Int
      PROVE  /\ IsFiniteSet(CopiesIn(stored, n))
             /\ Cardinality(CopiesIn(stored, n)) <= g + 1
             /\ In(rows, n) => Cardinality(CopiesIn(stored, n)) <= g
  <2>1. /\ IsFiniteSet(CopiesIn(stored, n))
        /\ Cardinality(CopiesIn(stored, n)) <= f + 1
        /\ In(rows, n) => Cardinality(CopiesIn(stored, n)) <= f
    BY DEF RowsOK
  <2>2. Cardinality(CopiesIn(stored, n)) \in Nat
    BY <2>1, FS_CardinalityType
  <2> QED BY <2>1, <2>2
<1> QED BY <1>1 DEF RowsOK

LEMMA InAppend ==
  ASSUME NEW rows \in Seq(Int), NEW m \in Int
  PROVE  \A n : In(Append(rows, m), n) <=> (In(rows, n) \/ n = m)
<1> DEFINE more == Append(rows, m)
<1>1. /\ DOMAIN more = 1 .. Len(rows) + 1 /\ DOMAIN rows = 1 .. Len(rows) /\ Len(rows) \in Nat
      /\ \A i \in 1 .. Len(rows) : more[i] = rows[i]
      /\ more[Len(rows) + 1] = m
  OBVIOUS
<1> HIDE DEF more
<1>2. ASSUME NEW n, In(more, n) PROVE In(rows, n) \/ n = m
  BY <1>1, <1>2 DEF In
<1>3. ASSUME NEW n, In(rows, n) PROVE In(more, n)
  BY <1>1, <1>3 DEF In
<1>4. In(more, m)
  <2>1. Len(rows) + 1 \in DOMAIN more
    BY <1>1
  <2> QED BY <1>1, <2>1 DEF In
<1> QED BY <1>2, <1>3, <1>4 DEF more

\* A new event is dispatched: it is buffered and nowhere on the disk.
LEMMA RowBuffered ==
  ASSUME NEW rows, NEW stored, NEW last \in Nat, NEW S, NEW f \in Nat, NEW m \in Int,
         RowsOK(rows, stored, last, S, f), m \notin S
  PROVE  RowsOK(Append(rows, m), stored, last, S \cup {m}, f)
<1> DEFINE more == Append(rows, m)
<1>1. /\ rows \in Seq(Int) /\ more \in Seq(Int) /\ DOMAIN more = 1 .. Len(rows) + 1
      /\ DOMAIN rows = 1 .. Len(rows) /\ Len(rows) \in Nat
      /\ \A i \in 1 .. Len(rows) : more[i] = rows[i]
      /\ more[Len(rows) + 1] = m
  BY DEF RowsOK
<1> HIDE DEF more
<1>2. \A i \in DOMAIN rows : rows[i] \in S
  BY DEF RowsOK
<1>3. \A i, j \in DOMAIN more : more[i] = more[j] => i = j
  BY <1>1, <1>2 DEF RowsOK
<1>4. \A i \in DOMAIN more : more[i] \in S \cup {m}
  BY <1>1, <1>2
<1>5. ASSUME NEW n \in Int, In(more, n)
      PROVE  Cardinality(CopiesIn(stored, n)) <= f
  <2>1. CASE n = m
    <3>1. CopiesIn(stored, n) = {}
      BY <2>1 DEF CopiesIn, RowsOK
    <3>2. Cardinality(CopiesIn(stored, n)) = 0
      BY <3>1, FS_EmptySet
    <3> QED BY <3>2
  <2>2. CASE n # m
    <3>1. In(rows, n)
      BY <2>2, <1>1, <1>5 DEF In
    <3> QED BY <3>1 DEF RowsOK
  <2> QED BY <2>1, <2>2
<1> QED BY <1>1, <1>3, <1>4, <1>5 DEF RowsOK, more

\* A flush stores the first k rows under fresh ids.  If these are all, each has its
\* one copy more than failures; otherwise the failure accounts for it.
LEMMA RowsStored ==
  ASSUME NEW rows, NEW stored, NEW last \in Nat, NEW S, NEW f \in Nat,
         RowsOK(rows, stored, last, S, f), NEW k \in 0 .. Len(rows)
  PROVE  /\ RowsOK(rows, WithRows(stored, last, rows, k), last + k + 1, S, f + 1)
         /\ k = Len(rows) => /\ RowsOK(<<>>, WithRows(stored, last, rows, k), last + k, S, f)
                             /\ \A n : In(rows, n) =>
                                  CopiesIn(WithRows(stored, last, rows, k), n) # {}
         /\ stored \subseteq WithRows(stored, last, rows, k)
<1> DEFINE new == {[id |-> last + i, row |-> rows[i]] : i \in 1 .. k}
           more == stored \cup new
<1>1. rows \in Seq(Int) /\ DOMAIN rows = 1 .. Len(rows) /\ Len(rows) \in Nat /\ k \in Nat
  BY DEF RowsOK
<1>2. \A i \in 1 .. k : i \in DOMAIN rows /\ rows[i] \in Int /\ rows[i] \in S
  BY <1>1 DEF RowsOK
<1>3. more \subseteq [id : Int, row : Int]
  BY <1>2 DEF RowsOK
<1>4. \A r \in more : r.id <= last + k /\ r.row \in S
  <2>1. \A r \in stored : r.id \in Int /\ r.id <= last /\ r.row \in S
    BY DEF RowsOK
  <2> QED BY <1>1, <1>2, <2>1
<1>5. \A r, s \in more : r.id = s.id => r = s
  <2>1. \A r \in stored : r.id \in Int /\ r.id <= last
    BY DEF RowsOK
  <2>2. \A r \in new : r.id \in Int /\ r.id > last
    OBVIOUS
  <2>3. \A r, s \in new : r.id = s.id => r = s
    OBVIOUS
  <2>4. \A r, s \in stored : r.id = s.id => r = s
    BY DEF RowsOK
  <2> HIDE DEF new
  <2> QED BY <2>1, <2>2, <2>3, <2>4
<1>6. ASSUME NEW n \in Int
      PROVE  /\ IsFiniteSet(CopiesIn(more, n))
             /\ Cardinality(CopiesIn(more, n)) \in Nat
             /\ In(rows, n) => Cardinality(CopiesIn(more, n)) <= f + 1
             /\ Cardinality(CopiesIn(more, n)) <= f + 1
  <2>1. IsFiniteSet(CopiesIn(stored, n)) /\ Cardinality(CopiesIn(stored, n)) \in Nat
    BY FS_CardinalityType DEF RowsOK
  <2>2. CASE \E i \in 1 .. k : rows[i] = n
    <3>1. PICK i \in 1 .. k : rows[i] = n
      BY <2>2
    <3>2. \A j \in 1 .. k : rows[j] = n => j = i
      BY <1>1, <1>2, <3>1 DEF RowsOK
    <3> DEFINE e == [id |-> last + i, row |-> rows[i]]
    <3>3. CopiesIn(more, n) = CopiesIn(stored, n) \cup {e}
      BY <3>1, <3>2 DEF CopiesIn
    <3>4. e \notin CopiesIn(stored, n)
      <4>1. e.id > last
        OBVIOUS
      <4> QED BY <4>1 DEF CopiesIn, RowsOK
    <3> HIDE DEF e, more
    <3>5. /\ IsFiniteSet(CopiesIn(more, n))
          /\ Cardinality(CopiesIn(more, n)) = Cardinality(CopiesIn(stored, n)) + 1
      BY <2>1, <3>3, <3>4, FS_AddElement
    <3>6. In(rows, n)
      BY <1>2, <3>1 DEF In
    <3>7. Cardinality(CopiesIn(stored, n)) <= f
      BY <3>6 DEF RowsOK
    <3> QED BY <2>1, <3>5, <3>7
  <2>3. CASE ~\E i \in 1 .. k : rows[i] = n
    <3>1. CopiesIn(more, n) = CopiesIn(stored, n)
      BY <2>3 DEF CopiesIn
    <3>2. Cardinality(CopiesIn(stored, n)) <= f + 1
      BY DEF RowsOK
    <3> HIDE DEF more
    <3> QED BY <2>1, <3>1, <3>2
  <2> QED BY <2>2, <2>3
<1>7. ASSUME k = Len(rows), NEW n, In(rows, n) PROVE CopiesIn(more, n) # {}
  <2>1. PICK i \in 1 .. k : rows[i] = n
    BY <1>1, <1>7 DEF In
  <2>2. [id |-> last + i, row |-> rows[i]] \in CopiesIn(more, n)
    BY <2>1 DEF CopiesIn
  <2> QED BY <2>2
<1> HIDE DEF new, more
<1>8. RowsOK(rows, more, last + k + 1, S, f + 1)
  <2>1. \A r \in more : r.id <= last + k + 1 /\ r.row \in S
    BY <1>1, <1>3, <1>4
  <2>2. ASSUME NEW n \in Int
        PROVE  /\ IsFiniteSet(CopiesIn(more, n))
               /\ Cardinality(CopiesIn(more, n)) <= (f + 1) + 1
               /\ In(rows, n) => Cardinality(CopiesIn(more, n)) <= f + 1
    <3> DEFINE size == Cardinality(CopiesIn(more, n))
    <3>1. IsFiniteSet(CopiesIn(more, n)) /\ size \in Nat /\ size <= f + 1
      BY <1>6
    <3> HIDE DEF size
    <3>2. size <= (f + 1) + 1
      BY <3>1
    <3> QED BY <3>1, <3>2 DEF size
  <2> QED BY <1>1, <1>2, <1>3, <1>5, <2>1, <2>2 DEF RowsOK
<1>9. RowsOK(<<>>, more, last + k, S, f)
  <2>1. \A n : ~In(<<>>, n)
    BY DEF In
  <2>2. \A n \in Int : IsFiniteSet(CopiesIn(more, n)) /\ Cardinality(CopiesIn(more, n)) <= f + 1
    BY <1>6
  <2>3. <<>> \in Seq(Int) /\ DOMAIN <<>> = {}
    OBVIOUS
  <2> QED BY <1>3, <1>4, <1>5, <2>1, <2>2, <2>3 DEF RowsOK
<1>10. WithRows(stored, last, rows, k) = more
  BY DEF WithRows, more, new
<1> QED BY <1>7, <1>8, <1>9, <1>10 DEF more

LEMMA SettledByWorkers ==
  ASSUME Types, NEW n \in settled
  PROVE  asked[n].worker \in Workers
<1>1. asked[n] \in Requests
  BY DEF Types
<1> QED BY <1>1 DEF Requests

\* What one flush does to its own worker, and to nobody else.
LEMMA Flushed ==
  ASSUME CommandsInv, NEW w \in Workers, NEW rows, NEW S,
         RowsOK(rows, disk[w], nextId[w], S, failures), Flush(w, rows)
  PROVE  /\ buffer' \in [Workers -> Seq(Int)] /\ nextId' \in [Workers -> Nat]
         /\ disk' \in [Workers -> SUBSET [id : Int, row : Int]] /\ failures' \in Nat
         /\ failures <= failures'
         /\ RowsOK(buffer'[w], disk'[w], nextId'[w], S, failures')
         /\ \A v \in Workers \ {w} :
              buffer'[v] = buffer[v] /\ nextId'[v] = nextId[v] /\ disk'[v] = disk[v]
         /\ \A n : (In(rows, n) \/ CopiesIn(disk[w], n) # {})
                     => (In(buffer'[w], n) \/ CopiesIn(disk'[w], n) # {})
         /\ failures' = 0 => buffer'[w] = <<>>
<1>1. PICK k \in 0 .. Len(rows) :
        /\ disk' = [disk EXCEPT ![w] = WithRows(disk[w], nextId[w], rows, k)]
        /\ IF k = Len(rows)
             THEN /\ buffer' = [buffer EXCEPT ![w] = <<>>]
                  /\ nextId' = [nextId EXCEPT ![w] = @ + k]
                  /\ UNCHANGED failures
             ELSE /\ failures' = failures + 1
                  /\ buffer' = [buffer EXCEPT ![w] = rows]
                  /\ nextId' = [nextId EXCEPT ![w] = @ + k + 1]
  BY DEF Flush, Kept, WithRows
<1> DEFINE more == WithRows(disk[w], nextId[w], rows, k)
<1>2. /\ nextId[w] \in Nat /\ failures \in Nat /\ rows \in Seq(Int) /\ k \in Nat
      /\ disk' = [disk EXCEPT ![w] = more]
  BY <1>1 DEF CommandsInv, RowsOK
<1>3. /\ RowsOK(rows, more, nextId[w] + k + 1, S, failures + 1)
      /\ k = Len(rows) => RowsOK(<<>>, more, nextId[w] + k, S, failures)
      /\ k = Len(rows) => \A n : In(rows, n) => CopiesIn(more, n) # {}
      /\ disk[w] \subseteq more
  BY <1>2, RowsStored
<1>4. more \subseteq [id : Int, row : Int]
  BY <1>3 DEF RowsOK
<1> HIDE DEF more
<1>5. \A n : CopiesIn(disk[w], n) # {} => CopiesIn(more, n) # {}
  BY <1>3 DEF CopiesIn
<1>6. disk' \in [Workers -> SUBSET [id : Int, row : Int]] /\ disk'[w] = more
  BY <1>2, <1>4 DEF CommandsInv
<1>7. CASE k = Len(rows)
  <2>1. /\ buffer' = [buffer EXCEPT ![w] = <<>>] /\ failures' = failures
        /\ nextId' = [nextId EXCEPT ![w] = @ + k]
    BY <1>1, <1>7
  <2>2. /\ buffer' \in [Workers -> Seq(Int)] /\ buffer'[w] = <<>>
        /\ nextId' \in [Workers -> Nat] /\ nextId'[w] = nextId[w] + k
    BY <2>1, <1>2 DEF CommandsInv
  <2>3. RowsOK(buffer'[w], disk'[w], nextId'[w], S, failures')
    BY <2>1, <2>2, <1>3, <1>6, <1>7
  <2>4. \A v \in Workers \ {w} :
          buffer'[v] = buffer[v] /\ nextId'[v] = nextId[v] /\ disk'[v] = disk[v]
    BY <2>1, <1>2 DEF CommandsInv
  <2>5. \A n : (In(rows, n) \/ CopiesIn(disk[w], n) # {})
                => (In(buffer'[w], n) \/ CopiesIn(disk'[w], n) # {})
    BY <2>2, <1>3, <1>5, <1>6, <1>7
  <2>6. failures' \in Nat /\ failures <= failures' /\ (failures' = 0 => buffer'[w] = <<>>)
    BY <2>1, <2>2, <1>2
  <2> QED BY <2>2, <2>3, <2>4, <2>5, <2>6, <1>6
<1>8. CASE k # Len(rows)
  <2>1. /\ buffer' = [buffer EXCEPT ![w] = rows] /\ failures' = failures + 1
        /\ nextId' = [nextId EXCEPT ![w] = @ + k + 1]
    BY <1>1, <1>8
  <2>2. /\ buffer' \in [Workers -> Seq(Int)] /\ buffer'[w] = rows
        /\ nextId' \in [Workers -> Nat] /\ nextId'[w] = nextId[w] + k + 1
    BY <2>1, <1>2 DEF CommandsInv
  <2>3. RowsOK(buffer'[w], disk'[w], nextId'[w], S, failures')
    BY <2>1, <2>2, <1>3, <1>6, <1>8
  <2>4. \A v \in Workers \ {w} :
          buffer'[v] = buffer[v] /\ nextId'[v] = nextId[v] /\ disk'[v] = disk[v]
    BY <2>1, <1>2 DEF CommandsInv
  <2>5. \A n : (In(rows, n) \/ CopiesIn(disk[w], n) # {})
                => (In(buffer'[w], n) \/ CopiesIn(disk'[w], n) # {})
    BY <2>2, <1>3, <1>5, <1>6, <1>8
  <2>6. failures' \in Nat /\ failures <= failures' /\ (failures' = 0 => buffer'[w] = <<>>)
    BY <2>1, <2>2, <1>2
  <2> QED BY <2>2, <2>3, <2>4, <2>5, <2>6, <1>6
<1> QED BY <1>7, <1>8

\* Steps that dispatch no command and flush nothing.
LEMMA CommandsUntouched ==
  ASSUME IInv, CommandsInv,
         settled' \in SUBSET (settled \cup Evaluations'), settled \subseteq settled',
         \A n \in DOMAIN asked : asked'[n] = asked[n], DOMAIN asked \subseteq DOMAIN asked',
         UNCHANGED persistence,
         \A w \in Workers : work'[w].at = "gone" => work[w].at = "gone"
  PROVE  CommandsInv'
<1>1. UNCHANGED <<buffer, nextId, disk, failures>>
  BY DEF persistence
<1>2. \A w \in Workers : RowsOK(buffer[w], disk[w], nextId[w], settled', failures)
  BY RowsWeaken DEF CommandsInv
<1>3. \A n \in settled' \ Evaluations' : n \in settled \ Evaluations /\ asked'[n] = asked[n]
  BY DEF IInv, Types, Evaluations, Asked
<1> QED BY <1>1, <1>2, <1>3 DEF CommandsInv

LEMMA CommandDispatched ==
  ASSUME IInv, CommandsInv, NEW w \in Workers, Persists(w)
  PROVE  CommandsInv'
<1> USE DEF IInv
<1>1. PICK m \in queue[w] :
        /\ asked[m].kind = "command" /\ settled' = settled \cup {m}
        /\ LET rows == Append(buffer[w], m) IN
           IF Len(rows) < BatchSize
             THEN buffer' = [buffer EXCEPT ![w] = rows] /\ UNCHANGED <<nextId, disk, failures>>
             ELSE Flush(w, rows)
  BY DEF Persists
<1>2. /\ UNCHANGED <<asked, work>> /\ work[w].at = "idle" /\ m \in Int /\ m \notin settled
      /\ asked[m].worker = w
  BY DEF Persists, Doing, asking, QueuesOK, Types
<1> DEFINE rows == Append(buffer[w], m)
<1>3. RowsOK(rows, disk[w], nextId[w], settled', failures)
  BY <1>1, <1>2, RowBuffered DEF CommandsInv
<1>4. /\ buffer[w] \in Seq(Int) /\ rows \in Seq(Int)
      /\ \A n : In(rows, n) <=> (In(buffer[w], n) \/ n = m)
  BY <1>2, InAppend DEF CommandsInv
<1>5. \A v \in Workers : RowsOK(buffer[v], disk[v], nextId[v], settled', failures)
  BY <1>1, RowsWeaken DEF CommandsInv
<1>6. \A n \in settled' \ Evaluations' :
        \/ n \in settled \ Evaluations
        \/ n = m
  BY <1>1, <1>2 DEF Evaluations, Asked
<1>7. \A n \in settled \ Evaluations : asked[n].worker \in Workers
  BY SettledByWorkers
<1>8. CASE Len(rows) < BatchSize
  <2>1. buffer' = [buffer EXCEPT ![w] = rows] /\ UNCHANGED <<nextId, disk, failures>>
    BY <1>1, <1>8
  <2> HIDE DEF rows
  <2>2. /\ buffer' \in [Workers -> Seq(Int)] /\ buffer'[w] = rows
        /\ \A v \in Workers \ {w} : buffer'[v] = buffer[v]
    BY <2>1, <1>4 DEF CommandsInv
  <2>3. \A v \in Workers : RowsOK(buffer'[v], disk'[v], nextId'[v], settled', failures')
    BY <2>1, <2>2, <1>3, <1>5
  <2>4. ASSUME NEW n \in settled' \ Evaluations'
        PROVE  In(buffer'[asked'[n].worker], n) \/ CopiesIn(disk'[asked'[n].worker], n) # {}
    BY <2>1, <2>2, <1>2, <1>4, <1>6, <1>7 DEF CommandsInv
  <2>5. \A v \in Workers : work'[v].at = "gone" /\ failures' = 0 => buffer'[v] = <<>>
    BY <2>1, <2>2, <1>2 DEF CommandsInv
  <2> QED BY <2>1, <2>2, <2>3, <2>4, <2>5 DEF CommandsInv
<1>9. CASE ~(Len(rows) < BatchSize)
  <2>1. Flush(w, rows)
    BY <1>1, <1>9
  <2> HIDE DEF rows
  <2>2. /\ buffer' \in [Workers -> Seq(Int)] /\ nextId' \in [Workers -> Nat]
        /\ disk' \in [Workers -> SUBSET [id : Int, row : Int]] /\ failures' \in Nat
        /\ failures <= failures'
        /\ RowsOK(buffer'[w], disk'[w], nextId'[w], settled', failures')
        /\ \A v \in Workers \ {w} :
             buffer'[v] = buffer[v] /\ nextId'[v] = nextId[v] /\ disk'[v] = disk[v]
        /\ \A n : (In(rows, n) \/ CopiesIn(disk[w], n) # {})
                    => (In(buffer'[w], n) \/ CopiesIn(disk'[w], n) # {})
    BY <2>1, <1>3, Flushed
  <2>3. \A v \in Workers : RowsOK(buffer'[v], disk'[v], nextId'[v], settled', failures')
    BY <2>2, <1>1, RowsWeaken DEF CommandsInv
  <2>4. ASSUME NEW n \in settled' \ Evaluations'
        PROVE  In(buffer'[asked'[n].worker], n) \/ CopiesIn(disk'[asked'[n].worker], n) # {}
    BY <2>2, <1>2, <1>4, <1>6, <1>7 DEF CommandsInv
  <2>5. \A v \in Workers : work'[v].at = "gone" /\ failures' = 0 => buffer'[v] = <<>>
    BY <2>2, <1>2 DEF CommandsInv
  <2> QED BY <2>2, <2>3, <2>4, <2>5 DEF CommandsInv
<1> QED BY <1>8, <1>9

LEMMA CommandsFlushedLast ==
  ASSUME IInv, CommandsInv, NEW w \in Workers, Destroys(w)
  PROVE  CommandsInv'
<1> USE DEF IInv
<1>1. /\ Flush(w, buffer[w]) /\ UNCHANGED <<asked, settled>>
      /\ work' = [work EXCEPT ![w] = [at |-> "gone", of |-> None]]
  BY DEF Destroys, Moves, asking
<1>2. RowsOK(buffer[w], disk[w], nextId[w], settled, failures)
  BY DEF CommandsInv
<1>3. /\ buffer' \in [Workers -> Seq(Int)] /\ nextId' \in [Workers -> Nat]
      /\ disk' \in [Workers -> SUBSET [id : Int, row : Int]] /\ failures' \in Nat
      /\ failures <= failures'
      /\ RowsOK(buffer'[w], disk'[w], nextId'[w], settled, failures')
      /\ \A v \in Workers \ {w} :
           buffer'[v] = buffer[v] /\ nextId'[v] = nextId[v] /\ disk'[v] = disk[v]
      /\ \A n : (In(buffer[w], n) \/ CopiesIn(disk[w], n) # {})
                  => (In(buffer'[w], n) \/ CopiesIn(disk'[w], n) # {})
      /\ failures' = 0 => buffer'[w] = <<>>
  BY <1>1, <1>2, Flushed
<1>4. \A v \in Workers : RowsOK(buffer'[v], disk'[v], nextId'[v], settled', failures')
  BY <1>1, <1>3, RowsWeaken DEF CommandsInv
<1>5. ASSUME NEW n \in settled' \ Evaluations'
      PROVE  In(buffer'[asked'[n].worker], n) \/ CopiesIn(disk'[asked'[n].worker], n) # {}
  <2>1. n \in settled \ Evaluations /\ asked'[n] = asked[n]
    BY <1>1, <1>5 DEF Evaluations, Asked
  <2>2. asked[n].worker \in Workers
    BY <2>1, SettledByWorkers
  <2> QED BY <2>1, <2>2, <1>3 DEF CommandsInv
<1>6. \A v \in Workers : work'[v].at = "gone" /\ failures' = 0 => buffer'[v] = <<>>
  BY <1>1, <1>3 DEF CommandsInv, Types
<1> QED BY <1>3, <1>4, <1>5, <1>6 DEF CommandsInv

LEMMA CommandsStepOK ==
  ASSUME IInv, CommandsInv, [Next]_vars
  PROVE  CommandsInv'
<1> USE DEF IInv
<1>1. ASSUME UNCHANGED <<asked, settled, persistence>>,
             \A w \in Workers : work'[w].at = "gone" => work[w].at = "gone"
      PROVE  CommandsInv'
  BY <1>1, CommandsUntouched
<1>2. ASSUME NEW r \in Requests, asked' = Append(asked, r),
             UNCHANGED <<work, settled, persistence>>
      PROVE  CommandsInv'
  <2>1. DOMAIN asked' = DOMAIN asked \cup {Number} /\ \A n \in DOMAIN asked : asked'[n] = asked[n]
    BY <1>2, OneMore
  <2> QED BY <2>1, <1>2, CommandsUntouched
<1>3. ASSUME NEW c \in Clients, Publishes(c) \/ StartsInline(c) PROVE CommandsInv'
  <2>1. PICK use \in Uses[c], device \in Devices : Evaluated(use) /\ Request(c, use, device)
    BY <1>3 DEF Publishes, StartsInline
  <2>2. PICK r \in Requests : asked' = Append(asked, r)
    BY <2>1, RequestMade
  <2>3. UNCHANGED <<work, settled, persistence>>
    BY <2>1 DEF Request
  <2> QED BY <2>2, <2>3, <1>2
<1>4. ASSUME NEW c \in Clients, NEW w \in Workers, Commands(c, w) PROVE CommandsInv'
  <2> DEFINE r == [kind |-> "command", expression |-> FALSE, client |-> c, worker |-> w,
                   device |-> "cpu"]
  <2>1. r \in Requests /\ asked' = Append(asked, r) /\ UNCHANGED <<work, settled, persistence>>
    BY <1>4 DEF Requests, Commands, Devices
  <2> HIDE DEF r
  <2> QED BY <2>1, <1>2
<1>5. ASSUME NEW n \in Evaluations, settled' = settled \cup {n}, UNCHANGED <<asked, persistence>>,
             \A w \in Workers : work'[w].at = "gone" => work[w].at = "gone"
      PROVE  CommandsInv'
  <2>1. settled' \in SUBSET (settled \cup Evaluations')
    BY <1>5 DEF Evaluations, Asked
  <2> QED BY <2>1, <1>5, CommandsUntouched
<1>6. ASSUME NEW c \in Clients, EvaluatesInline(c) PROVE CommandsInv'
  <2>1. pc[c].of \in Evaluations
    BY <1>6 DEF EvaluatesInline, At, ClientsOK, Evaluations, Asked
  <2>2. settled' = settled \cup {pc[c].of} /\ UNCHANGED <<asked, work, persistence>>
    BY <1>6 DEF EvaluatesInline
  <2> QED BY <2>1, <2>2, <1>5
<1>7. ASSUME NEW w \in Workers, Settles(w) PROVE CommandsInv'
  <2>1. work[w].of \in Evaluations
    BY <1>7 DEF Settles, Doing, WorkersOK, Busy, Evaluations, Asked
  <2>2. /\ settled' = settled \cup {work[w].of} /\ UNCHANGED <<asked, persistence>>
        /\ work' = [work EXCEPT ![w] = Idle]
    BY <1>7 DEF Settles, asking
  <2>3. \A v \in Workers : work'[v].at = "gone" => work[v].at = "gone"
    BY <2>2 DEF Types, Idle
  <2> QED BY <2>1, <2>2, <2>3, <1>5
<1>8. ASSUME NEW w \in Workers,
             Takes(w) \/ FeedsBack(w) \/ Answers(w) \/ Notifies(w) \/ Terminates(w)
      PROVE  CommandsInv'
  <2>1. UNCHANGED <<asked, settled, persistence>>
    BY <1>8 DEF Takes, FeedsBack, Answers, Notifies, Terminates, asking
  <2>2. \E at \in Busy \cup {"terminated"} : \E n : work' = [work EXCEPT ![w] = [at |-> at, of |-> n]]
    <3>1. CASE Takes(w)
      BY <3>1 DEF Takes, Moves, Stages, Busy
    <3>2. CASE FeedsBack(w) \/ Answers(w) \/ Notifies(w)
      <4>1. work[w].at \in {"feedback", "answer", "notify"} /\ GoesOn(w)
        BY <3>2 DEF FeedsBack, Answers, Notifies, Doing
      <4> QED BY <4>1, NextStage DEF Busy
    <3>3. CASE Terminates(w)
      BY <3>3 DEF Terminates, Moves
    <3> QED BY <1>8, <3>1, <3>2, <3>3
  <2>3. \A v \in Workers : work'[v].at = "gone" => work[v].at = "gone"
    BY <2>2 DEF Types, Busy
  <2> QED BY <2>1, <2>3, <1>1
<1>9. ASSUME NEW c \in Clients, Returns(c) \/ Sleeps(c) \/ WakesSpuriously(c) \/ Abandons(c)
      PROVE  CommandsInv'
  <2>1. UNCHANGED <<asked, settled, persistence, work>>
    BY <1>9 DEF Returns, Sleeps, WakesSpuriously, Abandons, Keeps
  <2> QED BY <2>1, <1>1
<1>10. CASE Tells \/ UNCHANGED vars
  <2>1. UNCHANGED <<asked, settled, persistence, work>>
    BY <1>10 DEF Tells, vars, asking
  <2> QED BY <2>1, <1>1
<1> QED BY <1>3, <1>4, <1>6, <1>7, <1>8, <1>9, <1>10, CommandDispatched, CommandsFlushedLast
        DEF Next, ClientStep, Call, WorkerStep

LEMMA CommandsSuffice ==
  ASSUME IInv, CommandsInv
  PROVE  CommandsKept
<1> SUFFICES ASSUME NEW w \in Workers
             PROVE  LET buffered == {buffer[w][i] : i \in DOMAIN buffer[w]}
                        copies(n) == {r \in disk[w] : r.row = n}
                    IN  /\ \A n \in settled \ Evaluations : asked[n].worker = w =>
                             /\ n \in buffered \/ copies(n) # {}
                             /\ Cardinality(copies(n)) <= 1 + failures
                        /\ \A r, s \in disk[w] : r.id = s.id => r = s
                        /\ Doing(w, "gone") /\ failures = 0 => buffer[w] = <<>>
  BY DEF CommandsKept
<1>1. RowsOK(buffer[w], disk[w], nextId[w], settled, failures) /\ failures \in Nat
  BY DEF CommandsInv
<1>2. ASSUME NEW n \in settled \ Evaluations, asked[n].worker = w
      PROVE  /\ In(buffer[w], n) \/ CopiesIn(disk[w], n) # {}
             /\ Cardinality(CopiesIn(disk[w], n)) <= 1 + failures
  <2>1. n \in Int
    BY DEF IInv, Types
  <2>2. Cardinality(CopiesIn(disk[w], n)) <= failures + 1
    BY <2>1, <1>1 DEF RowsOK
  <2>3. failures + 1 = 1 + failures
    BY <1>1
  <2>4. In(buffer[w], n) \/ CopiesIn(disk[w], n) # {}
    BY <1>2 DEF CommandsInv
  <2> QED BY <2>2, <2>3, <2>4
<1>3. \A r, s \in disk[w] : r.id = s.id => r = s
  BY <1>1 DEF RowsOK
<1>4. Doing(w, "gone") /\ failures = 0 => buffer[w] = <<>>
  BY DEF CommandsInv, Doing
<1> QED BY <1>2, <1>3, <1>4 DEF In, CopiesIn

\* A dispatched command is buffered or stored by its own worker through any number of
\* failing flushes and retries; each failure costs at most one copy, no id is used
\* twice, and without a failure the last flush leaves nothing behind.
THEOREM CommandsAreKept == Spec => []CommandsKept
<1>1. Init => CommandsInv
  <2> SUFFICES ASSUME Init PROVE CommandsInv
    OBVIOUS
  <2>1. \A n : CopiesIn({}, n) = {}
    BY DEF CopiesIn
  <2>2. \A n : IsFiniteSet(CopiesIn({}, n)) /\ Cardinality(CopiesIn({}, n)) = 0
    BY <2>1, FS_EmptySet
  <2>3. RowsOK(<<>>, {}, 0, {}, 0)
    BY <2>2 DEF RowsOK
  <2> QED BY <2>3 DEF Init, CommandsInv
<1>2. IInv /\ CommandsInv /\ [Next]_vars => CommandsInv'
  BY CommandsStepOK
<1>3. IInv /\ CommandsInv => CommandsKept
  BY CommandsSuffice
<1> QED BY <1>1, <1>2, <1>3, EvaluationInvariance, PTL DEF Spec
=============================================================================
