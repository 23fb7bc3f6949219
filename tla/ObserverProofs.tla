---------------------------- MODULE ObserverProofs -----------------------------
(***************************************************************************)
(* Leases of the legacy exchange are conserved, and the notice a worker    *)
(* acts on is always the lease registered for it, for any number of        *)
(* workers, partitions and publishers and wherever the generations wrap.   *)
(* A lease is announced once: by the publisher that acquired it, then by   *)
(* the one notice in the mailbox, then by the worker that drains.  So a    *)
(* partition changes only where it is leased, and nothing plain stays in   *)
(* it when it goes back without a graph event.  No worker uses a superstep *)
(* before the epoch is set up, so that the barrier counts who waits in it. *)
(***************************************************************************)
EXTENDS Observer, FiniteSetTheorems, SequenceTheorems, TLAPS

\* Where a publisher has a lease it has not announced yet.
Preparing == {"epoch", "superstep", "arrived", "push", "notify"}
Prepares(q, w) == publisher[q].at \in Preparing /\ publisher[q].worker = w

Closing == {"give up", "release"}

Publishing ==
  /\ publisher = [q \in Publishers |->
       [at |-> publisher[q].at, worker |-> publisher[q].worker, event |-> publisher[q].event]]
  /\ \A q \in Publishers : publisher[q].at # "idle" => publisher[q].worker \in Workers

Types ==
  /\ ready \in Seq(Partitions)
  /\ ctrl \in [Partitions -> [gen : 0 .. Generations - 1, closed : 0 .. Generations - 1]]
  /\ registry \in [Workers -> Leases \cup {NoLease}]
  /\ state = [w \in Workers |-> state[w]] /\ notice = [w \in Workers |-> notice[w]]
  /\ mailbox = [w \in Workers |-> mailbox[w]]
  /\ Publishing

\* A partition is ready in one place or leased to one worker.
Distinct ==
  /\ \A i, j \in DOMAIN ready : ready[i] = ready[j] => i = j
  /\ \A v, w \in Workers :
       HasOpen(v) /\ HasOpen(w) /\ registry[v].pid = registry[w].pid => v = w
  /\ \A w \in Workers, i \in DOMAIN ready : registry[w].pid # ready[i]
  /\ \A p \in Partitions :
       (\E i \in DOMAIN ready : ready[i] = p) \/ (\E w \in Workers : registry[w].pid = p)

\* The open lease of a worker is in one of three hands, a closed one in none.
Announced(w) ==
  /\ mailbox[w] \in {<<>>, <<registry[w]>>}
  /\ state[w] \in Draining => notice[w] = registry[w] /\ mailbox[w] = <<>>
  /\ ~HasOpen(w) => /\ mailbox[w] = <<>> /\ state[w] \notin Draining
                    /\ \A q \in Publishers : ~Prepares(q, w)
  /\ \A q \in Publishers : Prepares(q, w) =>
       /\ mailbox[w] = <<>> /\ state[w] \notin Draining
       /\ \A r \in Publishers : Prepares(r, w) => r = q
  /\ state[w] \in Closing => IsClosed(registry[w])

LeaseInv == Types /\ Distinct /\ \A w \in Workers : Announced(w)

LEMMA Facts ==
  /\ NumWorkers \in Nat \ {0} /\ NumPartitions \in Nat /\ Generations \in Nat \ {0}
  /\ NoLease \notin Leases /\ NoLease.pid \notin Partitions
  /\ \A lease \in Leases : lease.pid \in Partitions /\ lease.gen \in 0 .. Generations - 1
BY ExchangeAssumption DEF NoLease, Leases, Partitions

LEMMA InitOK == Init => LeaseInv
<1> SUFFICES ASSUME Init PROVE LeaseInv
  OBVIOUS
<1> USE Facts
<1>1. Types
  BY DEF Init, ExchangeInit, Types, Publishing, Idle, Partitions
<1>2. Distinct
  BY DEF Init, ExchangeInit, Distinct, HasOpen, Partitions
<1>3. \A w \in Workers : Announced(w)
  BY DEF Init, ExchangeInit, Announced, HasOpen, Prepares, Preparing, Idle, Draining, Closing
<1> QED BY <1>1, <1>2, <1>3 DEF LeaseInv

\* An open lease names a partition.
LEMMA OpenLease ==
  ASSUME Types, NEW w \in Workers
  PROVE  /\ HasOpen(w) <=> registry[w] \in Leases
         /\ HasOpen(w) <=> registry[w].pid \in Partitions
         /\ ~HasOpen(w) => registry[w] = NoLease
BY Facts DEF Types, HasOpen

----------------------------------------------------------------------------
(* What the operations of the exchange do to a partition's place           *)

LEMMA AcquireOK ==
  ASSUME Types, Distinct, NEW w \in Workers, Acquire(w)
  PROVE  /\ Distinct'
         /\ ready' \in Seq(Partitions) /\ registry' \in [Workers -> Leases \cup {NoLease}]
         /\ ctrl' \in [Partitions -> [gen : 0 .. Generations - 1, closed : 0 .. Generations - 1]]
         /\ HasOpen(w)' /\ \A v \in Workers \ {w} : registry'[v] = registry[v]
         /\ \A v \in Workers : HasOpen(v) => ctrl'[registry[v].pid] = ctrl[registry[v].pid]
<1> USE Facts
<1>1. /\ ready # <<>> /\ ready \in Seq(Partitions) /\ ~HasOpen(w)
      /\ ready' = Tail(ready) /\ registry' = [registry EXCEPT ![w] = NextLease]
      /\ ctrl' = [ctrl EXCEPT ![Head(ready)] = [gen |-> NextLease.gen, closed |-> 0]]
  BY DEF Acquire, Types
<1>2. /\ Len(ready) \in Nat \ {0} /\ DOMAIN ready = 1 .. Len(ready)
      /\ Head(ready) = ready[1] /\ Head(ready) \in Partitions
  BY <1>1, EmptySeq, LenProperties
<1>3. /\ ready' \in Seq(Partitions) /\ Len(ready') = Len(ready) - 1
      /\ DOMAIN ready' = 1 .. Len(ready) - 1
      /\ \A i \in DOMAIN ready' : ready'[i] = ready[i + 1]
  BY <1>1, <1>2, HeadTailProperties
<1>4. NextLease \in Leases /\ NextLease.pid = ready[1]
  <2>1. (ctrl[Head(ready)].gen + 1) % Generations \in 0 .. Generations - 1
    BY <1>2 DEF Types
  <2> QED BY <1>2, <2>1 DEF NextLease, Leases
<1>5. registry' \in [Workers -> Leases \cup {NoLease}] /\ registry'[w] = NextLease
      /\ \A v \in Workers \ {w} : registry'[v] = registry[v]
  BY <1>1, <1>4 DEF Types
<1>6. ctrl' \in [Partitions -> [gen : 0 .. Generations - 1, closed : 0 .. Generations - 1]]
  BY <1>1, <1>2, <1>4 DEF Types
<1>7. \A v \in Workers : HasOpen(v) => ctrl'[registry[v].pid] = ctrl[registry[v].pid]
  <2> SUFFICES ASSUME NEW v \in Workers, HasOpen(v)
               PROVE  ctrl'[registry[v].pid] = ctrl[registry[v].pid]
    OBVIOUS
  <2>1. registry[v].pid # Head(ready)
    BY <1>2 DEF Distinct
  <2>2. ctrl = [p \in Partitions |-> ctrl[p]] /\ registry[v].pid \in Partitions
    BY OpenLease DEF Types
  <2> QED BY <1>1, <2>1, <2>2
<1>8. Distinct'
  <2>1. \A i, j \in DOMAIN ready' : ready'[i] = ready'[j] => i = j
    BY <1>2, <1>3 DEF Distinct
  <2>2. \A v \in Workers, i \in DOMAIN ready' : registry'[v].pid # ready'[i]
    <3>1. \A i \in DOMAIN ready' : ready'[i] # ready[1]
      BY <1>2, <1>3 DEF Distinct
    <3>2. \A i \in DOMAIN ready' : i + 1 \in DOMAIN ready
      BY <1>2, <1>3
    <3>3. \A v \in Workers \ {w}, i \in DOMAIN ready' : registry[v].pid # ready'[i]
      BY <1>3, <3>2 DEF Distinct
    <3> QED BY <1>4, <1>5, <3>1, <3>3
  <2>3. ASSUME NEW u \in Workers, NEW v \in Workers, registry'[u] # NoLease, registry'[v] # NoLease,
               registry'[u].pid = registry'[v].pid
        PROVE  u = v
    <3>1. \A x \in Workers : registry[x].pid # ready[1]
      BY <1>2 DEF Distinct
    <3> QED BY <2>3, <3>1, <1>4, <1>5 DEF Distinct, HasOpen
  <2>4. ASSUME NEW p \in Partitions
        PROVE  (\E i \in DOMAIN ready' : ready'[i] = p) \/ (\E v \in Workers : registry'[v].pid = p)
    <3>1. CASE \E i \in DOMAIN ready : ready[i] = p
      <4>1. PICK i \in DOMAIN ready : ready[i] = p
        BY <3>1
      <4>2. CASE i = 1
        BY <1>4, <1>5, <4>1, <4>2
      <4>3. CASE i # 1
        <5>1. i - 1 \in DOMAIN ready' /\ ready'[i - 1] = p
          BY <1>2, <1>3, <4>1, <4>3
        <5> QED BY <5>1
      <4> QED BY <4>2, <4>3
    <3>2. CASE \E v \in Workers : registry[v].pid = p
      <4>1. PICK v \in Workers : registry[v].pid = p
        BY <3>2
      <4>2. v # w
        BY <1>1, <4>1 DEF HasOpen
      <4> QED BY <1>5, <4>1, <4>2
    <3> QED BY <3>1, <3>2 DEF Distinct
  <2> QED BY <2>1, <2>2, <2>3, <2>4 DEF Distinct, HasOpen
<1> QED BY <1>3, <1>4, <1>5, <1>6, <1>7, <1>8 DEF HasOpen

LEMMA ReleaseOK ==
  ASSUME Types, Distinct, NEW w \in Workers, HasOpen(w), IsClosed(registry[w]),
         NEW lease, Release(w, lease)
  PROVE  /\ Distinct'
         /\ ready' \in Seq(Partitions) /\ registry' \in [Workers -> Leases \cup {NoLease}]
         /\ ctrl' = ctrl /\ ~HasOpen(w)'
         /\ \A v \in Workers \ {w} : registry'[v] = registry[v]
<1> USE Facts
<1>1. ReleaseCode(w, lease) = 0
  BY DEF ReleaseCode
<1>2. /\ registry' = [registry EXCEPT ![w] = NoLease] /\ ctrl' = ctrl
      /\ ready' = Append(ready, registry[w].pid)
  BY <1>1 DEF Release
<1>3. registry[w] \in Leases /\ registry[w].pid \in Partitions /\ ready \in Seq(Partitions)
  BY OpenLease DEF Types
<1>4. registry' \in [Workers -> Leases \cup {NoLease}] /\ registry'[w] = NoLease
      /\ \A v \in Workers \ {w} : registry'[v] = registry[v]
  BY <1>2 DEF Types
<1>5. /\ ready' \in Seq(Partitions) /\ Len(ready) \in Nat /\ DOMAIN ready = 1 .. Len(ready)
      /\ DOMAIN ready' = 1 .. Len(ready) + 1
      /\ ready'[Len(ready) + 1] = registry[w].pid
      /\ \A i \in DOMAIN ready : ready'[i] = ready[i]
  BY <1>2, <1>3, AppendProperties, LenProperties
<1>6. \A i \in DOMAIN ready' : i \in DOMAIN ready \/ ready'[i] = registry[w].pid
  BY <1>5
<1>7. Distinct'
  <2>1. ASSUME NEW i \in DOMAIN ready', NEW j \in DOMAIN ready', ready'[i] = ready'[j]
        PROVE  i = j
    <3>1. CASE i \in DOMAIN ready /\ j \in DOMAIN ready
      BY <2>1, <3>1, <1>5 DEF Distinct
    <3>2. CASE i \notin DOMAIN ready /\ j \in DOMAIN ready
      BY <2>1, <3>2, <1>5, <1>6 DEF Distinct
    <3>3. CASE i \in DOMAIN ready /\ j \notin DOMAIN ready
      BY <2>1, <3>3, <1>5, <1>6 DEF Distinct
    <3>4. CASE i \notin DOMAIN ready /\ j \notin DOMAIN ready
      BY <3>4, <1>5
    <3> QED BY <3>1, <3>2, <3>3, <3>4
  <2>2. ASSUME NEW u \in Workers, NEW v \in Workers, registry'[u] # NoLease, registry'[v] # NoLease,
               registry'[u].pid = registry'[v].pid
        PROVE  u = v
    BY <2>2, <1>4 DEF Distinct, HasOpen
  <2>3. ASSUME NEW v \in Workers, NEW i \in DOMAIN ready' PROVE registry'[v].pid # ready'[i]
    <3>1. CASE v = w
      <4>1. ready'[i] \in Partitions
        BY <1>5, ElementOfSeq, LenProperties
      <4> QED BY <3>1, <4>1, <1>4
    <3>2. CASE v # w
      <4>1. registry[v].pid # registry[w].pid
        BY <3>2, <1>3, OpenLease DEF Distinct
      <4> QED BY <3>2, <4>1, <1>4, <1>5, <1>6 DEF Distinct
    <3> QED BY <3>1, <3>2
  <2>4. ASSUME NEW p \in Partitions
        PROVE  (\E i \in DOMAIN ready' : ready'[i] = p) \/ (\E v \in Workers : registry'[v].pid = p)
    <3>1. \A i \in DOMAIN ready : i \in DOMAIN ready'
      BY <1>5
    <3>2. Len(ready) + 1 \in DOMAIN ready'
      BY <1>5
    <3>3. CASE \E i \in DOMAIN ready : ready[i] = p
      BY <3>1, <3>3, <1>5
    <3>4. CASE \E v \in Workers : registry[v].pid = p
      <4>1. PICK v \in Workers : registry[v].pid = p
        BY <3>4
      <4>2. CASE v = w
        BY <3>2, <4>1, <4>2, <1>5
      <4>3. CASE v # w
        BY <4>1, <4>3, <1>4
      <4> QED BY <4>2, <4>3
    <3> QED BY <3>3, <3>4 DEF Distinct
  <2> QED BY <2>1, <2>2, <2>3, <2>4 DEF Distinct, HasOpen
<1> QED BY <1>2, <1>4, <1>5, <1>7 DEF HasOpen

----------------------------------------------------------------------------
(* The steps                                                               *)

\* A step that neither leases, announces nor drains.
LEMMA QuietStep ==
  ASSUME LeaseInv, UNCHANGED <<leasing, mailbox>>, Types',
         \A w \in Workers : /\ state'[w] \in Draining <=> state[w] \in Draining
                            /\ state'[w] \in Closing => state[w] \in Closing
                            /\ notice'[w] = notice[w],
         \A q \in Publishers, w \in Workers : Prepares(q, w)' <=> Prepares(q, w)
  PROVE  LeaseInv'
<1>1. Distinct'
  BY DEF LeaseInv, Distinct, HasOpen, leasing
<1>2. ASSUME NEW w \in Workers PROVE Announced(w)'
  BY <1>2 DEF LeaseInv, Announced, HasOpen, IsClosed, leasing
<1> QED BY <1>1, <1>2 DEF LeaseInv

\* What a worker's move does to the states.
LEMMA WorkerMoves ==
  ASSUME LeaseInv, NEW w \in Workers, NEW next, Becomes(w, next),
         UNCHANGED <<leasing, mailbox, notice, publisher>>,
         next \in Draining <=> state[w] \in Draining, next \in Closing => state[w] \in Closing
  PROVE  LeaseInv'
<1>1. /\ state' = [v \in Workers |-> state'[v]] /\ state'[w] = next
      /\ \A v \in Workers \ {w} : state'[v] = state[v]
  BY DEF LeaseInv, Types, Becomes
<1>2. Types'
  BY <1>1 DEF LeaseInv, Types, Publishing, leasing
<1>3. \A v \in Workers : /\ state'[v] \in Draining <=> state[v] \in Draining
                         /\ state'[v] \in Closing => state[v] \in Closing
                         /\ notice'[v] = notice[v]
  BY <1>1
<1>4. \A q \in Publishers, v \in Workers : Prepares(q, v)' <=> Prepares(q, v)
  BY DEF Prepares
<1> QED BY <1>2, <1>3, <1>4, QuietStep

LEMMA PopsNoticeStep ==
  ASSUME LeaseInv, NEW w \in Workers, PopsNotice(w)
  PROVE  LeaseInv'
<1>1. mailbox[w] = <<registry[w]>> /\ HasOpen(w) /\ state[w] \notin Draining
      /\ \A q \in Publishers : ~Prepares(q, w)
  BY DEF LeaseInv, Announced, PopsNotice, Draining
<1>2. UNCHANGED <<leasing, publisher>>
  BY DEF PopsNotice, others
<1>3. /\ state' = [v \in Workers |-> state'[v]] /\ state'[w] = "drain"
      /\ notice' = [v \in Workers |-> notice'[v]] /\ notice'[w] = registry[w]
      /\ mailbox' = [v \in Workers |-> mailbox'[v]] /\ mailbox'[w] = <<>>
      /\ \A v \in Workers \ {w} : /\ state'[v] = state[v] /\ notice'[v] = notice[v]
                                  /\ mailbox'[v] = mailbox[v]
  <2>1. Head(mailbox[w]) = registry[w] /\ Tail(mailbox[w]) = <<>>
    BY <1>1
  <2> QED BY <2>1 DEF LeaseInv, Types, PopsNotice, Becomes
<1>4. Types'
  <2>1. Publishing'
    BY <1>2 DEF LeaseInv, Types, Publishing
  <2> QED BY <1>2, <1>3, <2>1 DEF LeaseInv, Types, leasing
<1>5. Distinct'
  BY <1>2 DEF LeaseInv, Distinct, HasOpen, leasing
<1>6. Announced(w)'
  BY <1>1, <1>2, <1>3 DEF Announced, HasOpen, Prepares, Draining, Closing, leasing
<1>7. ASSUME NEW v \in Workers \ {w} PROVE Announced(v)'
  BY <1>2, <1>3 DEF LeaseInv, Announced, HasOpen, Prepares, IsClosed, leasing
<1> QED BY <1>4, <1>5, <1>6, <1>7 DEF LeaseInv

\* The drained lease is closed, whoever has a part in the barrier next.
LEMMA CloseStep ==
  ASSUME LeaseInv, NEW w \in Workers, state[w] \in Draining, CloseLease(notice[w]),
         NEW next \in Closing, Becomes(w, next), UNCHANGED <<mailbox, notice, publisher>>
  PROVE  LeaseInv'
<1>1. notice[w] = registry[w] /\ HasOpen(w)
  BY DEF LeaseInv, Announced
<1>2. registry[w].pid \in Partitions /\ registry[w].gen \in 0 .. Generations - 1
  BY <1>1, OpenLease, Facts DEF LeaseInv
<1>3. /\ state' = [v \in Workers |-> state'[v]] /\ state'[w] = next
      /\ \A v \in Workers \ {w} : state'[v] = state[v]
  BY DEF LeaseInv, Types, Becomes
<1>4. /\ UNCHANGED <<ready, registry>>
      /\ ctrl' = [ctrl EXCEPT ![registry[w].pid].closed = registry[w].gen]
  BY <1>1 DEF CloseLease
<1>5. /\ ctrl'[registry[w].pid].closed = registry[w].gen
      /\ \A p \in Partitions \ {registry[w].pid} : ctrl'[p] = ctrl[p]
      /\ ctrl' \in [Partitions -> [gen : 0 .. Generations - 1, closed : 0 .. Generations - 1]]
  BY <1>2, <1>4 DEF LeaseInv, Types
<1>6. Types'
  <2>1. Publishing'
    BY DEF LeaseInv, Types, Publishing
  <2>2. registry' = registry /\ ready' = ready
    BY <1>4
  <2>3. /\ ready' \in Seq(Partitions) /\ registry' \in [Workers -> Leases \cup {NoLease}]
        /\ notice' = [v \in Workers |-> notice'[v]] /\ mailbox' = [v \in Workers |-> mailbox'[v]]
    BY <2>2 DEF LeaseInv, Types
  <2> QED BY <1>3, <1>5, <2>1, <2>3 DEF Types
<1>7. Distinct'
  BY <1>4 DEF LeaseInv, Distinct, HasOpen
<1>8. Announced(w)'
  BY <1>1, <1>3, <1>4, <1>5
    DEF LeaseInv, Announced, HasOpen, Prepares, IsClosed, Draining, Closing
<1>9. ASSUME NEW v \in Workers \ {w} PROVE Announced(v)'
  <2>1. HasOpen(v) => ctrl'[registry[v].pid] = ctrl[registry[v].pid]
    BY <1>1, <1>5, OpenLease DEF LeaseInv, Distinct
  <2>2. state[v] \in Closing => HasOpen(v)
    BY DEF LeaseInv, Announced, Closing, Draining
  <2>3. state'[v] \in Closing => IsClosed(registry[v])'
    <3>1. state[v] \in Closing => IsClosed(registry[v])
      BY DEF LeaseInv, Announced
    <3>2. state'[v] = state[v] /\ registry' = registry
      BY <1>3, <1>4
    <3> QED BY <2>1, <2>2, <3>1, <3>2 DEF IsClosed
  <2> QED BY <1>3, <1>4, <2>3 DEF LeaseInv, Announced, HasOpen, Prepares
<1> QED BY <1>6, <1>7, <1>8, <1>9 DEF LeaseInv

\* What is closed goes back.
LEMMA ReleaseStep ==
  ASSUME LeaseInv, NEW w \in Workers, state[w] \in Closing, Release(w, notice[w]),
         notice' = [notice EXCEPT ![w] = NoLease],
         NEW next, next \notin Draining, Becomes(w, next), UNCHANGED <<mailbox, publisher>>
  PROVE  LeaseInv'
<1>1. HasOpen(w) /\ IsClosed(registry[w]) /\ mailbox[w] = <<>>
      /\ \A q \in Publishers : ~Prepares(q, w)
  BY DEF LeaseInv, Announced, Closing, Draining
<1>2. /\ Distinct' /\ ready' \in Seq(Partitions) /\ registry' \in [Workers -> Leases \cup {NoLease}]
      /\ ctrl' = ctrl /\ ~HasOpen(w)' /\ \A v \in Workers \ {w} : registry'[v] = registry[v]
  BY <1>1, ReleaseOK DEF LeaseInv
<1>3. /\ state' = [v \in Workers |-> state'[v]] /\ state'[w] = next
      /\ notice' = [v \in Workers |-> notice'[v]]
      /\ \A v \in Workers \ {w} : state'[v] = state[v] /\ notice'[v] = notice[v]
  BY DEF LeaseInv, Types, Becomes
<1>4. Types'
  <2>1. Publishing'
    BY DEF LeaseInv, Types, Publishing
  <2> QED BY <1>2, <1>3, <2>1 DEF LeaseInv, Types
<1>5. Announced(w)'
  <2>1. state'[w] \notin Closing
    BY <1>3 DEF Closing, Draining
  <2> QED BY <1>1, <1>2, <1>3, <2>1 DEF Announced, Prepares
<1>6. ASSUME NEW v \in Workers \ {w} PROVE Announced(v)'
  BY <1>2, <1>3 DEF LeaseInv, Announced, HasOpen, Prepares, IsClosed
<1> QED BY <1>2, <1>4, <1>5, <1>6 DEF LeaseInv

LEMMA WorkerStepOK ==
  ASSUME LeaseInv, NEW w \in Workers, WorkerStep(w)
  PROVE  LeaseInv'
<1> USE DEF others
<1>1. CASE ReadsCount(w) \/ ReadsStop(w) \/ Awakes(w) \/ ReadsCountAgain(w) \/ ReadsStopAgain(w)
  BY <1>1, WorkerMoves DEF ReadsCount, ReadsStop, Awakes, ReadsCountAgain, ReadsStopAgain, Moves,
                           signals, Draining, Closing
<1>2. CASE ClearsWake(w)
  BY <1>2, WorkerMoves DEF ClearsWake, LooksAgain, Draining, Closing
<1>3. CASE ReadsSuperstep(w)
  BY <1>3, WorkerMoves DEF ReadsSuperstep, Moves, signals, Draining, Closing
<1>4. CASE PopsGraph(w) \/ PopsPlain(w)
  <2>1. PICK e : Pops(w, e)
    BY <1>4 DEF PopsGraph, PopsPlain
  <2>2. state[w] \in {"graph", "drain"}
    BY <1>4 DEF PopsGraph, PopsPlain
  <2> QED BY <2>1, <2>2, WorkerMoves DEF Pops, signals, Draining, Closing
<1>5. CASE ArrivesAtBarrier(w) \/ LeavesBarrier(w)
  <2>1. PICK next \in {"barrier", "waiting"} :
          Becomes(w, next) /\ UNCHANGED <<leasing, mailbox, notice, publisher>>
    BY <1>5 DEF ArrivesAtBarrier, LeavesBarrier, Resumes, signals
  <2>2. state[w] \in {"arrive", "barrier"}
    BY <1>5 DEF ArrivesAtBarrier, LeavesBarrier
  <2> QED BY <2>1, <2>2, WorkerMoves DEF Draining, Closing
<1>6. CASE PopsNotice(w)
  BY <1>6, PopsNoticeStep
<1>7. CASE FindsFuture(w)
  BY <1>7, CloseStep DEF FindsFuture, signals, Draining, Closing
<1>8. CASE Closes(w)
  BY <1>8, CloseStep DEF Closes, signals, Draining, Closing
<1>9. CASE GivesUp(w)
  BY <1>9, ReleaseStep DEF GivesUp, signals, Draining, Closing
<1>10. CASE Releases(w)
  BY <1>10, ReleaseStep DEF Releases, signals, Draining, Closing
<1> QED BY <1>1, <1>2, <1>3, <1>4, <1>5, <1>6, <1>7, <1>8, <1>9, <1>10 DEF WorkerStep

\* Where a publisher that goes on is, and everybody else.
LEMMA PublisherMoves ==
  ASSUME Publishing, NEW q \in Publishers, NEW next, publisher[q].at # "idle",
         Publishes(q, next) \/ (next = "idle" /\ publisher' = [publisher EXCEPT ![q] = Idle])
  PROVE  /\ Publishing' /\ publisher'[q].at = next
         /\ next # "idle" => publisher'[q].worker = publisher[q].worker
         /\ \A r \in Publishers \ {q} : publisher'[r] = publisher[r]
<1>1. /\ publisher' = [r \in Publishers |-> publisher'[r]]
      /\ \A r \in Publishers \ {q} : publisher'[r] = publisher[r]
  BY DEF Publishing, Publishes
<1>2. \/ publisher'[q] = [publisher[q] EXCEPT !.at = next]
      \/ next = "idle" /\ publisher'[q] = Idle
  BY DEF Publishing, Publishes
<1>3. publisher[q] =
        [at |-> publisher[q].at, worker |-> publisher[q].worker, event |-> publisher[q].event]
  BY DEF Publishing
<1>4. /\ publisher'[q] =
           [at |-> next, worker |-> publisher'[q].worker, event |-> publisher'[q].event]
      /\ next # "idle" => publisher'[q].worker = publisher[q].worker
  BY <1>2, <1>3 DEF Idle
<1>5. Publishing'
  BY <1>1, <1>4 DEF Publishing
<1> QED BY <1>1, <1>4, <1>5

LEMMA LeasesForStep ==
  ASSUME LeaseInv, NEW q \in Publishers, Publish(q)
  PROVE  LeaseInv'
<1>1. PICK w \in Workers, event \in Events : LeasesFor(q, w, event)
  BY DEF Publish, Events
<1>2. ~HasOpen(w) /\ publisher[q].at = "idle"
  BY <1>1 DEF LeasesFor, Acquire
<1>3. /\ Distinct' /\ ready' \in Seq(Partitions) /\ registry' \in [Workers -> Leases \cup {NoLease}]
      /\ ctrl' \in [Partitions -> [gen : 0 .. Generations - 1, closed : 0 .. Generations - 1]]
      /\ HasOpen(w)' /\ \A v \in Workers \ {w} : registry'[v] = registry[v]
      /\ \A v \in Workers : HasOpen(v) => ctrl'[registry[v].pid] = ctrl[registry[v].pid]
  BY <1>1, AcquireOK DEF LeaseInv, LeasesFor
<1>4. PICK at \in {"push", "epoch"} :
        publisher' = [publisher EXCEPT ![q] = [at |-> at, worker |-> w, event |-> event]]
  BY <1>1 DEF LeasesFor
<1>5. UNCHANGED <<state, notice, mailbox>>
  BY <1>1 DEF LeasesFor, workerVars, signals
<1>6. /\ publisher'[q] = [at |-> at, worker |-> w, event |-> event]
      /\ publisher' = [r \in Publishers |-> publisher'[r]]
      /\ \A r \in Publishers \ {q} : publisher'[r] = publisher[r]
  BY <1>4 DEF LeaseInv, Types, Publishing
<1>7. Types'
  <2>1. Publishing'
    BY <1>6 DEF LeaseInv, Types, Publishing
  <2> QED BY <1>3, <1>5, <2>1 DEF LeaseInv, Types
<1>8. /\ \A r \in Publishers \ {q}, v \in Workers : Prepares(r, v)' <=> Prepares(r, v)
      /\ \A v \in Workers : Prepares(q, v)' <=> v = w
  BY <1>6 DEF Prepares, Preparing
<1>9. Announced(w)'
  <2>1. /\ mailbox[w] = <<>> /\ state[w] \notin Draining
        /\ \A r \in Publishers : ~Prepares(r, w)
    BY <1>2 DEF LeaseInv, Announced
  <2> QED BY <1>3, <1>5, <1>8, <2>1 DEF Announced, Draining, Closing
<1>10. ASSUME NEW v \in Workers \ {w} PROVE Announced(v)'
  <2>1. /\ registry'[v] = registry[v] /\ HasOpen(v)' <=> HasOpen(v)
    BY <1>3 DEF HasOpen
  <2>2. state[v] \in Closing => HasOpen(v)
    BY DEF LeaseInv, Announced, Closing, Draining
  <2>3. \A r \in Publishers : Prepares(r, v)' <=> Prepares(r, v)
    BY <1>2, <1>8 DEF Prepares, Preparing
  <2> QED BY <1>3, <1>5, <2>1, <2>2, <2>3 DEF LeaseInv, Announced, IsClosed
<1> QED BY <1>3, <1>7, <1>9, <1>10 DEF LeaseInv

LEMMA PublisherStepOK ==
  ASSUME LeaseInv, NEW q \in Publishers, PublishStep(q)
  PROVE  LeaseInv'
<1>0. PICK w : w = publisher[q].worker
  OBVIOUS
<1> USE <1>0
<1>1. UNCHANGED <<leasing, state, notice>>
  BY DEF PublishStep, EntersGraphMode, ResetsSuperstep, ResetsArrived, PushesEvent, PushesNotice,
         CountsNotice, WakesWorker, workerVars
<1>2. publisher[q].at # "idle" /\ w \in Workers
  BY DEF PublishStep, EntersGraphMode, ResetsSuperstep, ResetsArrived, PushesEvent, PushesNotice,
         CountsNotice, WakesWorker, LeaseInv, Types, Publishing
<1>3. CASE EntersGraphMode(q) \/ ResetsSuperstep(q) \/ ResetsArrived(q) \/ PushesEvent(q)
  <2>1. PICK next \in Preparing : Publishes(q, next)
    BY <1>3 DEF EntersGraphMode, ResetsSuperstep, ResetsArrived, PushesEvent, Preparing
  <2>2. publisher[q].at \in Preparing /\ mailbox' = mailbox
    BY <1>3 DEF EntersGraphMode, ResetsSuperstep, ResetsArrived, PushesEvent, Preparing, signals
  <2>3. /\ Publishing'
        /\ publisher'[q].at = next /\ publisher'[q].worker = w
        /\ \A r \in Publishers \ {q} : publisher'[r] = publisher[r]
    BY <1>2, <2>1, PublisherMoves DEF LeaseInv, Types, Preparing
  <2>4. Types'
    BY <1>1, <1>2, <2>2, <2>3 DEF LeaseInv, Types, leasing
  <2>5. \A r \in Publishers, v \in Workers : Prepares(r, v)' <=> Prepares(r, v)
    BY <2>2, <2>3 DEF Prepares
  <2> QED BY <1>1, <2>2, <2>4, <2>5, QuietStep
<1>4. CASE CountsNotice(q) \/ WakesWorker(q)
  <2>1. publisher[q].at \in {"count", "wake"} /\ mailbox' = mailbox
    BY <1>4 DEF CountsNotice, WakesWorker
  <2>2. /\ Publishing'
        /\ publisher'[q].at \in {"wake", "idle"}
        /\ publisher'[q].at = "wake" => publisher'[q].worker = w
        /\ \A r \in Publishers \ {q} : publisher'[r] = publisher[r]
    <3>1. CASE CountsNotice(q)
      BY <1>2, <3>1, PublisherMoves DEF CountsNotice, LeaseInv, Types
    <3>2. CASE WakesWorker(q)
      BY <1>2, <3>2, PublisherMoves DEF WakesWorker, LeaseInv, Types
    <3> QED BY <1>4, <3>1, <3>2
  <2>3. Types'
    BY <1>1, <1>2, <2>1, <2>2 DEF LeaseInv, Types, leasing
  <2>4. \A r \in Publishers, v \in Workers : Prepares(r, v)' <=> Prepares(r, v)
    BY <2>1, <2>2 DEF Prepares, Preparing
  <2> QED BY <1>1, <2>1, <2>3, <2>4, QuietStep
<1>5. CASE PushesNotice(q)
  <2>1. publisher[q].at = "notify" /\ Publishes(q, "count")
        /\ mailbox' = [mailbox EXCEPT ![w] = Append(@, registry[w])]
    BY <1>5 DEF PushesNotice, Target
  <2>2. /\ Publishing'
        /\ publisher'[q].at = "count" /\ publisher'[q].worker = w
        /\ \A r \in Publishers \ {q} : publisher'[r] = publisher[r]
    BY <1>2, <2>1, PublisherMoves DEF LeaseInv, Types
  <2>3. Prepares(q, w) /\ HasOpen(w) /\ mailbox[w] = <<>> /\ state[w] \notin Draining
        /\ \A r \in Publishers \ {q} : ~Prepares(r, w)
    BY <1>2, <2>1 DEF LeaseInv, Announced, Prepares, Preparing
  <2>4. /\ mailbox' = [v \in Workers |-> mailbox'[v]] /\ mailbox'[w] = <<registry[w]>>
        /\ \A v \in Workers \ {w} : mailbox'[v] = mailbox[v]
    <3>1. Append(mailbox[w], registry[w]) = <<registry[w]>>
      BY <2>3
    <3> QED BY <1>2, <2>1, <3>1 DEF LeaseInv, Types
  <2>5. Types'
    BY <1>1, <1>2, <2>2, <2>4 DEF LeaseInv, Types, leasing
  <2>6. \A r \in Publishers, v \in Workers : Prepares(r, v)' <=> r # q /\ Prepares(r, v)
    BY <2>1, <2>2 DEF Prepares, Preparing
  <2>7. Announced(w)'
    <3>1. \A r \in Publishers : ~Prepares(r, w)'
      BY <1>2, <2>3, <2>6
    <3>2. HasOpen(w)' /\ registry' = registry /\ state' = state
      BY <1>1, <2>3 DEF HasOpen, leasing
    <3>3. state'[w] \notin Draining /\ state'[w] \notin Closing
      BY <2>3, <3>2 DEF Draining, Closing
    <3> QED BY <2>4, <3>1, <3>2, <3>3 DEF Announced
  <2>8. ASSUME NEW v \in Workers \ {w} PROVE Announced(v)'
    BY <1>1, <2>4, <2>6 DEF LeaseInv, Announced, HasOpen, IsClosed, leasing
  <2>9. Distinct'
    BY <1>1 DEF LeaseInv, Distinct, HasOpen, leasing
  <2> QED BY <2>5, <2>7, <2>8, <2>9 DEF LeaseInv
<1> QED BY <1>3, <1>4, <1>5 DEF PublishStep

\* stop() touches the flags of the workers and nothing they lease; so does a stutter.
LEMMA OtherStepOK ==
  ASSUME LeaseInv, Begins \/ StopStep \/ UNCHANGED vars
  PROVE  LeaseInv'
<1>1. UNCHANGED <<leasing, state, notice, mailbox, publisher>>
  BY DEF Begins, StopStep, StopsNextWorker, SetsStop, SetsWake, Joins, StopsNext, workerVars,
         signals, others, vars
<1>2. Types'
  BY <1>1 DEF LeaseInv, Types, Publishing, leasing
<1>3. \A q \in Publishers, w \in Workers : Prepares(q, w)' <=> Prepares(q, w)
  BY <1>1 DEF Prepares
<1> QED BY <1>1, <1>2, <1>3, QuietStep

----------------------------------------------------------------------------
\* In every reachable state an open lease has one owner and one announcement.
THEOREM LeaseInvariance == Spec => []LeaseInv
<1>1. LeaseInv /\ [Next]_vars => LeaseInv'
  <2> SUFFICES ASSUME LeaseInv, [Next]_vars PROVE LeaseInv'
    OBVIOUS
  <2> QED BY WorkerStepOK, LeasesForStep, PublisherStepOK, OtherStepOK DEF Next
<1> QED BY InitOK, <1>1, PTL DEF Spec

\* A partition is never lost, queued twice or leased to two workers.
THEOREM LeasesNeverLost == Spec => []LeasesConserved
<1>1. LeaseInv => LeasesConserved
  <2> SUFFICES ASSUME LeaseInv, NEW p \in Partitions
               PROVE  Cardinality({i \in DOMAIN ready : ready[i] = p})
                        + Cardinality({w \in Workers : registry[w].pid = p}) = 1
    BY DEF LeasesConserved
  <2> DEFINE R == {i \in DOMAIN ready : ready[i] = p}
             L == {w \in Workers : registry[w].pid = p}
  <2>1. CASE \E i \in DOMAIN ready : ready[i] = p
    <3>1. PICK i \in DOMAIN ready : ready[i] = p
      BY <2>1
    <3>2. R = {i} /\ L = {}
      BY <3>1 DEF LeaseInv, Distinct
    <3>3. Cardinality(R) = 1 /\ Cardinality(L) = 0
      BY <3>2, FS_Singleton, FS_EmptySet, Zenon
    <3> QED BY <3>3
  <2>2. CASE \E w \in Workers : registry[w].pid = p
    <3>1. PICK w \in Workers : registry[w].pid = p
      BY <2>2
    <3>2. \A v \in Workers : registry[v].pid = p => v = w
      BY <3>1, OpenLease DEF LeaseInv, Distinct
    <3>3. R = {} /\ L = {w}
      BY <3>1, <3>2 DEF LeaseInv, Distinct
    <3>4. Cardinality(R) = 0 /\ Cardinality(L) = 1
      BY <3>3, FS_Singleton, FS_EmptySet, Zenon
    <3> QED BY <3>4
  <2> QED BY <2>1, <2>2 DEF LeaseInv, Distinct
<1> QED BY <1>1, LeaseInvariance, PTL

\* No notice outlives its lease and no release fails.
THEOREM NoticesNeverStale == Spec => []NoticesAreCurrent
<1>1. LeaseInv => NoticesAreCurrent
  <2> SUFFICES ASSUME LeaseInv, NEW w \in Workers
               PROVE  /\ state[w] \in Draining => notice[w] = registry[w]
                      /\ \A i \in DOMAIN mailbox[w] : mailbox[w][i] = registry[w]
                      /\ state[w] \in {"give up", "release"} => ReleaseCode(w, notice[w]) = 0
    BY DEF NoticesAreCurrent
  <2>1. \A i \in DOMAIN mailbox[w] : mailbox[w][i] = registry[w]
    <3>1. CASE mailbox[w] = <<>>
      BY <3>1
    <3>2. CASE mailbox[w] = <<registry[w]>>
      BY <3>2
    <3> QED BY <3>1, <3>2 DEF LeaseInv, Announced
  <2>2. state[w] \in Closing => HasOpen(w) /\ IsClosed(registry[w])
    BY DEF LeaseInv, Announced, Closing, Draining
  <2> QED BY <2>1, <2>2 DEF LeaseInv, Announced, Closing, ReleaseCode
<1> QED BY <1>1, LeaseInvariance, PTL

----------------------------------------------------------------------------
(* What is left in a partition                                             *)

HasGraph(p) == In(p) \cap Supersteps # {}

\* What the place of a worker says of the events in the partition it drains.
Stays(w) ==
  /\ state[w] \in {"graph", "give up"} => HasGraph(registry[w].pid)
  /\ state[w] = "release" => In(registry[w].pid) = {}

StayInv ==
  /\ content = [p \in Partitions |-> content[p]]
  /\ \A i \in DOMAIN ready : In(ready[i]) # {} => HasGraph(ready[i])
  /\ \A w \in Workers : Stays(w)

\* A step that changes no partition's events and no lease.
LEMMA WorkerStays ==
  ASSUME LeaseInv, StayInv, NEW w \in Workers, NEW next, Becomes(w, next),
         UNCHANGED <<content, ready, registry>>,
         next \in {"graph", "give up"} => HasGraph(registry[w].pid),
         next = "release" => In(registry[w].pid) = {}
  PROVE  StayInv'
<1>1. state'[w] = next /\ \A v \in Workers \ {w} : state'[v] = state[v]
  BY DEF LeaseInv, Types, Becomes
<1>2. \A p : In(p)' = In(p)
  BY DEF In
<1>3. \A v \in Workers : Stays(v)'
  BY <1>1, <1>2 DEF StayInv, Stays, HasGraph
<1> QED BY <1>2, <1>3 DEF StayInv, HasGraph

\* Events come and go only where the partition is leased and nothing is claimed of
\* what it holds.
LEMMA ContentStays ==
  ASSUME LeaseInv, StayInv, NEW w \in Workers, HasOpen(w), NEW c,
         content' = [content EXCEPT ![registry[w].pid] = c],
         UNCHANGED <<ready, registry>>,
         state'[w] \notin {"graph", "give up", "release"},
         \A v \in Workers \ {w} : state'[v] = state[v]
  PROVE  StayInv'
<1>1. \A p \in Partitions \ {registry[w].pid} : In(p)' = In(p)
  BY DEF StayInv, In
<1>2. \A i \in DOMAIN ready : ready[i] \in Partitions \ {registry[w].pid}
  <2> TAKE i \in DOMAIN ready
  <2>1. ready \in Seq(Partitions)
    BY DEF LeaseInv, Types
  <2>2. ready[i] \in Partitions
    BY <2>1, ElementOfSeq, LenProperties
  <2> QED BY <2>2 DEF LeaseInv, Distinct
<1>3. ASSUME NEW v \in Workers, state'[v] \in {"graph", "give up", "release"} PROVE Stays(v)'
  <2>1. v # w /\ state'[v] = state[v] /\ HasOpen(v)
    BY <1>3 DEF LeaseInv, Announced, Draining
  <2>2. registry[v].pid \in Partitions \ {registry[w].pid}
    BY <2>1, OpenLease DEF LeaseInv, Distinct
  <2>3. Stays(v) /\ In(registry[v].pid)' = In(registry[v].pid) /\ registry' = registry
    BY <2>2, <1>1 DEF StayInv
  <2> QED BY <2>1, <2>3 DEF Stays, HasGraph
<1>4. \A v \in Workers : Stays(v)'
  BY <1>3 DEF Stays
<1>5. \A i \in DOMAIN ready : In(ready[i])' = In(ready[i]) /\ ready' = ready
  BY <1>1, <1>2
<1>6. \A i \in DOMAIN ready' : (In(ready[i]) # {} => HasGraph(ready[i]))'
  BY <1>5 DEF StayInv, HasGraph
<1>7. content' = [p \in Partitions |-> content'[p]]
  BY DEF StayInv
<1> QED BY <1>4, <1>6, <1>7 DEF StayInv

LEMMA ReleaseStays ==
  ASSUME LeaseInv, StayInv, NEW w \in Workers, state[w] \in Closing, Release(w, notice[w]),
         NEW next, next \notin Draining, Becomes(w, next), content' = content
  PROVE  StayInv'
<1>1. HasOpen(w) /\ IsClosed(registry[w])
  BY DEF LeaseInv, Announced, Closing, Draining
<1>2. \A v \in Workers \ {w} : registry'[v] = registry[v]
  BY <1>1, ReleaseOK DEF LeaseInv
<1>3. state'[w] = next /\ \A v \in Workers \ {w} : state'[v] = state[v]
  BY DEF LeaseInv, Types, Becomes
<1>4. \A p : In(p)' = In(p)
  BY DEF In
<1>5. \A v \in Workers : Stays(v)'
  BY <1>2, <1>3, <1>4 DEF StayInv, Stays, HasGraph, Draining
<1>6. In(registry[w].pid) # {} => HasGraph(registry[w].pid)
  BY DEF StayInv, Stays, Closing
<1>7. /\ ready' = Append(ready, registry[w].pid) /\ ready \in Seq(Partitions)
      /\ registry[w].pid \in Partitions
  BY <1>1, OpenLease DEF LeaseInv, Types, Release, ReleaseCode
<1>8. \A i \in DOMAIN ready' :
        (i \in DOMAIN ready /\ ready'[i] = ready[i]) \/ ready'[i] = registry[w].pid
  BY <1>7, AppendProperties, LenProperties
<1>9. \A i \in DOMAIN ready' : In(ready'[i]) # {} => HasGraph(ready'[i])
  BY <1>6, <1>8 DEF StayInv
<1> QED BY <1>4, <1>5, <1>9 DEF StayInv, HasGraph

LEMMA WorkerStepStays ==
  ASSUME LeaseInv, StayInv, NEW w \in Workers, WorkerStep(w)
  PROVE  StayInv'
<1> USE DEF others, leasing
<1>1. CASE ReadsCount(w) \/ ReadsStop(w) \/ Awakes(w) \/ ReadsCountAgain(w) \/ ReadsStopAgain(w)
  BY <1>1, WorkerStays DEF ReadsCount, ReadsStop, Awakes, ReadsCountAgain, ReadsStopAgain, Moves
<1>2. CASE ClearsWake(w) \/ PopsNotice(w)
  BY <1>2, WorkerStays DEF ClearsWake, LooksAgain, PopsNotice
<1>3. state[w] \in Draining => notice[w] = registry[w] /\ HasOpen(w)
  BY DEF LeaseInv, Announced
<1>4. CASE ReadsSuperstep(w)
  BY <1>3, <1>4, WorkerStays DEF ReadsSuperstep, Moves, GraphPending, HasGraph, Draining
<1>5. CASE PopsGraph(w) \/ PopsPlain(w)
  <2>1. PICK e : Pops(w, e)
    BY <1>5 DEF PopsGraph, PopsPlain
  <2>2. notice[w] = registry[w] /\ HasOpen(w)
    BY <1>3, <1>5 DEF PopsGraph, PopsPlain, Draining
  <2>3. PICK c : content' = [content EXCEPT ![registry[w].pid] = c]
    BY <2>1, <2>2 DEF Pops
  <2>4. state'[w] = "drain" /\ \A v \in Workers \ {w} : state'[v] = state[v]
    BY <2>1 DEF Pops, Becomes, LeaseInv, Types
  <2> QED BY <2>1, <2>2, <2>3, <2>4, ContentStays DEF Pops
<1>6. CASE ArrivesAtBarrier(w) \/ LeavesBarrier(w)
  <2>1. PICK next \in {"barrier", "waiting"} :
          Becomes(w, next) /\ UNCHANGED <<content, ready, registry>>
    BY <1>6 DEF ArrivesAtBarrier, LeavesBarrier, Resumes
  <2> QED BY <2>1, WorkerStays
<1>7. CASE FindsFuture(w)
  <2>1. HasGraph(registry[w].pid)
    BY <1>7 DEF FindsFuture, StayInv, Stays
  <2> QED BY <1>7, <2>1, WorkerStays DEF FindsFuture, CloseLease
<1>8. CASE Closes(w)
  BY <1>3, <1>8, WorkerStays DEF Closes, CloseLease, Drained, Draining
<1>9. CASE GivesUp(w)
  BY <1>9, ReleaseStays DEF GivesUp, Draining, Closing
<1>10. CASE Releases(w)
  BY <1>10, ReleaseStays DEF Releases, Draining, Closing
<1> QED BY <1>1, <1>2, <1>4, <1>5, <1>6, <1>7, <1>8, <1>9, <1>10 DEF WorkerStep

LEMMA PublishStays ==
  ASSUME LeaseInv, StayInv, NEW q \in Publishers, Publish(q) \/ PublishStep(q)
  PROVE  StayInv'
<1>1. state' = state
  BY DEF Publish, LeasesFor, PublishStep, EntersGraphMode, ResetsSuperstep, ResetsArrived,
         PushesEvent, PushesNotice, CountsNotice, WakesWorker, workerVars
<1>2. CASE Publish(q)
  <2>1. PICK w \in Workers : Acquire(w) /\ content' = content
    BY <1>2 DEF Publish, LeasesFor
  <2>2. /\ ready # <<>> /\ ready \in Seq(Partitions) /\ ready' = Tail(ready)
        /\ state[w] \notin Draining
    BY <2>1 DEF Acquire, LeaseInv, Types, Announced
  <2>3. \A v \in Workers \ {w} : registry'[v] = registry[v]
    BY <2>1, AcquireOK DEF LeaseInv
  <2>4. \A p : In(p)' = In(p)
    BY <2>1 DEF In
  <2>5. \A v \in Workers : Stays(v)'
    BY <1>1, <2>2, <2>3, <2>4 DEF StayInv, Stays, HasGraph, Draining
  <2>6. \A i \in DOMAIN ready' : i + 1 \in DOMAIN ready /\ ready'[i] = ready[i + 1]
    BY <2>2, EmptySeq, LenProperties, HeadTailProperties
  <2>7. \A i \in DOMAIN ready' : In(ready'[i]) # {} => HasGraph(ready'[i])
    BY <2>6 DEF StayInv
  <2> QED BY <2>1, <2>4, <2>5, <2>7 DEF StayInv, HasGraph
<1>3. CASE PushesEvent(q)
  <2>1. PICK w \in Workers : w = publisher[q].worker
    BY <1>3 DEF PushesEvent, LeaseInv, Types, Publishing
  <2>2. Prepares(q, w)
    BY <1>3, <2>1 DEF PushesEvent, Prepares, Preparing
  <2>3. HasOpen(w) /\ state[w] \notin Draining
    BY <2>2 DEF LeaseInv, Announced
  <2>4. PICK c : content' = [content EXCEPT ![registry[w].pid] = c]
    BY <1>3, <2>1 DEF PushesEvent, Target
  <2> QED BY <1>1, <1>3, <2>3, <2>4, ContentStays DEF PushesEvent, Draining, leasing
<1>4. CASE PublishStep(q) /\ ~PushesEvent(q)
  <2>1. UNCHANGED <<content, ready, registry>>
    BY <1>4 DEF PublishStep, EntersGraphMode, ResetsSuperstep, ResetsArrived, PushesNotice,
                CountsNotice, WakesWorker, leasing
  <2> QED BY <1>1, <2>1 DEF StayInv, Stays, HasGraph, In
<1> QED BY <1>2, <1>3, <1>4

\* What is left in a partition that nobody leases is found by the next lease.
THEOREM NothingPlainStays == Spec => []OnlyGraphStays
<1>1. Init => StayInv
  BY DEF Init, ExchangeInit, StayInv, Stays, HasGraph, In, Partitions
<1>2. LeaseInv /\ StayInv /\ [Next]_vars => StayInv'
  <2> SUFFICES ASSUME LeaseInv, StayInv, [Next]_vars PROVE StayInv'
    OBVIOUS
  <2>1. CASE Begins \/ StopStep \/ UNCHANGED vars
    <3>1. UNCHANGED <<state, content, ready, registry>>
      BY <2>1 DEF Begins, StopStep, StopsNextWorker, SetsStop, SetsWake, Joins, StopsNext,
                  workerVars, leasing, vars
    <3> QED BY <3>1 DEF StayInv, Stays, HasGraph, In
  <2> QED BY <2>1, WorkerStepStays, PublishStays DEF Next
<1>3. StayInv => OnlyGraphStays
  BY DEF StayInv, OnlyGraphStays, HasGraph
<1> QED BY <1>1, <1>2, <1>3, LeaseInvariance, PTL DEF Spec

----------------------------------------------------------------------------
(* The superstep barrier                                                   *)

\* One thread publishes graph events.
OneGraphPublisher == \A p, q \in GraphPublishers : p = q

\* Where a worker uses the superstep it has read.
InSuperstep == {"graph", "give up", "arrive", "barrier"}

Waiting == {w \in Workers : state[w] = "barrier" /\ observed[w] = superstep}

\* Graph mode is off, or the epoch that begins is still being set up.
BeforeEpoch ==
  ~graphMode \/ \E q \in Publishers : publisher[q].at \in {"superstep", "arrived"}

\* A publisher of a graph event pushes it when the epoch is set up.
EpochFirst(q) ==
  /\ publisher[q].event \in Events
  /\ publisher[q].event # Plain => q \in GraphPublishers
  /\ publisher[q].at \in {"epoch", "superstep", "arrived"} => publisher[q].event # Plain
  /\ publisher[q].at = "push" /\ publisher[q].event # Plain => graphMode
  /\ publisher[q].at \in {"superstep", "arrived"} => graphMode

BarrierInv ==
  /\ superstep \in Int /\ arrived \in Int /\ observed \in [Workers -> Int]
  /\ content \in [Partitions -> [Events -> Int]]
  /\ \A q \in Publishers : EpochFirst(q)
  /\ BeforeEpoch => /\ \A p \in Partitions : ~HasGraph(p)
                    /\ \A w \in Workers : state[w] \notin InSuperstep
  /\ \A w \in Workers : state[w] \in InSuperstep => observed[w] <= superstep
  /\ arrived = Cardinality(Waiting)

LEMMA WaitingIsFinite == IsFiniteSet(Waiting) /\ Cardinality(Waiting) \in Nat
<1>1. IsFiniteSet(Workers)
  BY Facts, FS_Interval DEF Workers
<1>2. Waiting \subseteq Workers
  BY DEF Waiting
<1> QED BY <1>1, <1>2, FS_Subset, FS_CardinalityType

\* A step of a worker outside the superstep that leaves the events alone.
LEMMA OutsideSuperstep ==
  ASSUME LeaseInv, BarrierInv, NEW w \in Workers, NEW next, Becomes(w, next),
         next \notin InSuperstep,
         \/ UNCHANGED observed
         \/ observed' = [observed EXCEPT ![w] = 0],
         state[w] = "barrier" => observed[w] # superstep,
         UNCHANGED <<barrier, publisher>>,
         content' \in [Partitions -> [Events -> Int]],
         BeforeEpoch => \A p \in Partitions : ~HasGraph(p)'
  PROVE  BarrierInv'
<1>1. state'[w] = next /\ \A v \in Workers \ {w} : state'[v] = state[v]
  BY DEF LeaseInv, Types, Becomes
<1>2. observed' \in [Workers -> Int] /\ \A v \in Workers \ {w} : observed'[v] = observed[v]
  BY DEF BarrierInv
<1>3. UNCHANGED <<graphMode, superstep, arrived, publisher>>
  BY DEF barrier
<1>4. Waiting' = Waiting
  BY <1>1, <1>2, <1>3 DEF Waiting, InSuperstep
<1>5. BeforeEpoch' <=> BeforeEpoch
  BY <1>3 DEF BeforeEpoch
<1>6. \A q \in Publishers : EpochFirst(q)'
  BY <1>3 DEF BarrierInv, EpochFirst
<1> QED BY <1>1, <1>2, <1>3, <1>4, <1>5, <1>6 DEF BarrierInv

\* A step of a worker on its way to the barrier.
LEMMA TowardsBarrier ==
  ASSUME LeaseInv, BarrierInv, NEW w \in Workers, NEW next \in InSuperstep \ {"barrier"},
         Becomes(w, next), state[w] # "barrier", ~BeforeEpoch,
         observed' \in [Workers -> Int], observed'[w] <= superstep,
         \A v \in Workers \ {w} : observed'[v] = observed[v],
         UNCHANGED <<barrier, publisher, content>>
  PROVE  BarrierInv'
<1>1. state'[w] = next /\ \A v \in Workers \ {w} : state'[v] = state[v]
  BY DEF LeaseInv, Types, Becomes
<1>3. UNCHANGED <<graphMode, superstep, arrived, publisher, content>>
  BY DEF barrier
<1>4. Waiting' = Waiting
  BY <1>1, <1>3 DEF Waiting
<1>5. ~BeforeEpoch'
  BY <1>3 DEF BeforeEpoch
<1>6. \A q \in Publishers : EpochFirst(q)'
  BY <1>3 DEF BarrierInv, EpochFirst
<1> QED BY <1>1, <1>3, <1>4, <1>5, <1>6 DEF BarrierInv

LEMMA ArrivalCounted ==
  ASSUME LeaseInv, BarrierInv, NEW w \in Workers, ArrivesAtBarrier(w)
  PROVE  BarrierInv'
<1>0. /\ state[w] = "arrive" /\ Arrive(observed[w])
      /\ observed[w] <= superstep /\ ~BeforeEpoch /\ graphMode /\ observed[w] \in Int
      /\ UNCHANGED <<publisher, content>>
  BY DEF ArrivesAtBarrier, Resumes, BarrierInv, InSuperstep, BeforeEpoch, others
<1>1. CASE Waits(observed[w])
  <2>1. /\ Becomes(w, "barrier") /\ observed' = observed /\ superstep = observed[w]
        /\ arrived' = arrived + 1 /\ superstep' = superstep /\ graphMode' = graphMode
    BY <1>0, <1>1 DEF ArrivesAtBarrier, Arrive, Waits, Passes
  <2>2. state'[w] = "barrier" /\ \A v \in Workers \ {w} : state'[v] = state[v]
    BY <2>1 DEF LeaseInv, Types, Becomes
  <2>3. Waiting' = Waiting \cup {w} /\ w \notin Waiting
    BY <1>0, <2>1, <2>2 DEF Waiting
  <2>4. Cardinality(Waiting') = Cardinality(Waiting) + 1
    BY <2>3, WaitingIsFinite, FS_AddElement
  <2>5. ~BeforeEpoch'
    BY <1>0, <2>1 DEF BeforeEpoch
  <2>6. \A q \in Publishers : EpochFirst(q)'
    BY <1>0, <2>1 DEF BarrierInv, EpochFirst
  <2>7. \A v \in Workers : state'[v] \in InSuperstep => observed'[v] <= superstep'
    BY <1>0, <2>1, <2>2 DEF BarrierInv
  <2> QED BY <1>0, <2>1, <2>4, <2>5, <2>6, <2>7 DEF BarrierInv
<1>2. CASE ~Waits(observed[w])
  <2>1. /\ Becomes(w, "waiting") /\ observed' = [observed EXCEPT ![w] = 0]
        /\ graphMode' = graphMode
    BY <1>2 DEF ArrivesAtBarrier, Resumes, Arrive
  <2>2. CASE Passes(observed[w])
    <3>1. UNCHANGED barrier
      BY <1>2, <2>2, <1>0 DEF Arrive, barrier
    <3>2. \A p \in Partitions : HasGraph(p)' <=> HasGraph(p)
      BY <1>0 DEF HasGraph, In
    <3> QED BY <1>0, <2>1, <3>1, <3>2, OutsideSuperstep DEF InSuperstep, BarrierInv
  \* The last party: nobody waits for the superstep that begins.
  <2>3. CASE ~Passes(observed[w])
    <3>1. superstep = observed[w] /\ arrived' = 0 /\ superstep' = superstep + 1
      BY <1>0, <1>2, <2>3 DEF Arrive, AfterLast, Passes
    <3>2. state'[w] = "waiting" /\ \A v \in Workers \ {w} : state'[v] = state[v]
      BY <2>1 DEF LeaseInv, Types, Becomes
    <3>3. observed' \in [Workers -> Int] /\ \A v \in Workers \ {w} : observed'[v] = observed[v]
      BY <2>1 DEF BarrierInv
    <3>4. \A v \in Workers : state'[v] \in InSuperstep => observed'[v] <= superstep
      BY <3>2, <3>3 DEF BarrierInv, InSuperstep
    <3>5. Waiting' = {}
      <4> SUFFICES ASSUME NEW v \in Workers, state'[v] = "barrier", observed'[v] = superstep'
                   PROVE  FALSE
        BY DEF Waiting
      <4>1. observed'[v] <= superstep /\ superstep \in Int
        BY <3>4 DEF InSuperstep, BarrierInv
      <4> QED BY <3>1, <4>1
    <3>6. Cardinality(Waiting') = 0
      BY <3>5, FS_EmptySet
    <3>7. ~BeforeEpoch'
      BY <1>0, <2>1 DEF BeforeEpoch
    <3>8. \A q \in Publishers : EpochFirst(q)'
      BY <1>0, <2>1 DEF BarrierInv, EpochFirst
    <3>9. \A v \in Workers : state'[v] \in InSuperstep => observed'[v] <= superstep'
      BY <3>1, <3>3, <3>4 DEF BarrierInv
    <3> QED BY <1>0, <3>1, <3>3, <3>6, <3>7, <3>8, <3>9 DEF BarrierInv
  <2> QED BY <2>2, <2>3
<1> QED BY <1>1, <1>2

LEMMA WorkerStepCounts ==
  ASSUME LeaseInv, BarrierInv, NEW w \in Workers, WorkerStep(w)
  PROVE  BarrierInv'
<1> USE DEF others
<1>1. ASSUME UNCHANGED content
      PROVE  /\ content' \in [Partitions -> [Events -> Int]]
             /\ BeforeEpoch => \A p \in Partitions : ~HasGraph(p)'
  BY <1>1 DEF BarrierInv, HasGraph, In
<1>2. CASE ReadsCount(w) \/ ReadsStop(w) \/ Awakes(w) \/ ReadsCountAgain(w) \/ ReadsStopAgain(w)
  BY <1>1, <1>2, OutsideSuperstep
     DEF ReadsCount, ReadsStop, Awakes, ReadsCountAgain, ReadsStopAgain, Moves, InSuperstep
<1>3. CASE ClearsWake(w) \/ PopsNotice(w)
  BY <1>1, <1>3, OutsideSuperstep DEF ClearsWake, LooksAgain, PopsNotice, InSuperstep
<1>4. CASE Closes(w) \/ Releases(w)
  BY <1>1, <1>4, OutsideSuperstep DEF Closes, Releases, InSuperstep
<1>5. CASE LeavesBarrier(w)
  BY <1>1, <1>5, OutsideSuperstep DEF LeavesBarrier, Resumes, InSuperstep
<1>6. state[w] \in Draining => notice[w] = registry[w] /\ registry[w].pid \in Partitions
  BY OpenLease DEF LeaseInv, Announced
<1>7. CASE PopsGraph(w) \/ PopsPlain(w)
  <2>1. state[w] \in {"graph", "drain"} /\ \E e \in In(notice[w].pid) : Pops(w, e)
    BY <1>7 DEF PopsGraph, PopsPlain, Current
  <2>2. PICK e \in In(notice[w].pid) : Pops(w, e)
    BY <2>1
  <2>3. PICK p \in Partitions : p = notice[w].pid
    BY <1>6, <2>1 DEF Draining
  <2>4. content' = [content EXCEPT ![p][e] = @ - 1] /\ e \in Events
    BY <2>2, <2>3 DEF Pops, In
  <2>5. content' \in [Partitions -> [Events -> Int]]
    BY <2>4 DEF BarrierInv
  <2>6. ASSUME NEW r \in Partitions, NEW s \in Events, s # e PROVE content'[r][s] = content[r][s]
    BY <2>4, <2>6 DEF BarrierInv
  <2>7. BeforeEpoch => \A r \in Partitions : ~HasGraph(r)'
    <3> SUFFICES ASSUME BeforeEpoch, NEW r \in Partitions PROVE ~HasGraph(r)'
      OBVIOUS
    <3>1. \A t \in Partitions : ~HasGraph(t)
      BY DEF BarrierInv
    <3>2. e \notin Supersteps
      BY <3>1, <2>2, <2>3 DEF HasGraph
    <3>3. \A s \in Supersteps : s \in Events
      BY DEF Events
    <3> QED BY <3>1, <3>2, <3>3, <2>6 DEF HasGraph, In
  <2> QED BY <2>1, <2>2, <2>5, <2>7, OutsideSuperstep DEF Pops, InSuperstep
<1>8. CASE ReadsSuperstep(w)
  <2>1. /\ state[w] = "drain" /\ GraphPending(w)
        /\ observed' = [observed EXCEPT ![w] = superstep]
        /\ Becomes(w, "graph") /\ UNCHANGED <<barrier, publisher, content>>
    BY <1>8 DEF ReadsSuperstep, Moves
  <2>2. ~BeforeEpoch
    BY <1>6, <2>1 DEF GraphPending, HasGraph, BarrierInv, Draining
  <2>3. /\ observed' \in [Workers -> Int] /\ observed'[w] <= superstep
        /\ \A v \in Workers \ {w} : observed'[v] = observed[v]
    BY <2>1 DEF BarrierInv
  <2> QED BY <2>1, <2>2, <2>3, TowardsBarrier DEF InSuperstep
<1>9. CASE FindsFuture(w) \/ GivesUp(w)
  <2>1. PICK next \in {"give up", "arrive"} :
          /\ Becomes(w, next) /\ state[w] \in {"graph", "give up"}
          /\ UNCHANGED <<observed, barrier, publisher, content>>
    BY <1>9 DEF FindsFuture, GivesUp
  <2>2. ~BeforeEpoch /\ observed[w] <= superstep /\ observed \in [Workers -> Int]
    BY <2>1 DEF BarrierInv, InSuperstep
  <2> QED BY <2>1, <2>2, TowardsBarrier DEF InSuperstep
<1>10. CASE ArrivesAtBarrier(w)
  BY <1>10, ArrivalCounted
<1> QED BY <1>2, <1>3, <1>4, <1>5, <1>7, <1>8, <1>9, <1>10 DEF WorkerStep

\* A step of a publisher that leaves the workers alone.
LEMMA PublisherCounts ==
  ASSUME BarrierInv, UNCHANGED <<state, observed, superstep, arrived>>,
         content' \in [Partitions -> [Events -> Int]],
         \A q \in Publishers : EpochFirst(q)',
         BeforeEpoch' => BeforeEpoch /\ \A p \in Partitions : ~HasGraph(p)'
  PROVE  BarrierInv'
<1>1. Waiting' = Waiting
  BY DEF Waiting
<1> QED BY <1>1 DEF BarrierInv

LEMMA PublishStepCounts ==
  ASSUME OneGraphPublisher, LeaseInv, BarrierInv, NEW q \in Publishers,
         Publish(q) \/ PublishStep(q)
  PROVE  BarrierInv'
<1> USE DEF workerVars
\* What becomes of the publisher, and of nobody else.
<1>1. publisher = [r \in Publishers |-> publisher[r]]
      /\ publisher[q] = [at |-> publisher[q].at, worker |-> publisher[q].worker,
                         event |-> publisher[q].event]
  BY DEF LeaseInv, Types, Publishing
<1>2. ASSUME UNCHANGED content
      PROVE  /\ content' \in [Partitions -> [Events -> Int]]
             /\ BeforeEpoch => \A p \in Partitions : ~HasGraph(p)'
  BY <1>2 DEF BarrierInv, HasGraph, In
<1>3. ASSUME NEW next, Publishes(q, next)
      PROVE  /\ publisher'[q].at = next /\ publisher'[q].event = publisher[q].event
             /\ \A r \in Publishers \ {q} : publisher'[r] = publisher[r]
  BY <1>1, <1>3 DEF Publishes
<1>4. CASE Publish(q)
  <2>1. PICK w \in Workers, event \in Events :
          LeasesFor(q, w, event) /\ (event # Plain => q \in GraphPublishers)
    BY <1>4 DEF Publish, Events
  <2>2. /\ publisher' = [publisher EXCEPT ![q] =
              [at |-> IF event = Plain THEN "push" ELSE "epoch", worker |-> w, event |-> event]]
        /\ publisher[q].at = "idle" /\ UNCHANGED <<barrier, state, observed, content>>
    BY <2>1 DEF LeasesFor
  <2>3. /\ publisher'[q].at = IF event = Plain THEN "push" ELSE "epoch"
        /\ publisher'[q].event = event
        /\ \A r \in Publishers \ {q} : publisher'[r] = publisher[r]
    BY <1>1, <2>2
  <2>4. UNCHANGED <<graphMode, superstep, arrived>>
    BY <2>2 DEF barrier
  <2>5. \A r \in Publishers : EpochFirst(r)'
    BY <2>1, <2>3, <2>4 DEF BarrierInv, EpochFirst
  <2>6. BeforeEpoch' => BeforeEpoch
    BY <2>2, <2>3, <2>4 DEF BeforeEpoch
  <2> QED BY <1>2, <2>2, <2>4, <2>5, <2>6, PublisherCounts
<1>5. CASE EntersGraphMode(q)
  <2>1. /\ publisher[q].at = "epoch" /\ graphMode' = TRUE /\ UNCHANGED <<superstep, arrived>>
        /\ Publishes(q, IF graphMode THEN "push" ELSE "superstep")
        /\ UNCHANGED <<state, observed, content>>
    BY <1>5 DEF EntersGraphMode, EnterGraphMode
  <2>2. \A r \in Publishers : EpochFirst(r)'
    BY <1>3, <2>1 DEF BarrierInv, EpochFirst
  <2>3. BeforeEpoch' => BeforeEpoch
    BY <1>3, <2>1 DEF BeforeEpoch
  <2> QED BY <1>2, <2>1, <2>2, <2>3, PublisherCounts
<1>6. CASE ResetsSuperstep(q) \/ ResetsArrived(q)
  <2>1. PICK next \in {"arrived", "push"} :
          /\ publisher[q].at \in {"superstep", "arrived"} /\ Publishes(q, next)
          /\ graphMode' = graphMode
          /\ (superstep' = 0 /\ arrived' = arrived) \/ (arrived' = 0 /\ superstep' = superstep)
          /\ UNCHANGED <<state, observed, content>>
          /\ next = "push" => publisher[q].at = "arrived"
    BY <1>6 DEF ResetsSuperstep, ResetSuperstep, ResetsArrived, ResetArrived
  <2>2. BeforeEpoch
    BY <2>1 DEF BeforeEpoch
  <2>3. \A w \in Workers : state[w] \notin InSuperstep
    BY <2>2 DEF BarrierInv
  <2>4. Waiting = {} /\ Waiting' = {}
    BY <2>1, <2>3 DEF Waiting, InSuperstep
  <2>5. Cardinality(Waiting) = 0 /\ Cardinality(Waiting') = 0
    BY <2>4, FS_EmptySet
  <2>6. arrived' = 0 /\ superstep' \in Int
    BY <2>1, <2>5 DEF BarrierInv
  <2>7. \A r \in Publishers : EpochFirst(r)'
    BY <1>3, <2>1 DEF BarrierInv, EpochFirst
  <2> QED BY <1>2, <2>1, <2>2, <2>3, <2>5, <2>6, <2>7 DEF BarrierInv
<1>7. CASE PushesEvent(q)
  <2>1. /\ publisher[q].at = "push" /\ Publishes(q, "notify")
        /\ UNCHANGED <<barrier, state, observed, registry>>
        /\ publisher[q].event \in Events
    BY <1>7 DEF PushesEvent, BarrierInv, EpochFirst, leasing
  <2>2. PICK w \in Workers : w = publisher[q].worker
    BY <2>1 DEF LeaseInv, Types, Publishing
  <2>3. HasOpen(w)
    BY <2>1, <2>2 DEF LeaseInv, Announced, Prepares, Preparing
  <2>4. PICK p \in Partitions : p = registry[w].pid
    BY <2>3, OpenLease DEF LeaseInv
  <2>5. content' = [content EXCEPT ![p][publisher[q].event] = @ + 1]
    BY <1>7, <2>2, <2>4 DEF PushesEvent, Target
  <2>6. content' \in [Partitions -> [Events -> Int]]
    BY <2>1, <2>5 DEF BarrierInv
  <2>7. UNCHANGED <<graphMode, superstep, arrived>>
    BY <2>1 DEF barrier
  <2>8. \A r \in Publishers : EpochFirst(r)'
    BY <1>3, <2>1, <2>7 DEF BarrierInv, EpochFirst
  <2>9. BeforeEpoch' => BeforeEpoch
    BY <1>3, <2>1, <2>7 DEF BeforeEpoch
  <2>10. ASSUME BeforeEpoch, NEW r \in Partitions PROVE ~HasGraph(r)'
    <3>1. \A t \in Partitions : ~HasGraph(t)
      BY <2>10 DEF BarrierInv
    <3>2. publisher[q].event = Plain
      <4> SUFFICES ASSUME publisher[q].event # Plain PROVE FALSE
        OBVIOUS
      <4>1. graphMode /\ q \in GraphPublishers
        BY <2>1 DEF BarrierInv, EpochFirst
      <4>2. PICK o \in Publishers : publisher[o].at \in {"superstep", "arrived"}
        BY <2>10, <4>1 DEF BeforeEpoch
      <4>3. o \in GraphPublishers
        BY <4>2 DEF BarrierInv, EpochFirst
      <4> QED BY <4>1, <4>2, <4>3, <2>1 DEF OneGraphPublisher
    <3>3. \A s \in Supersteps : s \in Events /\ s # Plain
      BY ObserverAssumption DEF Events, Plain
    <3>4. ASSUME NEW s \in Supersteps PROVE content'[r][s] = content[r][s]
      BY <3>2, <3>3, <2>5 DEF BarrierInv
    <3> QED BY <3>1, <3>3, <3>4 DEF HasGraph, In
  <2> QED BY <2>1, <2>6, <2>7, <2>8, <2>9, <2>10, PublisherCounts
<1>8. CASE PushesNotice(q) \/ CountsNotice(q)
  <2>1. PICK next \in {"count", "wake"} :
          Publishes(q, next) /\ UNCHANGED <<barrier, state, observed, content>>
    BY <1>8 DEF PushesNotice, CountsNotice
  <2>2. UNCHANGED <<graphMode, superstep, arrived>>
    BY <2>1 DEF barrier
  <2>3. \A r \in Publishers : EpochFirst(r)'
    BY <1>3, <2>1, <2>2 DEF BarrierInv, EpochFirst
  <2>4. BeforeEpoch' => BeforeEpoch
    BY <1>3, <2>1, <2>2 DEF BeforeEpoch
  <2> QED BY <1>2, <2>1, <2>2, <2>3, <2>4, PublisherCounts
<1>9. CASE WakesWorker(q)
  <2>1. /\ publisher' = [publisher EXCEPT ![q] = Idle]
        /\ UNCHANGED <<barrier, state, observed, content>>
    BY <1>9 DEF WakesWorker
  <2>2. /\ publisher'[q] = Idle /\ Idle.at = "idle" /\ Idle.event = Plain /\ Plain \in Events
        /\ \A r \in Publishers \ {q} : publisher'[r] = publisher[r]
    BY <1>1, <2>1 DEF Idle, Events
  <2>3. UNCHANGED <<graphMode, superstep, arrived>>
    BY <2>1 DEF barrier
  <2>4. \A r \in Publishers : EpochFirst(r)'
    BY <2>2, <2>3 DEF BarrierInv, EpochFirst
  <2>5. BeforeEpoch' => BeforeEpoch
    BY <2>2, <2>3 DEF BeforeEpoch
  <2> QED BY <1>2, <2>1, <2>3, <2>4, <2>5, PublisherCounts
<1> QED BY <1>4, <1>5, <1>6, <1>7, <1>8, <1>9 DEF PublishStep

\* The barrier counts exactly the workers that wait in it for the current superstep,
\* for any number of workers and epochs, as long as one thread publishes graph events:
\* whoever arrives is counted once, and the last one leaves the count at zero.
THEOREM BarrierCountsWaiting ==
  ASSUME OneGraphPublisher
  PROVE  Spec => []BarrierCounts
<1>1. Init => BarrierInv
  <2> SUFFICES ASSUME Init PROVE BarrierInv
    OBVIOUS
  <2>1. Waiting = {}
    BY DEF Init, Waiting
  <2>2. Cardinality(Waiting) = 0
    BY <2>1, FS_EmptySet
  <2>3. \A q \in Publishers : EpochFirst(q)
    BY DEF Init, EpochFirst, Idle, Events
  <2>4. \A p \in Partitions : ~HasGraph(p)
    <3>1. content = [p \in Partitions |-> [e \in Events |-> 0]]
      BY DEF Init
    <3> QED BY <3>1 DEF HasGraph, In
  <2>5. /\ superstep = 0 /\ arrived = 0 /\ observed \in [Workers -> Int]
        /\ content \in [Partitions -> [Events -> Int]]
        /\ \A w \in Workers : state[w] \notin InSuperstep
    BY DEF Init, ExchangeInit, InSuperstep
  <2> QED BY <2>2, <2>3, <2>4, <2>5 DEF BarrierInv
<1>2. LeaseInv /\ BarrierInv /\ [Next]_vars => BarrierInv'
  <2> SUFFICES ASSUME LeaseInv, BarrierInv, [Next]_vars PROVE BarrierInv'
    OBVIOUS
  <2>1. CASE Begins \/ StopStep \/ UNCHANGED vars
    <3>1. UNCHANGED <<barrier, state, observed, content, publisher>>
      BY <2>1 DEF Begins, StopStep, StopsNextWorker, SetsStop, SetsWake, Joins, StopsNext,
                  workerVars, others, vars
    <3> QED BY <3>1 DEF BarrierInv, Waiting, EpochFirst, BeforeEpoch, HasGraph, In, barrier
  <2> QED BY <2>1, WorkerStepCounts, PublishStepCounts DEF Next
<1>3. BarrierInv => BarrierCounts
  BY DEF BarrierInv, BarrierCounts, Waiting
<1> QED BY <1>1, <1>2, <1>3, LeaseInvariance, PTL DEF Spec
=============================================================================
