--------------------------- MODULE PartitionQueue ----------------------------
(***************************************************************************)
(* A partition in use: a producer pushes the events the bus numbers in     *)
(* order, a consumer pops.  Each action is one critical section under      *)
(* m_mutex.  It implements Mailbox.                                        *)
(***************************************************************************)
EXTENDS Partition

CONSTANT MaxOffers   (* bound on the pushes of a behaviour *)

ASSUME MaxOffersAssumption == MaxOffers \in Nat

VARIABLES
  part,    (* the partition                                                *)
  offers,  (* the sequence number the next pushed event carries            *)
  taken    (* what the last pop returned: {event}, or {} for nullopt       *)

vars == <<part, offers, taken>>

Init == part = EmptyPartition /\ offers = 0 /\ taken = {}

\* push(), whatever it returns.
Offer(id, s) ==
  /\ offers < MaxOffers
  /\ part' = Push(part, Event(id, s, offers))
  /\ offers' = offers + 1
  /\ taken' = taken

\* pop() of a partition that holds something, and of an empty one.
Take ==
  /\ part.size # 0
  /\ taken' = {Front(part)}
  /\ part' = PopFront(part)
  /\ offers' = offers

TakeNothing ==
  /\ part.size = 0
  /\ taken' = {}
  /\ UNCHANGED <<part, offers>>

Next == Take \/ TakeNothing \/ \E id \in EventIDs, s \in Supersteps : Offer(id, s)

Spec == Init /\ [][Next]_vars

----------------------------------------------------------------------------
LevelsOK ==
  /\ DOMAIN part.levels \subseteq Supersteps
  /\ \A s \in DOMAIN part.levels :
       /\ part.levels[s] \in Seq(Events)
       /\ part.levels[s] # <<>>

IndexOK ==
  /\ DOMAIN part.index \subseteq Keys
  /\ \A k \in DOMAIN part.index : part.index[k] \in Nat

\* m_levels, m_index and m_size have their types, and no level is empty: the
\* pop path dereferences m_levels.begin()->second.begin() without a test.
TypeOK ==
  /\ part = [levels |-> part.levels, index |-> part.index, size |-> part.size]
  /\ LevelsOK
  /\ IndexOK
  /\ part.size \in 0 .. Capacity
  /\ offers \in Nat
  /\ taken \in SUBSET Events

\* The three redundant views of the queue agree after any sequence of pushes
\* and pops: each queued event is the one its key's index entry points to, each
\* index entry points into the level of its superstep, and m_size counts them.
IndexAgrees ==
  /\ \A s \in DOMAIN part.levels : \A i \in DOMAIN part.levels[s] :
       LET e == part.levels[s][i]
       IN  /\ e.superstep = s
           /\ KeyOf(e) \in DOMAIN part.index
           /\ part.index[KeyOf(e)] = e.sequence
  /\ \A k \in DOMAIN part.index :
       /\ k.superstep \in DOMAIN part.levels
       /\ \E i \in DOMAIN part.levels[k.superstep] :
            /\ KeyOf(part.levels[k.superstep][i]) = k
            /\ part.levels[k.superstep][i].sequence = part.index[k]
  /\ part.size = Cardinality(DOMAIN part.index)

Promise == INSTANCE Mailbox WITH pending <- Pending(part)

\* The partition is a Mailbox: lowest superstep first, insertion order within
\* it, duplicates merged in place, never above capacity.
ImplementsMailbox == Promise!Spec
=============================================================================
