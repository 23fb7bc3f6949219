---------------------------- MODULE PriorityQueue ----------------------------
(***************************************************************************)
(* What pairing_heap.hpp promises of a set of heaps, with no tree: each    *)
(* holds entries, a handle and the value behind it; popping one removes an *)
(* entry no other one is above.  Melding and moving keep the handles.      *)
(* A call on one heap is a relation between what it held and what it holds *)
(* afterwards.                                                             *)
(***************************************************************************)
EXTENDS Integers

CONSTANTS Heaps

VARIABLE contents   (* the entries of each heap *)

Init == contents = [h \in Heaps |-> {}]

HandlesOf(entries) == {e.handle : e \in entries}

Insert(before, after) ==
  \E e \in after :
     before = after \ {e} /\ e.handle \notin HandlesOf(UNION {contents[g] : g \in Heaps})

RemoveTop(before, after) ==
  \E e \in before :
     after = before \ {e} /\ \A f \in before : f.value <= e.value

Raise(before, after) ==
  \E e \in before, f \in after :
     before \ {e} = after \ {f} /\ e.handle = f.handle /\ e.value <= f.value

Clear(before, after) == after = {}

CallOn(h) ==
  /\ \A g \in Heaps \ {h} : contents'[g] = contents[g]
  /\ LET before == contents[h]
         after  == contents'[h]
     IN  \/ Insert(before, after) \/ RemoveTop(before, after)
         \/ Raise(before, after) \/ Clear(before, after)

\* A meld, or a move into a heap that was cleared, leaves g empty.
Meld(h, g) == contents'[h] = contents[h] \cup contents[g] /\ contents'[g] = {}

Swap(h, g) == contents'[h] = contents[g] /\ contents'[g] = contents[h]

CallOnBoth(h, g) ==
  /\ h # g
  /\ Meld(h, g) \/ Swap(h, g)
  /\ \A k \in Heaps \ {h, g} : contents'[k] = contents[k]

Next == \E h \in Heaps : CallOn(h) \/ \E g \in Heaps : CallOnBoth(h, g)

Spec == Init /\ [][Next]_contents
=============================================================================
