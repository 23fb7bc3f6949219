-------------------------- MODULE PairingHeapProofs ---------------------------
(***************************************************************************)
(* The scheduler's heap, for any number of nodes, heaps and values: its    *)
(* pointers lead to live nodes and agree between calls, no child is above  *)
(* its parent, nothing leaks, and every call is one of a priority queue.   *)
(*                                                                         *)
(* None of these is inductive: a loop cuts links it mends later, and what  *)
(* a call may do to a node depends on the tree the node is in.  HeapInv    *)
(* says that there is a forest behind the state (Shape): t, the store with *)
(* the links the loop has cut restored; o, the heap each node belongs to;  *)
(* and g, a grade that falls along the pointers to parents and previous    *)
(* siblings, so that following them ends.  What heads a tree is a root or  *)
(* one of the loop's variables; from that and the grades, a node that is   *)
(* of a heap is below its root (TreeInduction, TreeIs).                    *)
(***************************************************************************)
EXTENDS PairingHeap, FiniteSetTheorems, WellFoundedInduction, TLAPS

\* The nodes' fields, whether a node is allocated or not.
Store == [Nodes -> NodeType]

----------------------------------------------------------------------------
(* The pointer operations, field by field                                  *)

\* Null is no node.
LEMMA NullFacts == Null \notin Nodes /\ Null \in Pointers /\ Nodes \subseteq Pointers
BY DEF Null, Nodes, Pointers

\* Unlink clears three links of one node.
LEMMA UnlinkFields ==
  ASSUME NEW s \in Store, NEW c \in Nodes
  PROVE  /\ Unlink(s, c) \in Store
         /\ \A n \in Nodes : LET x == Unlink(s, c)[n] IN
              /\ x.value = s[n].value /\ x.child = s[n].child
              /\ x.parent = (IF n = c THEN Null ELSE s[n].parent)
              /\ x.prev = (IF n = c THEN Null ELSE s[n].prev)
              /\ x.next = (IF n = c THEN Null ELSE s[n].next)
BY NullFacts DEF Unlink, Store, NodeType

\* SetPrev changes one way back, or nothing.
LEMMA SetPrevFields ==
  ASSUME NEW s \in Store, NEW c \in Pointers, NEW p \in Pointers
  PROVE  /\ SetPrev(s, c, p) \in Store
         /\ \A n \in Nodes : LET x == SetPrev(s, c, p)[n] IN
              /\ x.value = s[n].value /\ x.child = s[n].child
              /\ x.parent = s[n].parent /\ x.next = s[n].next
              /\ x.prev = (IF n = c THEN p ELSE s[n].prev)
BY NullFacts DEF SetPrev, Store, NodeType, Pointers

\* SkipNext leads past a child: the one before it, or its parent, points behind it.
LEMMA SkipNextFields ==
  ASSUME NEW s \in Store, NEW c \in Nodes, s[c].parent # Null
  PROVE  /\ SkipNext(s, c) \in Store
         /\ \A n \in Nodes : LET x == SkipNext(s, c)[n] IN
              /\ x.value = s[n].value
              /\ x.parent = s[n].parent /\ x.prev = s[n].prev
              /\ x.next = (IF s[c].prev # Null /\ n = s[c].prev THEN s[c].next ELSE s[n].next)
              /\ x.child = (IF s[c].prev = Null /\ n = s[c].parent THEN s[c].next ELSE s[n].child)
BY NullFacts DEF SkipNext, Store, NodeType, Pointers

\* Detach changes the child, its two neighbours and, for a first child, its parent.
LEMMA DetachFields ==
  ASSUME NEW s \in Store, NEW c \in Nodes, s[c].parent # Null
  PROVE  /\ Detach(s, c) \in Store
         /\ \A n \in Nodes : LET x == Detach(s, c)[n] IN
              /\ x.value = s[n].value
              /\ x.parent = (IF n = c THEN Null ELSE s[n].parent)
              /\ x.prev = (IF n = c THEN Null
                          ELSE IF n = s[c].next THEN s[c].prev ELSE s[n].prev)
              /\ x.next = (IF n = c THEN Null
                          ELSE IF s[c].prev # Null /\ n = s[c].prev THEN s[c].next ELSE s[n].next)
              /\ x.child = (IF s[c].prev = Null /\ n = s[c].parent THEN s[c].next ELSE s[n].child)
<1>1. s[c].next \in Pointers /\ s[c].prev \in Pointers
  BY DEF Store, NodeType
<1> DEFINE a == SkipNext(s, c)  b == SetPrev(a, s[c].next, s[c].prev)
<1>2. a \in Store /\ b \in Store
  BY <1>1, SkipNextFields, SetPrevFields
<1>3. Detach(s, c) = Unlink(b, c)
  BY DEF Detach, Bypass
<1>4. \A n \in Nodes : /\ a[n].value = s[n].value
              /\ a[n].parent = s[n].parent /\ a[n].prev = s[n].prev
              /\ a[n].next = (IF s[c].prev # Null /\ n = s[c].prev THEN s[c].next ELSE s[n].next)
              /\ a[n].child = (IF s[c].prev = Null /\ n = s[c].parent THEN s[c].next
                                                                   ELSE s[n].child)
  BY SkipNextFields
<1> HIDE DEF a
<1>5. \A n \in Nodes : /\ b[n].value = a[n].value /\ b[n].child = a[n].child
              /\ b[n].parent = a[n].parent /\ b[n].next = a[n].next
              /\ b[n].prev = (IF n = s[c].next THEN s[c].prev ELSE a[n].prev)
  BY <1>1, <1>2, SetPrevFields
<1> HIDE DEF b
<1>6. /\ Unlink(b, c) \in Store
      /\ \A n \in Nodes : LET x == Unlink(b, c)[n] IN
              /\ x.value = b[n].value /\ x.child = b[n].child
              /\ x.parent = (IF n = c THEN Null ELSE b[n].parent)
              /\ x.prev = (IF n = c THEN Null ELSE b[n].prev)
              /\ x.next = (IF n = c THEN Null ELSE b[n].next)
  BY <1>2, UnlinkFields
<1> QED BY <1>3, <1>4, <1>5, <1>6

\* Adopt makes sub the first child of top and changes one node besides: the child
\* that was first.
LEMMA AdoptFields ==
  ASSUME NEW s \in Store, NEW top \in Nodes, NEW sub \in Nodes, top # sub,
         s[top].child # sub, s[top].child # top
  PROVE  /\ Adopt(s, top, sub) \in Store
         /\ \A n \in Nodes : LET x == Adopt(s, top, sub)[n] IN
              /\ x.value = s[n].value
              /\ x.parent = (IF n = top THEN Null ELSE IF n = sub THEN top ELSE s[n].parent)
              /\ x.prev = (IF n = s[top].child THEN sub
                          ELSE IF n \in {top, sub} THEN Null ELSE s[n].prev)
              /\ x.next = (IF n = top THEN Null
                          ELSE IF n = sub THEN s[top].child ELSE s[n].next)
              /\ x.child = (IF n = top THEN sub ELSE s[n].child)
<1> DEFINE a == Unlink(s, top)
           b0 == [a EXCEPT ![top].child = sub]
           b == [b0 EXCEPT ![sub] = [@ EXCEPT !.parent = top, !.prev = Null,
                                              !.next = s[top].child]]
<1>1. s[top].child \in Pointers /\ sub \in Pointers /\ top \in Pointers /\ Null \in Pointers
  BY NullFacts DEF Store, NodeType
<1>2. a \in Store /\ \A n \in Nodes :
              /\ a[n].value = s[n].value /\ a[n].child = s[n].child
              /\ a[n].parent = (IF n = top THEN Null ELSE s[n].parent)
              /\ a[n].prev = (IF n = top THEN Null ELSE s[n].prev)
              /\ a[n].next = (IF n = top THEN Null ELSE s[n].next)
  BY UnlinkFields
<1>3. Adopt(s, top, sub) = SetPrev(b, s[top].child, sub)
  BY DEF Adopt
<1> HIDE DEF a
<1>4. b0 \in Store /\ \A n \in Nodes :
              /\ b0[n].value = a[n].value
              /\ b0[n].child = (IF n = top THEN sub ELSE a[n].child)
              /\ b0[n].parent = a[n].parent
              /\ b0[n].prev = a[n].prev
              /\ b0[n].next = a[n].next
  BY <1>1, <1>2 DEF Store, NodeType
<1> HIDE DEF b0
<1>5. b0[sub] \in NodeType /\ b = [b0 EXCEPT ![sub] = [b0[sub] EXCEPT !.parent = top,
                                              !.prev = Null, !.next = s[top].child]]
  BY <1>4 DEF Store
<1>6. b \in Store
  BY <1>1, <1>4, <1>5 DEF Store, NodeType
<1>7. \A n \in Nodes : n # sub => b[n] = b0[n]
  BY <1>4, <1>5 DEF Store
<1>8. /\ b[sub].value = b0[sub].value /\ b[sub].child = b0[sub].child
      /\ b[sub].parent = top /\ b[sub].prev = Null /\ b[sub].next = s[top].child
  BY <1>4, <1>5 DEF Store, NodeType
<1>9. \A n \in Nodes :
              /\ b[n].value = b0[n].value
              /\ b[n].child = b0[n].child
              /\ b[n].parent = (IF n = sub THEN top ELSE b0[n].parent)
              /\ b[n].prev = (IF n = sub THEN Null ELSE b0[n].prev)
              /\ b[n].next = (IF n = sub THEN s[top].child ELSE b0[n].next)
  BY <1>7, <1>8
<1> HIDE DEF b
<1>10. /\ SetPrev(b, s[top].child, sub) \in Store
      /\ \A n \in Nodes : LET x == SetPrev(b, s[top].child, sub)[n] IN
              /\ x.value = b[n].value /\ x.child = b[n].child
              /\ x.parent = b[n].parent /\ x.next = b[n].next
              /\ x.prev = (IF n = s[top].child THEN sub ELSE b[n].prev)
  BY <1>1, <1>6, SetPrevFields, ZenonT(30)
<1> QED BY <1>2, <1>3, <1>4, <1>10, <1>9

----------------------------------------------------------------------------
(* Forests of linked nodes                                                 *)

\* No pointer of a node in L leads out of L.
PointersIn(s, L) ==
  \A n \in L : {s[n].parent, s[n].prev, s[n].child, s[n].next} \subseteq L \cup {Null}

\* The pointers of neighbours agree.
Mutual(s, L) ==
  \A n \in L :
    /\ s[n].child # Null => s[s[n].child].parent = n /\ s[s[n].child].prev = Null
    /\ s[n].next # Null => s[s[n].next].prev = n /\ s[s[n].next].parent = s[n].parent
    /\ s[n].prev # Null => s[s[n].prev].next = n
    /\ s[n].parent # Null /\ s[n].prev = Null => s[s[n].parent].child = n

\* The pointers upwards and backwards lead to a lower grade, in the same heap.
Graded(s, L, o, g) ==
  \A n \in L :
    /\ s[n].parent # Null => g[s[n].parent] < g[n] /\ o[s[n].parent] = o[n]
    /\ s[n].prev # Null => g[s[n].prev] < g[n] /\ o[s[n].prev] = o[n]

\* The nodes L of the store s are a forest.
Linked(s, L, o, g) ==
  /\ s \in Store /\ L \subseteq Nodes /\ o \in [Nodes -> Heaps] /\ g \in [Nodes -> Nat]
  /\ PointersIn(s, L) /\ Mutual(s, L) /\ Graded(s, L, o, g)

\* n is the first node of a list of trees; n is a tree by itself.
Head(s, n) == s[n].parent = Null /\ s[n].prev = Null
Alone(s, n) == Head(s, n) /\ s[n].next = Null

\* Only the links of the nodes in the forest count.
SameLinks(s, z, L) ==
  \A n \in L : /\ z[n].parent = s[n].parent /\ z[n].prev = s[n].prev
               /\ z[n].child = s[n].child /\ z[n].next = s[n].next

\* A store with the same links is the same forest.
LEMMA LinksOnly ==
  ASSUME NEW s, NEW z \in Store, NEW L, NEW o, NEW g, Linked(s, L, o, g), SameLinks(s, z, L)
  PROVE  Linked(z, L, o, g)
<1>1. PointersIn(z, L)
  BY DEF Linked, PointersIn, SameLinks
<1>2. Mutual(z, L)
  BY DEF Linked, PointersIn, Mutual, SameLinks
<1>3. Graded(z, L, o, g)
  BY DEF Linked, PointersIn, Graded, SameLinks
<1> QED BY <1>1, <1>2, <1>3 DEF Linked

\* No pointer leads back to its node.
LEMMA Distinct ==
  ASSUME NEW s, NEW L, NEW o, NEW g, Linked(s, L, o, g), NEW n \in L
  PROVE  /\ n \in Nodes /\ n # Null
         /\ s[n].parent \in L \cup {Null} /\ s[n].prev \in L \cup {Null}
         /\ s[n].child \in L \cup {Null} /\ s[n].next \in L \cup {Null}
         /\ s[n].parent # n /\ s[n].prev # n /\ s[n].child # n /\ s[n].next # n
         /\ s[n].prev # Null => s[s[n].prev].parent = s[n].parent
<1>1. n \in Nodes /\ n # Null /\ g[n] \in Nat
  BY NullFacts DEF Linked
<1>2. /\ s[n].parent \in L \cup {Null} /\ s[n].prev \in L \cup {Null}
      /\ s[n].child \in L \cup {Null} /\ s[n].next \in L \cup {Null}
  BY DEF Linked, PointersIn
<1>3. s[n].parent # n /\ s[n].prev # n
  BY <1>1 DEF Linked, Graded
<1>4. s[n].child # n /\ s[n].next # n
  BY <1>1, <1>3 DEF Linked, Mutual
<1>5. s[n].prev # Null => s[s[n].prev].parent = s[n].parent
  BY <1>1, <1>2, NullFacts DEF Linked, Mutual
<1> QED BY <1>1, <1>2, <1>3, <1>4, <1>5

\* What the pointers of nodes that nothing is linked to lead to.
LEMMA LeastGrade ==
  ASSUME NEW S, S \subseteq Nodes, S # {}, NEW g \in [Nodes -> Nat]
  PROVE  \E m \in S : \A k \in S : g[m] <= g[k]
<1> DEFINE G == {g[n] : n \in S}
<1>1. G \subseteq Nat /\ G # {}
  OBVIOUS
<1>2. \E x \in G : \A y \in G : ~(<<y, x>> \in OpToRel(<, Nat))
  BY <1>1, NatLessThanWellFounded, WFMin
<1>3. PICK x \in G : \A y \in G : ~(<<y, x>> \in OpToRel(<, Nat))
  BY <1>2
<1>4. \A y \in G : ~(y < x)
  BY <1>1, <1>3 DEF OpToRel
<1>5. PICK m \in S : x = g[m]
  OBVIOUS
<1>6. \A k \in S : g[k] \in G /\ g[k] \in Nat /\ x \in Nat
  BY <1>1
<1> HIDE DEF G
<1>7. \A k \in S : g[m] <= g[k]
  BY <1>4, <1>5, <1>6
<1> QED BY <1>7

\* The first child is the way to all the others.
LEMMA NoChildren ==
  ASSUME NEW s, NEW L, NEW o, NEW g, Linked(s, L, o, g), NEW n \in L, s[n].child = Null
  PROVE  \A m \in L : s[m].parent # n
<1> DEFINE S == {m \in L : s[m].parent = n}
<1> SUFFICES ASSUME S # {} PROVE FALSE
  OBVIOUS
<1>1. S \subseteq Nodes /\ g \in [Nodes -> Nat]
  BY DEF Linked
<1>2. PICK m \in S : \A k \in S : g[m] <= g[k]
  BY <1>1, LeastGrade
<1>3. n # Null /\ m # Null /\ s[m].prev \in L \cup {Null}
      /\ (s[m].prev # Null => s[s[m].prev].parent = s[m].parent)
  BY Distinct
<1>4. s[m].prev # Null
  BY <1>3 DEF Linked, Mutual
<1>5. s[m].prev \in S /\ g[s[m].prev] < g[m]
  BY <1>3, <1>4 DEF Linked, Graded
<1>6. g[s[m].prev] \in Nat /\ g[m] \in Nat
  BY <1>1, <1>5
<1> QED BY <1>2, <1>5, <1>6

\* A new node is a tree of its own.
LEMMA AddLinked ==
  ASSUME NEW s, NEW L, NEW o, NEW g, Linked(s, L, o, g), NEW n \in Nodes \ L, NEW v \in Values,
         NEW h \in Heaps
  PROVE  Linked([s EXCEPT ![n] = NewNode(v)], L \cup {n}, [o EXCEPT ![n] = h], g)
<1> DEFINE z == [s EXCEPT ![n] = NewNode(v)]
           M == L \cup {n}
           p == [o EXCEPT ![n] = h]
<1>1. z \in Store /\ p \in [Nodes -> Heaps] /\ M \subseteq Nodes
  BY NullFacts DEF Linked, Store, NodeType, NewNode
<1>2. z[n].parent = Null /\ z[n].prev = Null /\ z[n].child = Null /\ z[n].next = Null
  BY DEF Linked, Store, NewNode
<1>3. \A m \in L : m # n /\ z[m] = s[m] /\ p[m] = o[m]
  BY DEF Linked, Store
<1>4. n # Null /\ n \notin L
  BY NullFacts
<1> HIDE DEF z, p
<1>5. PointersIn(z, M)
  BY <1>2, <1>3 DEF Linked, PointersIn
<1>6. \A m \in L : /\ s[m].parent \in L \cup {Null} /\ s[m].prev \in L \cup {Null}
                   /\ s[m].child \in L \cup {Null} /\ s[m].next \in L \cup {Null}
  BY Distinct
<1>7. Mutual(z, M)
  BY <1>2, <1>3, <1>4, <1>6 DEF Linked, Mutual
<1>8. Graded(z, M, p, g)
  BY <1>2, <1>3, <1>4, <1>6 DEF Linked, Graded
<1> QED BY <1>1, <1>5, <1>7, <1>8 DEF Linked, z, p

\* A tree that nothing is left of but its root can go.
LEMMA RemoveLinked ==
  ASSUME NEW s, NEW L, NEW o, NEW g, Linked(s, L, o, g), NEW n \in L,
         Alone(s, n), s[n].child = Null
  PROVE  /\ Linked(s, L \ {n}, o, g)
         /\ \A m \in L :
              {s[m].parent, s[m].prev, s[m].child, s[m].next} \subseteq (L \ {n}) \cup {Null}
<1>1. n # Null
  BY Distinct
<1>2. ASSUME NEW m \in L
      PROVE  s[m].parent # n /\ s[m].prev # n /\ s[m].child # n /\ s[m].next # n
  <2>1. s[m].prev # n
    BY <1>1, Distinct DEF Alone, Linked, Mutual
  <2>2. s[m].child # n /\ s[m].next # n
    BY <1>1, Distinct DEF Alone, Head, Linked, Mutual
  <2>3. s[m].parent # n
    BY NoChildren
  <2> QED BY <2>1, <2>2, <2>3
<1>3. \A m \in L : {s[m].parent, s[m].prev, s[m].child, s[m].next} \subseteq (L \ {n}) \cup {Null}
  BY <1>2 DEF Linked, PointersIn
<1>4. PointersIn(s, L \ {n}) /\ Mutual(s, L \ {n}) /\ Graded(s, L \ {n}, o, g)
  BY <1>3 DEF Linked, PointersIn, Mutual, Graded
<1> QED BY <1>3, <1>4 DEF Linked

\* A node with its tree leaves the children it is among.
LEMMA DetachLinked ==
  ASSUME NEW s, NEW L, NEW o, NEW g, Linked(s, L, o, g), NEW c \in L, s[c].parent # Null
  PROVE  Linked(Detach(s, c), L, o, g)
<1> DEFINE z == Detach(s, c)
<1>1. c \in Nodes /\ c # Null /\ L \subseteq Nodes /\ s \in Store
  BY NullFacts DEF Linked
<1>2. /\ z \in Store
      /\ \A n \in L :
              /\ z[n].parent = (IF n = c THEN Null ELSE s[n].parent)
              /\ z[n].prev = (IF n = c THEN Null
                             ELSE IF n = s[c].next THEN s[c].prev ELSE s[n].prev)
              /\ z[n].next = (IF n = c THEN Null
                          ELSE IF s[c].prev # Null /\ n = s[c].prev THEN s[c].next
                          ELSE s[n].next)
              /\ z[n].child = (IF s[c].prev = Null /\ n = s[c].parent THEN s[c].next
                              ELSE s[n].child)
  BY <1>1, DetachFields
<1> HIDE DEF z
<1>3. \A m \in L : /\ s[m].parent \in L \cup {Null} /\ s[m].prev \in L \cup {Null}
                   /\ s[m].child \in L \cup {Null} /\ s[m].next \in L \cup {Null}
                   /\ s[m].parent # m /\ s[m].prev # m /\ s[m].child # m /\ s[m].next # m
                   /\ s[m].prev # Null => s[s[m].prev].parent = s[m].parent
                   /\ m # Null
  BY Distinct
<1>4. PointersIn(z, L)
  BY <1>2, <1>3 DEF PointersIn
<1>5. ASSUME NEW n \in L
      PROVE  /\ z[n].child # Null => z[z[n].child].parent = n /\ z[z[n].child].prev = Null
             /\ z[n].next # Null => z[z[n].next].prev = n /\ z[z[n].next].parent = z[n].parent
             /\ z[n].prev # Null => z[z[n].prev].next = n
             /\ z[n].parent # Null /\ z[n].prev = Null => z[z[n].parent].child = n
  <2>1. z[n].child # Null => z[z[n].child].parent = n /\ z[z[n].child].prev = Null
    BY <1>1, <1>2, <1>3 DEF Linked, Mutual
  <2>2. z[n].next # Null => z[z[n].next].prev = n /\ z[z[n].next].parent = z[n].parent
    <3>1. CASE n = c
      BY <1>2, <3>1
    <3>2. CASE n # c /\ n = s[c].prev
      BY <1>1, <1>2, <1>3, <3>2 DEF Linked, Mutual
    <3>3. CASE n # c /\ n # s[c].prev
      <4>1. z[n].next = s[n].next /\ z[n].parent = s[n].parent
        BY <1>2, <3>3
      <4>2. s[n].next # Null => s[n].next # c /\ s[n].next # s[c].next
        BY <1>1, <1>3, <3>3 DEF Linked, Mutual
      <4> QED BY <1>1, <1>2, <1>3, <4>1, <4>2 DEF Linked, Mutual
    <3> QED BY <3>1, <3>2, <3>3
  <2>3. z[n].prev # Null => z[z[n].prev].next = n
    BY <1>1, <1>2, <1>3 DEF Linked, Mutual
  <2>4. z[n].parent # Null /\ z[n].prev = Null => z[z[n].parent].child = n
    <3>1. CASE n = c
      BY <1>2, <3>1
    <3>2. CASE n # c /\ n = s[c].next
      BY <1>1, <1>2, <1>3, <3>2 DEF Linked, Mutual
    <3>3. CASE n # c /\ n # s[c].next
      <4>1. z[n].prev = s[n].prev /\ z[n].parent = s[n].parent
        BY <1>2, <3>3
      <4>2. s[n].parent # Null /\ s[n].prev = Null
              => s[s[n].parent].child = n /\ (s[c].prev = Null => s[n].parent # s[c].parent)
        BY <1>1, <1>3, <3>3 DEF Linked, Mutual
      <4> QED BY <1>1, <1>2, <1>3, <4>1, <4>2
    <3> QED BY <3>1, <3>2, <3>3
  <2> QED BY <2>1, <2>2, <2>3, <2>4
<1>6. Mutual(z, L)
  BY <1>5 DEF Mutual
<1>7. \A n \in L : g[n] \in Nat
  BY <1>1 DEF Linked
<1>8. Graded(z, L, o, g)
  <2> SUFFICES ASSUME NEW n \in L
               PROVE  /\ z[n].parent # Null => g[z[n].parent] < g[n] /\ o[z[n].parent] = o[n]
                      /\ z[n].prev # Null => g[z[n].prev] < g[n] /\ o[z[n].prev] = o[n]
    BY DEF Graded
  <2>1. z[n].parent # Null => g[z[n].parent] < g[n] /\ o[z[n].parent] = o[n]
    BY <1>2, <1>3 DEF Linked, Graded
  <2>2. CASE n = s[c].next
    <3>1. s[n].prev = c
      BY <1>1, <1>3, <2>2 DEF Linked, Mutual
    <3> QED BY <1>1, <1>2, <1>3, <1>7, <2>1, <2>2, <3>1 DEF Linked, Graded
  <2>3. CASE n # s[c].next
    BY <1>1, <1>2, <1>3, <2>1, <2>3 DEF Linked, Graded
  <2> QED BY <2>2, <2>3
<1> QED BY <1>1, <1>2, <1>4, <1>6, <1>8 DEF Linked, z

----------------------------------------------------------------------------
(* Induction along the grades                                              *)

\* S has the parentless nodes of heap h, and the children of its nodes.
Grown(s, L, o, h, S) ==
  \A n \in L : o[n] = h /\ (s[n].parent = Null \/ s[n].parent \in S) => n \in S

\* Such a set has all nodes of the heap.
LEMMA TreeInduction ==
  ASSUME NEW s, NEW L, NEW o, NEW g, NEW h, NEW S, Linked(s, L, o, g),
         Grown(s, L, o, h, S)
  PROVE  \A n \in L : o[n] = h => n \in S
<1> DEFINE R == {n \in L : o[n] = h /\ n \notin S}
<1> SUFFICES ASSUME R # {} PROVE FALSE
  OBVIOUS
<1>1. R \subseteq Nodes /\ g \in [Nodes -> Nat]
  BY DEF Linked
<1>2. PICK m \in R : \A k \in R : g[m] <= g[k]
  BY <1>1, LeastGrade
<1>3. m # Null /\ s[m].parent \in L \cup {Null} /\ s[m].parent # Null
  BY Distinct DEF Grown
<1>4. s[m].parent \in R /\ g[s[m].parent] < g[m]
  BY <1>3 DEF Grown, Linked, Graded
<1>5. g[s[m].parent] \in Nat /\ g[m] \in Nat
  BY <1>1, <1>4
<1> QED BY <1>2, <1>4, <1>5

\* Where no head has a sibling, every parentless node is a head.
LEMMA NoSiblings ==
  ASSUME NEW s, NEW L, NEW o, NEW g, Linked(s, L, o, g), NEW h,
         \A n \in L : o[n] = h /\ Head(s, n) => s[n].next = Null
  PROVE  \A n \in L : o[n] = h /\ s[n].parent = Null => Head(s, n)
<1> DEFINE R == {n \in L : o[n] = h /\ s[n].parent = Null /\ s[n].prev # Null}
<1> SUFFICES ASSUME R # {} PROVE FALSE
  BY DEF Head
<1>1. R \subseteq Nodes /\ g \in [Nodes -> Nat]
  BY DEF Linked
<1>2. PICK m \in R : \A k \in R : g[m] <= g[k]
  BY <1>1, LeastGrade
<1>3. /\ m # Null /\ s[m].prev \in L /\ s[m].prev # Null
      /\ s[s[m].prev].parent = Null
  BY Distinct
<1>4. o[s[m].prev] = h /\ g[s[m].prev] < g[m] /\ s[s[m].prev].next = m
  BY <1>3 DEF Linked, Graded, Mutual
<1>5. s[m].prev \in R
  BY <1>3, <1>4 DEF Head
<1>6. g[s[m].prev] \in Nat /\ g[m] \in Nat
  BY <1>1, <1>5
<1> QED BY <1>2, <1>4, <1>5, <1>6

----------------------------------------------------------------------------
(* The other operations on forests                                         *)

\* The pointers of a forest's nodes, for the provers.
LEMMA Around ==
  ASSUME NEW s, NEW L, NEW o, NEW g, Linked(s, L, o, g)
  PROVE  /\ L \subseteq Nodes /\ s \in Store /\ Null \notin L
         /\ \A m \in L :
              /\ s[m].parent \in L \cup {Null} /\ s[m].prev \in L \cup {Null}
              /\ s[m].child \in L \cup {Null} /\ s[m].next \in L \cup {Null}
              /\ s[m].parent # m /\ s[m].prev # m /\ s[m].child # m /\ s[m].next # m
              /\ s[m].prev # Null => s[s[m].prev].parent = s[m].parent
              /\ g[m] \in Nat
BY Distinct, NullFacts DEF Linked

\* A tree goes in front of a list of trees.
LEMMA PushLinked ==
  ASSUME NEW s, NEW L, NEW o, NEW g, Linked(s, L, o, g), NEW m \in L, Alone(s, m),
         NEW k \in L \cup {Null}, k # m, k # Null => Head(s, k) /\ o[k] = o[m],
         NEW z \in Store,
         \A n \in L : /\ z[n].parent = s[n].parent /\ z[n].child = s[n].child
                      /\ z[n].next = (IF n = m THEN k ELSE s[n].next)
                      /\ z[n].prev = (IF n = k THEN m ELSE s[n].prev)
  PROVE  Linked(z, L, o, [n \in Nodes |-> IF n = m THEN 0 ELSE g[n] + 1])
<1> DEFINE f == [n \in Nodes |-> IF n = m THEN 0 ELSE g[n] + 1]
<1>1. /\ L \subseteq Nodes /\ Null \notin L
      /\ \A n \in L :
              /\ s[n].parent \in L \cup {Null} /\ s[n].prev \in L \cup {Null}
              /\ s[n].child \in L \cup {Null} /\ s[n].next \in L \cup {Null}
              /\ g[n] \in Nat
  BY Around
<1>2. PointersIn(z, L)
  BY <1>1 DEF PointersIn
<1>3. \A n \in L : /\ s[n].prev # m /\ (n # m => s[n].next # k \/ k = Null)
                   /\ s[n].child # k \/ k = Null
  BY <1>1 DEF Linked, Mutual, Alone, Head
<1>4. ASSUME NEW n \in L
      PROVE  /\ z[n].child # Null => z[z[n].child].parent = n /\ z[z[n].child].prev = Null
             /\ z[n].next # Null => z[z[n].next].prev = n /\ z[z[n].next].parent = z[n].parent
             /\ z[n].prev # Null => z[z[n].prev].next = n
             /\ z[n].parent # Null /\ z[n].prev = Null => z[z[n].parent].child = n
  <2>1. z[n].child # Null => z[z[n].child].parent = n /\ z[z[n].child].prev = Null
    BY <1>1, <1>3 DEF Linked, Mutual
  <2>2. z[n].next # Null => z[z[n].next].prev = n /\ z[z[n].next].parent = z[n].parent
    BY <1>1, <1>3 DEF Linked, Mutual, Alone, Head
  <2>3. z[n].prev # Null => z[z[n].prev].next = n
    BY <1>1, <1>3 DEF Linked, Mutual
  <2>4. z[n].parent # Null /\ z[n].prev = Null => z[z[n].parent].child = n
    BY <1>1, <1>3 DEF Linked, Mutual, Alone, Head
  <2> QED BY <2>1, <2>2, <2>3, <2>4
<1>5. Mutual(z, L)
  BY <1>4 DEF Mutual
<1>6. f \in [Nodes -> Nat]
  BY DEF Linked
<1>7. \A n \in L : f[n] = IF n = m THEN 0 ELSE g[n] + 1
  BY <1>1
<1> HIDE DEF f
<1>8. ASSUME NEW n \in L
      PROVE  /\ z[n].parent # Null => f[z[n].parent] < f[n] /\ o[z[n].parent] = o[n]
             /\ z[n].prev # Null => f[z[n].prev] < f[n] /\ o[z[n].prev] = o[n]
  <2>1. z[n].parent # Null => f[z[n].parent] < f[n] /\ o[z[n].parent] = o[n]
    BY <1>1, <1>7 DEF Linked, Graded, Alone, Head
  <2>2. z[n].prev # Null => f[z[n].prev] < f[n] /\ o[z[n].prev] = o[n]
    BY <1>1, <1>3, <1>7 DEF Linked, Graded, Alone, Head
  <2> QED BY <2>1, <2>2
<1>9. Graded(z, L, o, f)
  BY <1>8 DEF Graded
<1> QED BY <1>2, <1>5, <1>6, <1>9 DEF Linked, f

\* The first tree of a list leaves it.
LEMMA PopLinked ==
  ASSUME NEW s, NEW L, NEW o, NEW g, Linked(s, L, o, g), NEW k \in L, Head(s, k),
         NEW z \in Store,
         \A n \in L : /\ z[n].parent = s[n].parent /\ z[n].child = s[n].child
                      /\ z[n].next = (IF n = k THEN Null ELSE s[n].next)
                      /\ z[n].prev = (IF n = s[k].next THEN Null ELSE s[n].prev)
  PROVE  Linked(z, L, o, g)
<1>1. /\ L \subseteq Nodes /\ Null \notin L
      /\ \A n \in L :
              /\ s[n].parent \in L \cup {Null} /\ s[n].prev \in L \cup {Null}
              /\ s[n].child \in L \cup {Null} /\ s[n].next \in L \cup {Null}
              /\ s[n].prev # Null => s[s[n].prev].parent = s[n].parent
              /\ g[n] \in Nat
  BY Around
<1>2. PointersIn(z, L)
  BY <1>1 DEF PointersIn
<1>3. s[k].next # Null => s[s[k].next].parent = Null /\ s[s[k].next].prev = k
  BY <1>1 DEF Linked, Mutual, Head
<1>4. ASSUME NEW n \in L
      PROVE  /\ z[n].child # Null => z[z[n].child].parent = n /\ z[z[n].child].prev = Null
             /\ z[n].next # Null => z[z[n].next].prev = n /\ z[z[n].next].parent = z[n].parent
             /\ z[n].prev # Null => z[z[n].prev].next = n
             /\ z[n].parent # Null /\ z[n].prev = Null => z[z[n].parent].child = n
  <2>1. z[n].child # Null => z[z[n].child].parent = n /\ z[z[n].child].prev = Null
    BY <1>1, <1>3 DEF Linked, Mutual
  <2>2. z[n].next # Null => z[z[n].next].prev = n /\ z[z[n].next].parent = z[n].parent
    BY <1>1, <1>3 DEF Linked, Mutual
  <2>3. z[n].prev # Null => z[z[n].prev].next = n
    BY <1>1, <1>3 DEF Linked, Mutual
  <2>4. z[n].parent # Null /\ z[n].prev = Null => z[z[n].parent].child = n
    BY <1>1, <1>3 DEF Linked, Mutual
  <2> QED BY <2>1, <2>2, <2>3, <2>4
<1>5. Mutual(z, L)
  BY <1>4 DEF Mutual
<1>6. Graded(z, L, o, g)
  BY <1>1 DEF Linked, Graded
<1> QED BY <1>2, <1>5, <1>6 DEF Linked

\* One tree becomes the first child of another's root.
LEMMA AdoptLinked ==
  ASSUME NEW s, NEW L, NEW o, NEW g, Linked(s, L, o, g), NEW top \in L, NEW sub \in L,
         Alone(s, top), Alone(s, sub), top # sub, o[top] = o[sub]
  PROVE  Linked(Adopt(s, top, sub), L, o,
                [n \in Nodes |-> IF n = top THEN 0 ELSE IF n = sub THEN 1 ELSE g[n] + 2])
<1> DEFINE f == [n \in Nodes |-> IF n = top THEN 0 ELSE IF n = sub THEN 1 ELSE g[n] + 2]
           z == Adopt(s, top, sub)
<1>1. /\ L \subseteq Nodes /\ Null \notin L /\ s \in Store
      /\ \A n \in L :
              /\ s[n].parent \in L \cup {Null} /\ s[n].prev \in L \cup {Null}
              /\ s[n].child \in L \cup {Null} /\ s[n].next \in L \cup {Null}
              /\ s[n].child # n
              /\ g[n] \in Nat
  BY Around
<1>2. s[top].child # sub /\ s[top].child # top /\ top \in Nodes /\ sub \in Nodes
  BY <1>1 DEF Linked, Mutual, Alone, Head
<1>3. /\ z \in Store
      /\ \A n \in L :
              /\ z[n].parent = (IF n = top THEN Null ELSE IF n = sub THEN top ELSE s[n].parent)
              /\ z[n].prev = (IF n = s[top].child THEN sub
                          ELSE IF n \in {top, sub} THEN Null ELSE s[n].prev)
              /\ z[n].next = (IF n = top THEN Null
                          ELSE IF n = sub THEN s[top].child ELSE s[n].next)
              /\ z[n].child = (IF n = top THEN sub ELSE s[n].child)
  BY <1>1, <1>2, AdoptFields
<1> HIDE DEF z
<1>4. PointersIn(z, L)
  BY <1>1, <1>3 DEF PointersIn
<1>5. /\ s[top].child # Null => s[s[top].child].parent = top /\ s[s[top].child].prev = Null
      /\ \A n \in L : /\ s[n].next \notin {top, sub} /\ s[n].child \notin {top, sub}
                      /\ s[n].prev \notin {top, sub}
                      /\ (s[n].next # Null => s[n].next # s[top].child)
  BY <1>1, <1>2 DEF Linked, Mutual, Alone, Head
<1>6. ASSUME NEW n \in L
      PROVE  /\ z[n].child # Null => z[z[n].child].parent = n /\ z[z[n].child].prev = Null
             /\ z[n].next # Null => z[z[n].next].prev = n /\ z[z[n].next].parent = z[n].parent
             /\ z[n].prev # Null => z[z[n].prev].next = n
             /\ z[n].parent # Null /\ z[n].prev = Null => z[z[n].parent].child = n
  <2>1. z[n].child # Null => z[z[n].child].parent = n /\ z[z[n].child].prev = Null
    BY <1>1, <1>2, <1>3, <1>5 DEF Linked, Mutual
  <2>2. z[n].next # Null => z[z[n].next].prev = n /\ z[z[n].next].parent = z[n].parent
    BY <1>1, <1>2, <1>3, <1>5 DEF Linked, Mutual
  <2>3. z[n].prev # Null => z[z[n].prev].next = n
    BY <1>1, <1>2, <1>3, <1>5 DEF Linked, Mutual
  <2>4. z[n].parent # Null /\ z[n].prev = Null => z[z[n].parent].child = n
    BY <1>1, <1>2, <1>3, <1>5 DEF Linked, Mutual, Alone, Head
  <2> QED BY <2>1, <2>2, <2>3, <2>4
<1>7. Mutual(z, L)
  BY <1>6 DEF Mutual
<1>8. f \in [Nodes -> Nat]
  BY DEF Linked
<1>9. \A n \in L : f[n] = IF n = top THEN 0 ELSE IF n = sub THEN 1 ELSE g[n] + 2
  BY <1>1
<1> HIDE DEF f
<1>10. ASSUME NEW n \in L
      PROVE  /\ z[n].parent # Null => f[z[n].parent] < f[n] /\ o[z[n].parent] = o[n]
             /\ z[n].prev # Null => f[z[n].prev] < f[n] /\ o[z[n].prev] = o[n]
  <2>1. z[n].parent # Null => f[z[n].parent] < f[n] /\ o[z[n].parent] = o[n]
    BY <1>1, <1>2, <1>3, <1>9 DEF Linked, Graded, Alone, Head
  <2>2. CASE n = s[top].child
    BY <1>1, <1>2, <1>3, <1>5, <1>9, <2>2 DEF Linked, Graded
  <2>3. CASE n # s[top].child
    BY <1>1, <1>2, <1>3, <1>5, <1>9, <2>3 DEF Linked, Graded
  <2> QED BY <2>1, <2>2, <2>3
<1>11. Graded(z, L, o, f)
  BY <1>10 DEF Graded
<1> QED BY <1>1, <1>3, <1>4, <1>7, <1>8, <1>11 DEF Linked, f, z

----------------------------------------------------------------------------
(* Melding two trees                                                       *)

\* No child is above its parent.
Sorted(s, L) == \A n \in L : s[n].parent # Null => s[n].value <= s[s[n].parent].value

\* The nodes may change their heap, if those of one heap still share one.
LEMMA RenameLinked ==
  ASSUME NEW s, NEW L, NEW o, NEW g, Linked(s, L, o, g), NEW p \in [Nodes -> Heaps],
         \A n, m \in L : o[n] = o[m] => p[n] = p[m]
  PROVE  Linked(s, L, p, g)
<1>1. Graded(s, L, p, g)
  BY DEF Linked, Graded, PointersIn
<1> QED BY <1>1 DEF Linked

\* The values of nodes can be compared.
LEMMA ValuesAreInts ==
  ASSUME NEW s \in Store, NEW n \in Nodes
  PROVE  s[n].value \in Values /\ s[n].value \in Int
BY PairingHeapAssumption DEF Store, NodeType

\* l and r may be melded.
Meldable(s, L, o, l, r) ==
  /\ l \in L \cup {Null} /\ r \in L \cup {Null}
  /\ l # Null => Alone(s, l)
  /\ r # Null => Alone(s, r)
  /\ l # Null /\ r # Null => l # r /\ o[l] = o[r]

\* What melding l and r to the tree of w does to a forest.
Melds(s, z, w, L, l, r) ==
  /\ w \in {l, r} /\ (w = Null => l = Null /\ r = Null)
  /\ w # Null => Alone(z, w)
  /\ \A n \in L : z[n].value = s[n].value
  /\ \A n \in L : Head(z, n) => Head(s, n) /\ (n \in {l, r} => n = w)
  /\ \A n \in L \ {l, r} :
       /\ z[n].parent = s[n].parent /\ z[n].next = s[n].next /\ z[n].child = s[n].child
       /\ s[n].parent \notin {l, r} \/ s[n].parent = Null => z[n].prev = s[n].prev

\* Melding makes the tree with the smaller root a child of the other root.
LEMMA WinnerFacts ==
  ASSUME NEW s \in Store, NEW l \in Nodes, NEW r \in Nodes, l # r
  PROVE  \E w \in {l, r}, u \in {l, r} :
           /\ w # u /\ s[u].value <= s[w].value
           /\ MeldRoot(s, l, r) = w /\ MeldStore(s, l, r) = Adopt(s, w, u)
<1>1. l # Null /\ r # Null
  BY NullFacts
<1>2. s[l].value \in Int /\ s[r].value \in Int
  BY ValuesAreInts
<1>3. CASE s[l].value < s[r].value
  <2>1. Winner(s, l, r) = r
    BY <1>3 DEF Winner
  <2>2. MeldRoot(s, l, r) = r /\ MeldStore(s, l, r) = Adopt(s, r, l) /\ s[l].value <= s[r].value
    BY <1>1, <1>2, <1>3, <2>1 DEF MeldRoot, MeldStore
  <2> QED BY <2>2
<1>4. CASE ~ (s[l].value < s[r].value)
  <2>1. Winner(s, l, r) = l
    BY <1>4 DEF Winner
  <2>2. MeldRoot(s, l, r) = l /\ MeldStore(s, l, r) = Adopt(s, l, r) /\ s[r].value <= s[l].value
    BY <1>1, <1>2, <1>4, <2>1 DEF MeldRoot, MeldStore
  <2> QED BY <2>2
<1> QED BY <1>3, <1>4

\* The greater root takes the other as its first child: the forest stays linked
\* and sorted, and it has one head less.
LEMMA MeldLinked ==
  ASSUME NEW s, NEW L, NEW o, NEW g, Linked(s, L, o, g), Sorted(s, L),
         NEW l, NEW r, Meldable(s, L, o, l, r)
  PROVE  /\ \E f : Linked(MeldStore(s, l, r), L, o, f)
         /\ Sorted(MeldStore(s, l, r), L)
         /\ Melds(s, MeldStore(s, l, r), MeldRoot(s, l, r), L, l, r)
<1>1. CASE l = Null \/ r = Null
  <2>1. MeldStore(s, l, r) = s /\ MeldRoot(s, l, r) = IF l = Null THEN r ELSE l
    BY <1>1 DEF MeldStore, MeldRoot
  <2>2. Melds(s, s, MeldRoot(s, l, r), L, l, r)
    BY <1>1, <2>1, Around DEF Melds, Meldable
  <2> QED BY <2>1, <2>2
<1>2. CASE l # Null /\ r # Null
  <2>1. /\ L \subseteq Nodes /\ Null \notin L /\ s \in Store
        /\ \A n \in L :
              /\ s[n].parent \in L \cup {Null} /\ s[n].prev \in L \cup {Null}
              /\ s[n].child \in L \cup {Null} /\ s[n].next \in L \cup {Null}
              /\ s[n].child # n
    BY Around
  <2>2. l \in L /\ r \in L /\ l # r /\ o[l] = o[r] /\ Alone(s, l) /\ Alone(s, r)
        /\ l \in Nodes /\ r \in Nodes
    BY <1>2, <2>1 DEF Meldable
  <2>3. PICK w \in {l, r}, u \in {l, r} :
           /\ w # u /\ s[u].value <= s[w].value
           /\ MeldRoot(s, l, r) = w /\ MeldStore(s, l, r) = Adopt(s, w, u)
    BY <2>1, <2>2, WinnerFacts
  <2> DEFINE z == Adopt(s, w, u)
  <2>4. \E f : Linked(z, L, o, f)
    <3>1. w \in L /\ u \in L /\ Alone(s, w) /\ Alone(s, u) /\ o[w] = o[u]
      BY <2>2
    <3>2. Linked(z, L, o,
                 [n \in Nodes |-> IF n = w THEN 0 ELSE IF n = u THEN 1 ELSE g[n] + 2])
      BY <2>3, <3>1, AdoptLinked
    <3> HIDE DEF z
    <3> QED BY <3>2
  <2>5. /\ s[w].child # w /\ s[w].child # u
        /\ \A n \in L : s[n].parent # Null => s[n].parent \in L
        /\ s[w].child # Null => s[s[w].child].parent = w /\ s[s[w].child].prev = Null
    BY <2>1, <2>2, <2>3 DEF Linked, Mutual, Alone, Head
  <2>6. \A n \in L :
          /\ z[n].value = s[n].value
          /\ z[n].parent = (IF n = w THEN Null ELSE IF n = u THEN w ELSE s[n].parent)
          /\ z[n].prev = (IF n = s[w].child THEN u
                          ELSE IF n \in {w, u} THEN Null ELSE s[n].prev)
          /\ z[n].next = (IF n = w THEN Null
                          ELSE IF n = u THEN s[w].child ELSE s[n].next)
          /\ z[n].child = (IF n = w THEN u ELSE s[n].child)
    BY <2>1, <2>2, <2>3, <2>5, AdoptFields
  <2> HIDE DEF z
  <2>7. Sorted(z, L)
    BY <2>1, <2>2, <2>3, <2>6 DEF Sorted
  <2>8. Alone(z, w)
    BY <2>2, <2>3, <2>5, <2>6 DEF Alone, Head
  <2>9. ASSUME NEW n \in L, Head(z, n)
        PROVE  Head(s, n) /\ (n \in {l, r} => n = w)
    BY <2>1, <2>2, <2>3, <2>5, <2>6, <2>9 DEF Alone, Head
  <2>10. ASSUME NEW n \in L \ {l, r}
        PROVE  /\ z[n].parent = s[n].parent /\ z[n].next = s[n].next /\ z[n].child = s[n].child
               /\ s[n].parent \notin {l, r} \/ s[n].parent = Null => z[n].prev = s[n].prev
    BY <2>1, <2>2, <2>3, <2>5, <2>6
  <2>11. Melds(s, z, w, L, l, r)
    BY <1>2, <2>3, <2>6, <2>8, <2>9, <2>10 DEF Melds
  <2> QED BY <2>3, <2>4, <2>7, <2>11 DEF z
<1> QED BY <1>1, <1>2

\* During the first pass the store p is the forest q but for the links between
\* the popped node T and the first of its remaining children, k.
Seen(p, q, T, k, L) ==
  /\ p \in Store /\ q \in Store
  /\ \A n \in Nodes :
       /\ p[n].value = q[n].value /\ p[n].parent = q[n].parent /\ p[n].next = q[n].next
       /\ p[n].child = (IF n = T THEN Null ELSE q[n].child)
       /\ n # k => p[n].prev = q[n].prev
  /\ \A n \in L : p[n].prev \in L \cup {Null}

\* The same two trees are melded in both.
LEMMA SeenMeld ==
  ASSUME NEW p, NEW q, NEW T, NEW k, NEW L, Seen(p, q, T, k, L), L \subseteq Nodes,
         NEW o, NEW g, Linked(q, L, o, g),
         NEW l, NEW r, Meldable(q, L, o, l, r), T \notin {l, r}
  PROVE  /\ Seen(MeldStore(p, l, r), MeldStore(q, l, r), T, k, L)
         /\ MeldRoot(p, l, r) = MeldRoot(q, l, r)
<1>1. CASE l = Null \/ r = Null
  BY <1>1 DEF MeldStore, MeldRoot
<1>2. CASE l # Null /\ r # Null
  <2>1. p \in Store /\ q \in Store /\ (\A n \in L : q[n].child # n) /\ Null \notin L
    BY Around DEF Seen
  <2>2. /\ l \in L /\ r \in L /\ l # r /\ Alone(q, l) /\ Alone(q, r)
        /\ l \in Nodes /\ r \in Nodes /\ T # l /\ T # r
    BY <1>2 DEF Meldable
  <2>3. PICK w \in {l, r}, u \in {l, r} :
           /\ w # u /\ q[u].value <= q[w].value
           /\ MeldRoot(q, l, r) = w /\ MeldStore(q, l, r) = Adopt(q, w, u)
    BY <2>1, <2>2, WinnerFacts
  <2>4. MeldRoot(p, l, r) = w /\ MeldStore(p, l, r) = Adopt(p, w, u)
    <3>1. Winner(p, l, r) = Winner(q, l, r)
      BY <2>2 DEF Winner, Seen
    <3>2. MeldRoot(p, l, r) = w
      BY <1>2, <2>3, <3>1 DEF MeldRoot
    <3>3. Winner(p, l, r) = w
      BY <1>2, <3>2 DEF MeldRoot
    <3>4. u = IF w = l THEN r ELSE l
      BY <2>2, <2>3
    <3>5. MeldStore(p, l, r) = Adopt(p, w, u)
      BY <1>2, <3>3, <3>4 DEF MeldStore
    <3> QED BY <3>2, <3>5
  <2>5. w \in Nodes /\ u \in Nodes /\ w # T /\ q[w].child # u /\ q[w].child # w /\ u \in L
    BY <2>1, <2>2, <2>3 DEF Linked, Mutual, Alone, Head
  <2>6. p[w].child = q[w].child
    BY <2>5 DEF Seen
  <2> DEFINE y == Adopt(p, w, u)  z == Adopt(q, w, u)
  <2>7. z \in Store /\ \A n \in Nodes :
          /\ z[n].value = q[n].value
          /\ z[n].parent = (IF n = w THEN Null ELSE IF n = u THEN w ELSE q[n].parent)
          /\ z[n].prev = (IF n = q[w].child THEN u
                          ELSE IF n \in {w, u} THEN Null ELSE q[n].prev)
          /\ z[n].next = (IF n = w THEN Null
                          ELSE IF n = u THEN q[w].child ELSE q[n].next)
          /\ z[n].child = (IF n = w THEN u ELSE q[n].child)
    BY <2>1, <2>3, <2>5, AdoptFields
  <2>8. y \in Store /\ \A n \in Nodes :
          /\ y[n].value = p[n].value
          /\ y[n].parent = (IF n = w THEN Null ELSE IF n = u THEN w ELSE p[n].parent)
          /\ y[n].prev = (IF n = q[w].child THEN u
                          ELSE IF n \in {w, u} THEN Null ELSE p[n].prev)
          /\ y[n].next = (IF n = w THEN Null
                          ELSE IF n = u THEN q[w].child ELSE p[n].next)
          /\ y[n].child = (IF n = w THEN u ELSE p[n].child)
    BY <2>1, <2>3, <2>5, <2>6, AdoptFields
  <2> HIDE DEF y, z
  <2>9. Seen(y, z, T, k, L)
    <3>1. ASSUME NEW n \in Nodes
          PROVE  /\ y[n].value = z[n].value /\ y[n].parent = z[n].parent
                 /\ y[n].next = z[n].next
                 /\ y[n].child = (IF n = T THEN Null ELSE z[n].child)
                 /\ n # k => y[n].prev = z[n].prev
      BY <2>5, <2>7, <2>8 DEF Seen
    <3>2. ASSUME NEW n \in L
          PROVE  y[n].prev \in L \cup {Null}
      BY <2>5, <2>8 DEF Seen
    <3> QED BY <2>7, <2>8, <3>1, <3>2 DEF Seen
  <2> QED BY <2>3, <2>4, <2>9 DEF y, z
<1> QED BY <1>1, <1>2

----------------------------------------------------------------------------
(* The invariant.  t is the store with the links restored that a loop has  *)
(* cut and not mended yet, o the heap each node belongs to.                *)

\* The nodes of heap h.
Of(o, h) == {n \in live : o[n] = h}

\* The types of the variables; the locals are null or live.
Types ==
  /\ node \in Store /\ live \subseteq Nodes
  /\ root \in [Heaps -> Pointers] /\ size \in [Heaps -> 0 .. MaxNodes]
  /\ op \in {"idle", "pair", "fold", "destroy"}
  /\ target \in Heaps /\ source \in Heaps
  /\ cursor \in live \cup {Null} /\ paired \in live \cup {Null} /\ result \in live \cup {Null}

\* The heap being cleared: its root may be deleted, its size is out of date.
Cleared(h) == op = "destroy" /\ h = target

\* A root is a tree by itself, in its heap.
RootsOf(t, o) ==
  \A h \in Heaps : ~ Cleared(h) /\ root[h] # Null =>
    root[h] \in live /\ o[root[h]] = h /\ Alone(t, root[h])

\* Besides the roots, the list of a loop starts at a head.
HeadsOf(t, o) ==
  \A n \in live : Head(t, n) =>
    \/ ~ Cleared(o[n]) /\ n = root[o[n]]
    \/ op = "pair" /\ n = paired
    \/ op = "fold" /\ n \in {cursor, result}
    \/ op = "destroy" /\ n = cursor

\* m_size counts the nodes of the heap.
Counts(o) == \A h \in Heaps : ~ Cleared(h) => size[h] = Cardinality(Of(o, h))

\* The popped node stays allocated until the end; no node of its heap is above it.
Popping(o) ==
  op \in {"pair", "fold"} =>
    /\ root[target] # Null
    /\ \A n \in live : o[n] = target => node[n].value <= node[root[target]].value

\* The nodes of the flattened chain have no way back.
Unbacked(t) ==
  \A n \in live :
    /\ node[n].value = t[n].value /\ node[n].parent = t[n].parent
    /\ node[n].child = t[n].child /\ node[n].next = t[n].next
    /\ node[n].prev = (IF t[n].parent = Null THEN Null ELSE t[n].prev)

\* What the store and the locals are in each loop.
InPhase(t, o) ==
  /\ op = "idle" => node = t /\ cursor = Null /\ paired = Null /\ result = Null
  /\ op = "pair" =>
       /\ Seen(node, t, root[target], cursor, live)
       /\ t[root[target]].child = cursor /\ result = Null
       /\ paired # Null => Head(t, paired) /\ o[paired] = target /\ paired # root[target]
  /\ op = "fold" =>
       /\ node = t /\ t[root[target]].child = Null
       /\ cursor # Null => Head(t, cursor) /\ o[cursor] = target /\ cursor # root[target]
       /\ result # Null => Alone(t, result) /\ o[result] = target /\ result # root[target]
       /\ cursor # Null => cursor # result
  /\ op = "destroy" =>
       /\ Unbacked(t) /\ paired = Null /\ result = Null
       /\ cursor # Null => Head(t, cursor) /\ o[cursor] = target

\* The state has the forest t, the owners o and the grades g.
Shape(t, o, g) ==
  /\ Types /\ Linked(t, live, o, g) /\ Sorted(t, live)
  /\ RootsOf(t, o) /\ HeadsOf(t, o) /\ Counts(o) /\ Popping(o) /\ InPhase(t, o)

\* The inductive invariant.
HeapInv == \E t, o, g : Shape(t, o, g)

\* There are finitely many nodes.
LEMMA NodesFinite ==
  ASSUME NEW S, S \subseteq Nodes
  PROVE  IsFiniteSet(S) /\ Cardinality(S) \in 0 .. MaxNodes
<1>1. MaxNodes \in Nat /\ MaxNodes \in Int /\ 1 \in Int
  BY PairingHeapAssumption
<1>2. IsFiniteSet(Nodes) /\ Cardinality(Nodes) = MaxNodes
  BY <1>1, FS_Interval DEF Nodes
<1>3. IsFiniteSet(S) /\ Cardinality(S) <= Cardinality(Nodes)
  BY <1>2, FS_Subset
<1>4. Cardinality(S) \in Nat
  BY <1>3, FS_CardinalityType
<1> QED BY <1>1, <1>2, <1>3, <1>4

\* A tree is what one reaches along the children.
LEMMA TreeIs ==
  ASSUME NEW t, NEW o, NEW g, Linked(t, live, o, g), NEW h, NEW r,
         r # Null => r \in live /\ o[r] = h,
         \A n \in live : node[n].parent = t[n].parent,
         \A n \in live : o[n] = h /\ t[n].parent = Null => n = r
  PROVE  TreeOf(r) = Of(o, h)
<1>1. ASSUME NEW n \in TreeOf(r)
      PROVE  n \in Of(o, h)
  <2>1. r # Null /\ \A S \in SUBSET live : r \in S /\ HoldsChildren(S) => n \in S
    BY <1>1 DEF TreeOf
  <2>2. r \in Of(o, h) /\ Of(o, h) \in SUBSET live
    BY <2>1 DEF Of
  <2>3. HoldsChildren(Of(o, h))
    BY Around DEF Of, HoldsChildren, Linked, Graded
  <2> QED BY <2>1, <2>2, <2>3
<1>2. ASSUME NEW n \in Of(o, h)
      PROVE  n \in TreeOf(r)
  <2>1. n \in live /\ o[n] = h
    BY DEF Of
  <2>2. CASE r = Null
    <3>1. \A m \in live : o[m] = h /\ t[m].parent = Null => m \in {}
      BY <2>2, Around
    <3>2. Grown(t, live, o, h, {})
      BY <3>1 DEF Grown
    <3>3. \A m \in live : o[m] = h => m \in {}
      BY <3>2, TreeInduction
    <3>4. n \in {}
      BY <2>1, <3>3
    <3> QED BY <3>4
  <2>3. CASE r # Null
    <3>1. ASSUME NEW S \in SUBSET live, r \in S, HoldsChildren(S)
          PROVE  n \in S
      <4>1. \A m \in live : o[m] = h /\ t[m].parent = Null => m \in S
        BY <3>1
      <4>2. \A m \in live : o[m] = h /\ t[m].parent \in S => m \in S
        BY <3>1 DEF HoldsChildren
      <4>3. Grown(t, live, o, h, S)
        BY <4>1, <4>2 DEF Grown
      <4>4. \A m \in live : o[m] = h => m \in S
        BY <4>3, TreeInduction
      <4> QED BY <2>1, <4>4
    <3> QED BY <2>1, <2>3, <3>1 DEF TreeOf
  <2> QED BY <2>2, <2>3
<1> QED BY <1>1, <1>2

\* Outside the calls a heap is the tree of its root.
LEMMA IdleTrees ==
  ASSUME NEW t, NEW o, NEW g, Shape(t, o, g), op = "idle", NEW h \in Heaps
  PROVE  /\ TreeOf(root[h]) = Of(o, h)
         /\ \A n \in live : o[n] = h /\ t[n].parent = Null => n = root[h]
<1>1. Linked(t, live, o, g) /\ node = t /\ ~ Cleared(h)
  BY DEF Shape, InPhase, Cleared
<1>2. \A n \in live : o[n] = h /\ Head(t, n) => n = root[h]
  BY DEF Shape, HeadsOf
<1>3. root[h] # Null => root[h] \in live /\ o[root[h]] = h /\ Alone(t, root[h])
  BY <1>1 DEF Shape, RootsOf
<1>4. \A n \in live : n # Null
  BY <1>1, Around
<1>5. \A n \in live : o[n] = h /\ Head(t, n) => t[n].next = Null
  BY <1>2, <1>3, <1>4 DEF Alone
<1>6. \A n \in live : o[n] = h /\ t[n].parent = Null => n = root[h]
  BY <1>1, <1>2, <1>5, NoSiblings
<1> QED BY <1>1, <1>3, <1>6, TreeIs

\* The roots R of the heaps are the heads of their trees, and x heads another.
Forest(s, L, p, R, x) ==
  /\ \E f : Linked(s, L, p, f)
  /\ Sorted(s, L) /\ R \in [Heaps -> Pointers]
  /\ \A k \in Heaps : R[k] # Null => R[k] \in L /\ p[R[k]] = k /\ Alone(s, R[k])
  /\ \A n \in L : Head(s, n) => n = R[p[n]] \/ n = x

\* A tree that has been set apart joins the tree of heap h.
LEMMA JoinsHeap ==
  ASSUME NEW s, NEW L, NEW p, NEW R, NEW x, NEW h, Forest(s, L, p, R, x), h \in Heaps,
         x \in L, Alone(s, x), p[x] = h, x # R[h]
  PROVE  /\ Forest(MeldStore(s, R[h], x), L, p,
                   [R EXCEPT ![h] = MeldRoot(s, R[h], x)], Null)
         /\ \A n \in L : MeldStore(s, R[h], x)[n].value = s[n].value
<1> DEFINE w == MeldRoot(s, R[h], x)
           z == MeldStore(s, R[h], x)
           Q == [R EXCEPT ![h] = MeldRoot(s, R[h], x)]
<1>1. PICK f : Linked(s, L, p, f)
  BY DEF Forest
<1>2. Null \notin L /\ L \subseteq Pointers /\ p \in [Nodes -> Heaps] /\ L \subseteq Nodes
  BY <1>1, Around, NullFacts DEF Linked
<1>3. Meldable(s, L, p, R[h], x)
  BY <1>2 DEF Meldable, Forest
<1>4. (\E d : Linked(z, L, p, d)) /\ Sorted(z, L) /\ Melds(s, z, w, L, R[h], x)
  BY <1>1, <1>3, MeldLinked DEF Forest
<1> HIDE DEF w, z
<1>5. Q \in [Heaps -> Pointers] /\ Q[h] = w /\ \A k \in Heaps : k # h => Q[k] = R[k]
  BY <1>2, <1>4 DEF Melds, w, Forest
<1> HIDE DEF Q
<1>6. w \in L /\ Alone(z, w) /\ p[w] = h
  BY <1>2, <1>4 DEF Melds, Forest
<1>7. ASSUME NEW k \in Heaps, Q[k] # Null
      PROVE  Q[k] \in L /\ p[Q[k]] = k /\ Alone(z, Q[k])
  <2>1. CASE k = h
    BY <1>5, <1>6, <2>1
  <2>2. CASE k # h
    <3>1. Q[k] = R[k] /\ R[k] \in L /\ p[R[k]] = k /\ Alone(s, R[k])
      BY <1>5, <1>7, <2>2 DEF Forest
    <3>2. R[k] # x /\ R[k] # R[h]
      BY <1>2, <2>2, <3>1 DEF Forest
    <3>3. Alone(z, R[k])
      BY <1>4, <3>1, <3>2 DEF Melds, Alone, Head
    <3> QED BY <3>1, <3>3
  <2> QED BY <2>1, <2>2
<1>8. ASSUME NEW n \in L, Head(z, n)
      PROVE  n = Q[p[n]]
  <2>1. Head(s, n) /\ (n \in {R[h], x} => n = w) /\ p[n] \in Heaps
    BY <1>2, <1>4, <1>8 DEF Melds
  <2>2. n = R[p[n]] \/ n = x
    BY <2>1 DEF Forest
  <2>3. CASE p[n] = h
    BY <1>5, <2>1, <2>3, <2>2
  <2>4. CASE p[n] # h
    BY <1>5, <2>1, <2>4, <2>2
  <2> QED BY <2>3, <2>4
<1>9. Forest(z, L, p, Q, Null)
  BY <1>4, <1>5, <1>7, <1>8 DEF Forest
<1>10. \A n \in L : z[n].value = s[n].value
  BY <1>4 DEF Melds
<1> QED BY <1>9, <1>10 DEF z, Q

----------------------------------------------------------------------------
(* The calls without a loop                                                *)

\* The types in a forest.
LEMMA LinkedIsTyped ==
  ASSUME NEW s, NEW L, NEW o, NEW g, Linked(s, L, o, g)
  PROVE  s \in Store /\ L \subseteq Nodes /\ o \in [Nodes -> Heaps]
BY DEF Linked

\* What a state between two calls has to satisfy.
LEMMA BetweenCalls ==
  ASSUME NEW z, NEW p, z = node', op' = "idle",
         target' \in Heaps, source' \in Heaps,
         cursor' = Null, paired' = Null, result' = Null,
         size' \in [Heaps -> Int], Forest(z, live', p, root', Null),
         \A k \in Heaps : size'[k] = Cardinality({n \in live' : p[n] = k})
  PROVE  \E d : Shape(z, p, d)'
<1>1. PICK d : Linked(z, live', p, d)
  BY DEF Forest
<1>2. z \in Store /\ live' \subseteq Nodes /\ Null \notin live'
  BY <1>1, LinkedIsTyped, NullFacts
<1>3. size' \in [Heaps -> 0 .. MaxNodes]
  <2>1. \A k \in Heaps : Cardinality({n \in live' : p[n] = k}) \in 0 .. MaxNodes
    BY <1>2, NodesFinite
  <2> QED BY <2>1
<1>4. Types'
  BY <1>2, <1>3 DEF Types, Forest
<1>5. \A k \in Heaps : ~ Cleared(k)'
  BY DEF Cleared
<1>6. RootsOf(z, p)' /\ Counts(p)' /\ Popping(p)' /\ InPhase(z, p)'
  BY DEF RootsOf, Counts, Popping, InPhase, Of, Forest
<1>7. HeadsOf(z, p)'
  BY <1>2 DEF HeadsOf, Cleared, Forest
<1>8. Sorted(z, live')
  BY DEF Forest
<1>9. Shape(z, p, d)'
  BY <1>4, <1>6, <1>7, <1>1, <1>8 DEF Shape
<1> QED BY <1>9

\* Between two calls, what the invariant comes to.
LEMMA IdleShape ==
  ASSUME NEW t, NEW o, NEW g, Shape(t, o, g), op = "idle"
  PROVE  /\ Types /\ node = t /\ node \in Store /\ live \subseteq Nodes
         /\ cursor = Null /\ paired = Null /\ result = Null
         /\ root \in [Heaps -> Pointers] /\ size \in [Heaps -> 0 .. MaxNodes]
         /\ target \in Heaps /\ source \in Heaps
         /\ o \in [Nodes -> Heaps]
         /\ Linked(node, live, o, g) /\ Forest(node, live, o, root, Null)
         /\ \A k \in Heaps : size[k] = Cardinality(Of(o, k)) /\ Of(o, k) \subseteq Nodes
<1>1. Types /\ node = t
  BY DEF Shape, InPhase
<1>2. \A k \in Heaps : Of(o, k) \subseteq Nodes
  BY <1>1 DEF Types, Of
<1>3. Forest(node, live, o, root, Null)
  BY <1>1 DEF Shape, Types, RootsOf, HeadsOf, Cleared, Forest
<1> QED BY <1>1, <1>2, <1>3, LinkedIsTyped
      DEF Shape, Types, InPhase, Counts, Cleared

\* Without nodes there is nothing to agree.
LEMMA InitShape ==
  ASSUME Init
  PROVE  \E t, o, g : Shape(t, o, g)
<1>1. PICK t : t = node
  OBVIOUS
<1>2. PICK a \in Heaps : target = a
  BY PairingHeapAssumption DEF Init
<1> DEFINE o == [n \in Nodes |-> a]
           g == [n \in Nodes |-> 0]
<1>3. Unused \in NodeType
  BY PairingHeapAssumption, NullFacts DEF Unused, NodeType
<1>4. node \in Store /\ live = {} /\ 0 \in 0 .. MaxNodes
  BY <1>3, PairingHeapAssumption DEF Init, Store
<1>5. Types
  BY <1>2, <1>4, NullFacts DEF Init, Types
<1>6. o \in [Nodes -> Heaps] /\ g \in [Nodes -> Nat]
  OBVIOUS
<1> HIDE DEF o, g
<1>7. Linked(t, live, o, g) /\ Sorted(t, live)
  BY <1>1, <1>4, <1>6 DEF Linked, Sorted, PointersIn, Mutual, Graded
<1>8. \A h \in Heaps : Of(o, h) = {}
  BY <1>4 DEF Of
<1>9. RootsOf(t, o) /\ HeadsOf(t, o) /\ Counts(o)
  BY <1>4, <1>8, FS_EmptySet DEF Init, RootsOf, HeadsOf, Counts
<1>10. Popping(o) /\ InPhase(t, o)
  BY <1>1 DEF Init, Popping, InPhase
<1>11. Shape(t, o, g)
  BY <1>5, <1>7, <1>9, <1>10 DEF Shape
<1> QED BY <1>11

\* emplace() adds one node with the value to the heap and moves no other value.
LEMMA EmplaceStep ==
  ASSUME NEW t, NEW o, NEW g, Shape(t, o, g), NEW h \in Heaps, NEW v \in Values, Emplace(h, v)
  PROVE  \E n \in Nodes \ live :
           /\ live' = live \cup {n} /\ node'[n].value = v
           /\ \A m \in live : node'[m].value = node[m].value
           /\ \E z, d : Shape(z, [o EXCEPT ![n] = h], d)'
<1> DEFINE n == CHOOSE m \in Nodes \ live : \A k \in Nodes \ live : m <= k
           s == [node EXCEPT ![n] = NewNode(v)]
           L == live \cup {n}
<1>1. op = "idle" /\ live # Nodes
  BY DEF Emplace, Idle
<1>2. /\ node \in Store /\ live \subseteq Nodes
      /\ cursor = Null /\ paired = Null /\ result = Null
      /\ root \in [Heaps -> Pointers] /\ size \in [Heaps -> 0 .. MaxNodes]
      /\ target \in Heaps /\ source \in Heaps /\ o \in [Nodes -> Heaps]
      /\ Linked(node, live, o, g) /\ Forest(node, live, o, root, Null)
      /\ \A k \in Heaps : size[k] = Cardinality(Of(o, k)) /\ Of(o, k) \subseteq Nodes
  BY <1>1, IdleShape
<1>3. n \in Nodes \ live
  <2>1. [m \in Nodes |-> m] \in [Nodes -> Nat]
    BY DEF Nodes
  <2>2. Nodes \ live # {} /\ Nodes \ live \subseteq Nodes
    BY <1>1, <1>2
  <2>3. \E m \in Nodes \ live : \A k \in Nodes \ live :
          [i \in Nodes |-> i][m] <= [i \in Nodes |-> i][k]
    BY <2>1, <2>2, LeastGrade
  <2>4. \E m \in Nodes \ live : \A k \in Nodes \ live : m <= k
    BY <2>3
  <2> QED BY <2>4
<1>4. /\ live' = L /\ node' = MeldStore(s, root[h], n)
      /\ root' = [root EXCEPT ![h] = MeldRoot(s, root[h], n)]
      /\ size' = [size EXCEPT ![h] = @ + 1]
      /\ op' = op /\ target' = target /\ source' = source
      /\ cursor' = cursor /\ paired' = paired /\ result' = result
  BY DEF Emplace, locals
<1> HIDE DEF n
<1>5. PICK p : p = [o EXCEPT ![n] = h]
  OBVIOUS
<1>6. Linked(s, L, p, g)
  BY <1>2, <1>3, <1>5, AddLinked
<1>7. /\ s[n] = NewNode(v) /\ \A m \in live : m # n /\ s[m] = node[m]
      /\ p[n] = h /\ \A m \in live : p[m] = o[m]
  BY <1>2, <1>3, <1>5 DEF Store
<1>8. /\ s[n].value = v /\ Alone(s, n) /\ s[n].parent = Null
  BY <1>7 DEF NewNode, Alone, Head
<1> HIDE DEF s, L
<1>9. \A m \in live : (Head(s, m) <=> Head(node, m)) /\ (Alone(s, m) <=> Alone(node, m))
                       /\ s[m].value = node[m].value /\ s[m].parent = node[m].parent
  BY <1>7 DEF Alone, Head
<1>10. Sorted(s, L)
  BY <1>2, <1>7, <1>8, <1>9 DEF L, Sorted, Linked, PointersIn, Forest
<1>11. Forest(s, L, p, root, n) /\ n # root[h] /\ n \in L
  BY <1>2, <1>3, <1>6, <1>7, <1>9, <1>10, NullFacts DEF L, Forest
<1>12. PICK z : z = node'
  OBVIOUS
<1>13. /\ Forest(z, L, p, root', Null)
       /\ \A m \in L : z[m].value = s[m].value
  <2>1. /\ Forest(MeldStore(s, root[h], n), L, p,
                   [root EXCEPT ![h] = MeldRoot(s, root[h], n)], Null)
        /\ \A m \in L : MeldStore(s, root[h], n)[m].value = s[m].value
    BY <1>7, <1>8, <1>11, JoinsHeap
  <2> QED BY <1>4, <1>12, <2>1
<1>14. \A k \in Heaps : size'[k] = Cardinality({m \in live' : p[m] = k})
  <2> TAKE k \in Heaps
  <2> DEFINE P == {m \in live' : p[m] = k}
  <2>1. CASE k = h
    <3>1. P = Of(o, k) \cup {n} /\ n \notin Of(o, k)
      BY <1>3, <1>4, <1>7, <2>1 DEF L, Of
    <3>2. IsFiniteSet(Of(o, k)) /\ size[k] = Cardinality(Of(o, k))
      BY <1>2, NodesFinite
    <3> HIDE DEF P
    <3>3. Cardinality(P) = size[k] + 1
      BY <3>1, <3>2, FS_AddElement
    <3> QED BY <1>2, <1>4, <2>1, <3>3 DEF P
  <2>2. CASE k # h
    <3>1. P = Of(o, k)
      BY <1>3, <1>4, <1>7, <2>2 DEF L, Of
    <3> QED BY <1>2, <1>4, <2>2, <3>1
  <2> QED BY <2>1, <2>2
<1>15. size' \in [Heaps -> Int]
  BY <1>2, <1>4
<1>16. \E d : Shape(z, p, d)'
  BY <1>1, <1>2, <1>4, <1>12, <1>13, <1>14, <1>15, BetweenCalls
<1>17. node'[n].value = v /\ \A m \in live : node'[m].value = node[m].value
  BY <1>8, <1>9, <1>11, <1>12, <1>13 DEF L
<1>18. live' = live \cup {n}
  BY <1>4 DEF L
<1> QED BY <1>3, <1>5, <1>16, <1>17, <1>18

\* meld() makes all nodes of one heap those of the other.
LEMMA MeldStep ==
  ASSUME NEW t, NEW o, NEW g, Shape(t, o, g), NEW h \in Heaps, NEW j \in Heaps, Meld(h, j)
  PROVE  /\ h # j /\ live' = live /\ op' = op
         /\ \A m \in live : node'[m].value = node[m].value
         /\ \E z, d : Shape(z, [n \in Nodes |-> IF o[n] = j THEN h ELSE o[n]], d)'
<1> DEFINE R == [root EXCEPT ![j] = Null]
           x == root[j]
<1>1. /\ op = "idle" /\ h # j /\ x # Null
      /\ live' = live /\ node' = MeldStore(node, root[h], x)
      /\ root' = [root EXCEPT ![h] = MeldRoot(node, root[h], x), ![j] = Null]
      /\ size' = [size EXCEPT ![h] = @ + size[j], ![j] = 0]
      /\ op' = op /\ target' = target /\ source' = source
      /\ cursor' = cursor /\ paired' = paired /\ result' = result
  BY DEF Meld, Idle, locals
<1>2. /\ node \in Store /\ live \subseteq Nodes
      /\ cursor = Null /\ paired = Null /\ result = Null
      /\ root \in [Heaps -> Pointers] /\ size \in [Heaps -> 0 .. MaxNodes]
      /\ target \in Heaps /\ source \in Heaps /\ o \in [Nodes -> Heaps]
      /\ Linked(node, live, o, g) /\ Forest(node, live, o, root, Null)
      /\ \A k \in Heaps : size[k] = Cardinality(Of(o, k)) /\ Of(o, k) \subseteq Nodes
  BY <1>1, IdleShape
<1>3. PICK p : p = [n \in Nodes |-> IF o[n] = j THEN h ELSE o[n]]
  OBVIOUS
<1>4. /\ p \in [Nodes -> Heaps]
      /\ \A n \in live : p[n] = (IF o[n] = j THEN h ELSE o[n]) /\ o[n] \in Heaps
  BY <1>2, <1>3
<1>5. Linked(node, live, p, g)
  BY <1>2, <1>4, RenameLinked
<1>6. R \in [Heaps -> Pointers] /\ R[j] = Null /\ R[h] = root[h]
      /\ \A k \in Heaps : k # j => R[k] = root[k]
  BY <1>1, <1>2, NullFacts
<1> HIDE DEF R
<1>7. x \in live /\ Alone(node, x) /\ p[x] = h /\ x # R[h] /\ Null \notin live
  <2>1. x \in live /\ o[x] = j /\ Alone(node, x)
    BY <1>1, <1>2 DEF Forest
  <2>2. R[h] # Null => R[h] \in live /\ o[R[h]] = h
    BY <1>2, <1>6 DEF Forest
  <2> QED BY <1>1, <1>2, <1>4, <2>1, <2>2, NullFacts
<1>8. Forest(node, live, p, R, x)
  <2>1. ASSUME NEW k \in Heaps, R[k] # Null
        PROVE  R[k] \in live /\ p[R[k]] = k /\ Alone(node, R[k])
    BY <1>2, <1>4, <1>6, <2>1 DEF Forest
  <2>2. ASSUME NEW n \in live, Head(node, n)
        PROVE  n = R[p[n]] \/ n = x
    <3>1. n = root[o[n]]
      BY <1>2, <1>7, <2>2 DEF Forest
    <3> QED BY <1>4, <1>6, <3>1
  <2> QED BY <1>2, <1>5, <1>6, <2>1, <2>2 DEF Forest
<1>9. /\ Forest(MeldStore(node, R[h], x), live, p,
                [R EXCEPT ![h] = MeldRoot(node, R[h], x)], Null)
      /\ \A n \in live : MeldStore(node, R[h], x)[n].value = node[n].value
  <2> HIDE DEF x
  <2> QED BY <1>7, <1>8, JoinsHeap
<1>10. [R EXCEPT ![h] = MeldRoot(node, R[h], x)] = root'
  <2> DEFINE w == MeldRoot(node, root[h], x)
  <2>1. R = [root EXCEPT ![j] = Null] /\ MeldRoot(node, R[h], x) = w
    BY <1>6 DEF R
  <2>2. root' = [root EXCEPT ![h] = w, ![j] = Null]
    BY <1>1
  <2> HIDE DEF w
  <2>3. root' = [[root EXCEPT ![j] = Null] EXCEPT ![h] = w]
    BY <1>1, <1>2, <2>2
  <2> QED BY <2>1, <2>3
<1>11. PICK z : z = node'
  OBVIOUS
<1>12. Forest(z, live', p, root', Null)
  BY <1>1, <1>6, <1>9, <1>10, <1>11
<1>13. \A k \in Heaps : size'[k] = Cardinality({n \in live' : p[n] = k})
  <2> TAKE k \in Heaps
  <2> DEFINE P == {n \in live' : p[n] = k}
  <2>1. CASE k = h
    <3>1. P = Of(o, h) \cup Of(o, j) /\ Of(o, h) \cap Of(o, j) = {}
      BY <1>1, <1>4, <2>1 DEF Of
    <3>2. /\ IsFiniteSet(Of(o, h)) /\ size[h] = Cardinality(Of(o, h))
          /\ IsFiniteSet(Of(o, j)) /\ size[j] = Cardinality(Of(o, j))
      BY <1>2, NodesFinite
    <3> HIDE DEF P
    <3>3. Cardinality(P) = size[h] + size[j] - 0
      BY <3>1, <3>2, FS_Union, FS_EmptySet
    <3> QED BY <1>1, <1>2, <2>1, <3>3 DEF P
  <2>2. CASE k = j
    <3>1. P = {}
      BY <1>1, <1>4, <2>2
    <3> QED BY <1>1, <1>2, <2>2, <3>1, FS_EmptySet
  <2>3. CASE k # h /\ k # j
    <3>1. P = Of(o, k)
      BY <1>1, <1>4, <2>3 DEF Of
    <3> QED BY <1>1, <1>2, <2>3, <3>1
  <2> QED BY <2>1, <2>2, <2>3
<1>14. size' \in [Heaps -> Int]
  BY <1>1, <1>2
<1>15. \E d : Shape(z, p, d)'
  BY <1>1, <1>2, <1>11, <1>12, <1>13, <1>14, BetweenCalls
<1> QED BY <1>1, <1>3, <1>6, <1>9, <1>15

\* swap() exchanges the nodes of two heaps.
LEMMA SwapStep ==
  ASSUME NEW t, NEW o, NEW g, Shape(t, o, g), NEW h \in Heaps, NEW j \in Heaps, Swap(h, j)
  PROVE  /\ h # j /\ live' = live /\ op' = op /\ node' = node
         /\ \E z, d : Shape(z, [n \in Nodes |-> IF o[n] = j THEN h
                                                ELSE IF o[n] = h THEN j ELSE o[n]], d)'
<1>1. /\ op = "idle" /\ h # j
      /\ live' = live /\ node' = node
      /\ root' = [root EXCEPT ![h] = root[j], ![j] = root[h]]
      /\ size' = [size EXCEPT ![h] = size[j], ![j] = size[h]]
      /\ op' = op /\ target' = target /\ source' = source
      /\ cursor' = cursor /\ paired' = paired /\ result' = result
  BY DEF Swap, Idle, locals
<1>2. /\ node \in Store /\ live \subseteq Nodes
      /\ cursor = Null /\ paired = Null /\ result = Null
      /\ root \in [Heaps -> Pointers] /\ size \in [Heaps -> 0 .. MaxNodes]
      /\ target \in Heaps /\ source \in Heaps /\ o \in [Nodes -> Heaps]
      /\ Linked(node, live, o, g) /\ Forest(node, live, o, root, Null)
      /\ \A k \in Heaps : size[k] = Cardinality(Of(o, k)) /\ Of(o, k) \subseteq Nodes
  BY <1>1, IdleShape
<1>3. PICK p : p = [n \in Nodes |-> IF o[n] = j THEN h ELSE IF o[n] = h THEN j ELSE o[n]]
  OBVIOUS
<1>4. /\ p \in [Nodes -> Heaps]
      /\ \A n \in live : /\ o[n] \in Heaps
                         /\ p[n] = (IF o[n] = j THEN h ELSE IF o[n] = h THEN j ELSE o[n])
  BY <1>2, <1>3
<1>5. Linked(node, live, p, g)
  BY <1>2, <1>4, RenameLinked
<1>6. root' \in [Heaps -> Pointers] /\ root'[h] = root[j] /\ root'[j] = root[h]
      /\ \A k \in Heaps : k # h /\ k # j => root'[k] = root[k]
  BY <1>1, <1>2
<1>7. Forest(node, live, p, root', Null)
  <2>1. ASSUME NEW k \in Heaps, root'[k] # Null
        PROVE  root'[k] \in live /\ p[root'[k]] = k /\ Alone(node, root'[k])
    BY <1>1, <1>2, <1>4, <1>6, <2>1 DEF Forest
  <2>2. ASSUME NEW n \in live, Head(node, n)
        PROVE  n = root'[p[n]]
    <3>1. n = root[o[n]]
      BY <1>2, <2>2, NullFacts DEF Forest
    <3> QED BY <1>1, <1>4, <1>6, <3>1
  <2> QED BY <1>2, <1>5, <1>6, <2>1, <2>2 DEF Forest
<1>8. PICK z : z = node'
  OBVIOUS
<1>9. \A k \in Heaps : size'[k] = Cardinality({n \in live' : p[n] = k})
  <2> TAKE k \in Heaps
  <2> DEFINE i == IF k = h THEN j ELSE IF k = j THEN h ELSE k
  <2>1. {n \in live' : p[n] = k} = Of(o, i)
    BY <1>1, <1>4 DEF Of
  <2>2. size'[k] = size[i] /\ i \in Heaps
    BY <1>1, <1>2
  <2> HIDE DEF i
  <2> QED BY <1>2, <2>1, <2>2
<1>10. size' \in [Heaps -> Int]
  BY <1>1, <1>2
<1>11. Forest(z, live', p, root', Null)
  BY <1>1, <1>7, <1>8
<1>12. \E d : Shape(z, p, d)'
  BY <1>1, <1>2, <1>8, <1>9, <1>10, <1>11, BetweenCalls
<1> QED BY <1>1, <1>3, <1>12

\* increase_priority() raises the value of one node of the heap, wherever it moves.
LEMMA IncreaseStep ==
  ASSUME NEW t, NEW o, NEW g, Shape(t, o, g), NEW h \in Heaps, NEW n \in Nodes, NEW v \in Values,
         IncreasePriority(h, n, v)
  PROVE  /\ live' = live /\ op' = op
         /\ n \in live /\ o[n] = h /\ node'[n].value = v /\ node[n].value <= v
         /\ \A m \in live \ {n} : node'[m].value = node[m].value
         /\ \E z, d : Shape(z, o, d)'
<1> DEFINE s == [node EXCEPT ![n].value = v]
           q == node[n].parent
           moves == n # root[h] /\ q # Null /\ s[q].value < v
<1>1. /\ op = "idle" /\ n \in TreeOf(root[h]) /\ ~ (v < node[n].value)
      /\ node' = IF moves THEN MeldStore(Detach(s, n), root[h], n) ELSE s
      /\ root' = [root EXCEPT ![h] = IF moves THEN MeldRoot(Detach(s, n), @, n) ELSE @]
      /\ live' = live /\ size' = size
      /\ op' = op /\ target' = target /\ source' = source
      /\ cursor' = cursor /\ paired' = paired /\ result' = result
  BY DEF IncreasePriority, Idle, locals
<1>2. /\ node \in Store /\ live \subseteq Nodes
      /\ cursor = Null /\ paired = Null /\ result = Null
      /\ root \in [Heaps -> Pointers] /\ size \in [Heaps -> 0 .. MaxNodes]
      /\ target \in Heaps /\ source \in Heaps /\ o \in [Nodes -> Heaps]
      /\ Linked(node, live, o, g) /\ Forest(node, live, o, root, Null)
      /\ \A k \in Heaps : size[k] = Cardinality(Of(o, k)) /\ Of(o, k) \subseteq Nodes
  BY <1>1, IdleShape
<1>3. n \in live /\ o[n] = h
  BY <1>1, IdleTrees DEF Of
<1>4. \A m \in live : node[m].value \in Int
  BY <1>2, ValuesAreInts
<1>5. v \in Int /\ node[n].value <= v
  BY <1>1, <1>3, <1>4, PairingHeapAssumption
<1>6. /\ s \in Store /\ s[n].value = v
      /\ \A m \in Nodes : /\ m # n => s[m].value = node[m].value
                          /\ s[m].parent = node[m].parent /\ s[m].prev = node[m].prev
                          /\ s[m].child = node[m].child /\ s[m].next = node[m].next
  BY <1>2 DEF Store, NodeType
<1>7. Linked(s, live, o, g)
  BY <1>2, <1>6, LinksOnly DEF SameLinks
<1> HIDE DEF s
<1>8. /\ Null \notin live /\ \A m \in live : s[m].parent \in live \cup {Null}
      /\ s[n].parent # n
  BY <1>3, <1>7, Around
<1>9. \A m \in live : (Head(s, m) <=> Head(node, m)) /\ (Alone(s, m) <=> Alone(node, m))
  BY <1>2, <1>6 DEF Head, Alone
<1>10. PICK z : z = node'
  OBVIOUS
<1>11. /\ Forest(z, live, o, root', Null) /\ z[n].value = v
       /\ \A m \in live \ {n} : z[m].value = node[m].value
  <2>1. CASE ~ moves
    <3>1. z = s /\ root' = root
      BY <1>1, <1>2, <1>10, <2>1
    <3>2. q # Null => v <= node[q].value
      <4> SUFFICES ASSUME q # Null PROVE v <= node[q].value
        OBVIOUS
      <4>1. n # root[h]
        BY <1>2, <1>3, <1>8 DEF Forest, Alone, Head
      <4>2. q \in live /\ q # n
        BY <1>3, <1>6, <1>8
      <4>3. ~ (node[q].value < v)
        BY <1>2, <1>6, <2>1, <4>1, <4>2
      <4> QED BY <1>4, <1>5, <4>2, <4>3
    <3>3. Sorted(s, live)
      <4> SUFFICES ASSUME NEW m \in live, s[m].parent # Null
                   PROVE  s[m].value <= s[s[m].parent].value
        BY DEF Sorted
      <4>1. node[m].value <= node[node[m].parent].value /\ node[m].parent \in live
        BY <1>2, <1>6, <1>8 DEF Sorted, Forest
      <4>2. CASE m = n
        BY <1>2, <1>3, <1>6, <1>8, <3>2, <4>1, <4>2
      <4>3. CASE m # n
        BY <1>2, <1>4, <1>5, <1>6, <4>1, <4>3
      <4> QED BY <4>2, <4>3
    <3>4. Forest(s, live, o, root, Null)
      BY <1>2, <1>7, <1>9, <3>3 DEF Forest
    <3> QED BY <1>2, <1>6, <3>1, <3>4
  <2>2. CASE moves
    <3> DEFINE e == Detach(s, n)
    <3>1. s[n].parent # Null /\ n \in Nodes
      BY <1>6, <2>2
    <3>2. Linked(e, live, o, g)
      BY <1>3, <1>7, <3>1, DetachLinked
    <3>3. \A m \in Nodes :
              /\ e[m].value = s[m].value
              /\ e[m].parent = (IF m = n THEN Null ELSE s[m].parent)
              /\ e[m].prev = (IF m = n THEN Null
                             ELSE IF m = s[n].next THEN s[n].prev ELSE s[m].prev)
              /\ e[m].next = (IF m = n THEN Null
                          ELSE IF s[n].prev # Null /\ m = s[n].prev THEN s[n].next
                          ELSE s[m].next)
      BY <1>6, <3>1, DetachFields
    <3> HIDE DEF e
    <3>4. Alone(e, n)
      BY <3>1, <3>3 DEF Alone, Head
    <3>5. /\ s[n].next # Null => s[s[n].next].parent = s[n].parent
          /\ s[n].prev # Null => s[s[n].prev].parent = s[n].parent
      BY <1>3, <1>7, Around DEF Linked, Mutual
    <3>6. Sorted(e, live)
      <4> SUFFICES ASSUME NEW m \in live, e[m].parent # Null
                   PROVE  e[m].value <= e[e[m].parent].value
        BY DEF Sorted
      <4>1. m # n /\ e[m].parent = s[m].parent /\ s[m].parent \in live
        BY <1>2, <1>8, <3>3
      <4>2. node[m].value <= node[node[m].parent].value /\ node[m].parent = s[m].parent
        BY <1>2, <1>6, <4>1 DEF Sorted, Forest
      <4> QED BY <1>2, <1>4, <1>5, <1>6, <3>3, <4>1, <4>2
    <3>7. ASSUME NEW k \in Heaps, root[k] # Null
          PROVE  root[k] \in live /\ o[root[k]] = k /\ Alone(e, root[k])
      <4>1. root[k] \in live /\ o[root[k]] = k /\ Alone(s, root[k])
        BY <1>2, <1>9, <3>7 DEF Forest
      <4>2. root[k] # n /\ root[k] # s[n].next /\ root[k] # s[n].prev
        BY <1>8, <3>1, <3>5, <4>1 DEF Alone, Head
      <4> QED BY <1>2, <3>3, <4>1, <4>2 DEF Alone, Head
    <3>8. ASSUME NEW m \in live, Head(e, m)
          PROVE  m = root[o[m]] \/ m = n
      <4> SUFFICES ASSUME m # n PROVE m = root[o[m]]
        OBVIOUS
      <4>1. s[m].parent = Null
        BY <1>2, <3>3, <3>8 DEF Head
      <4>2. m # s[n].next
        BY <1>8, <3>1, <3>5, <4>1
      <4>3. Head(s, m)
        BY <1>2, <3>3, <3>8, <4>1, <4>2 DEF Head
      <4> QED BY <1>2, <1>8, <1>9, <4>3 DEF Forest
    <3>9. Forest(e, live, o, root, n)
      BY <1>2, <3>2, <3>6, <3>7, <3>8 DEF Forest
    <3>10. n # root[h]
      BY <2>2
    <3>11. /\ Forest(MeldStore(e, root[h], n), live, o,
                     [root EXCEPT ![h] = MeldRoot(e, root[h], n)], Null)
           /\ \A m \in live : MeldStore(e, root[h], n)[m].value = e[m].value
      BY <1>3, <3>4, <3>9, <3>10, JoinsHeap
    <3>12. z = MeldStore(e, root[h], n) /\ root' = [root EXCEPT ![h] = MeldRoot(e, root[h], n)]
      BY <1>1, <1>10, <2>2 DEF e
    <3> QED BY <1>2, <1>3, <1>6, <3>3, <3>11, <3>12
  <2> QED BY <2>1, <2>2
<1>12. Forest(z, live', o, root', Null)
  BY <1>1, <1>11
<1>13. \A k \in Heaps : size'[k] = Cardinality({m \in live' : o[m] = k})
  BY <1>1, <1>2 DEF Of
<1>14. size' \in [Heaps -> Int]
  BY <1>1, <1>2
<1>15. \E d : Shape(z, o, d)'
  BY <1>1, <1>2, <1>10, <1>12, <1>13, <1>14, BetweenCalls
<1> QED BY <1>1, <1>3, <1>5, <1>10, <1>11, <1>15

----------------------------------------------------------------------------
(* pop()                                                                   *)

\* A tree in front of a list: m's next sibling is j.
InFront(s, m, j) == SetPrev([s EXCEPT ![m].next = j], j, m)

\* InFront changes one next and one prev.
LEMMA InFrontFields ==
  ASSUME NEW s \in Store, NEW m \in Nodes, NEW j \in Pointers
  PROVE  /\ InFront(s, m, j) \in Store
         /\ \A n \in Nodes : LET x == InFront(s, m, j)[n] IN
              /\ x.value = s[n].value /\ x.child = s[n].child /\ x.parent = s[n].parent
              /\ x.next = (IF n = m THEN j ELSE s[n].next)
              /\ x.prev = (IF n = j THEN m ELSE s[n].prev)
<1> DEFINE a == [s EXCEPT ![m].next = j]
<1>1. a \in Store /\ \A n \in Nodes :
              /\ a[n].value = s[n].value /\ a[n].child = s[n].child
              /\ a[n].parent = s[n].parent /\ a[n].prev = s[n].prev
              /\ a[n].next = (IF n = m THEN j ELSE s[n].next)
  BY DEF Store, NodeType
<1>2. InFront(s, m, j) = SetPrev(a, j, m) /\ m \in Pointers
  BY NullFacts DEF InFront
<1> HIDE DEF a
<1>3. /\ SetPrev(a, j, m) \in Store
      /\ \A n \in Nodes : LET x == SetPrev(a, j, m)[n] IN
              /\ x.value = a[n].value /\ x.child = a[n].child
              /\ x.parent = a[n].parent /\ x.next = a[n].next
              /\ x.prev = (IF n = j THEN m ELSE a[n].prev)
  BY <1>1, <1>2, SetPrevFields
<1> QED BY <1>1, <1>2, <1>3

\* The first tree of a list is taken from it.
OffList(s, k) == SetPrev(Unlink(s, k), s[k].next, Null)

\* OffList makes k a tree of its own and its next sibling the head of the list.
LEMMA OffListFields ==
  ASSUME NEW s \in Store, NEW k \in Nodes, Head(s, k), s[k].next # k
  PROVE  /\ OffList(s, k) \in Store
         /\ \A n \in Nodes : LET x == OffList(s, k)[n] IN
              /\ x.value = s[n].value /\ x.child = s[n].child /\ x.parent = s[n].parent
              /\ x.next = (IF n = k THEN Null ELSE s[n].next)
              /\ x.prev = (IF n = s[k].next THEN Null ELSE s[n].prev)
<1> DEFINE a == Unlink(s, k)
<1>1. s[k].next \in Pointers
  BY DEF Store, NodeType
<1>2. a \in Store /\ \A n \in Nodes :
              /\ a[n].value = s[n].value /\ a[n].child = s[n].child
              /\ a[n].parent = (IF n = k THEN Null ELSE s[n].parent)
              /\ a[n].prev = (IF n = k THEN Null ELSE s[n].prev)
              /\ a[n].next = (IF n = k THEN Null ELSE s[n].next)
  BY UnlinkFields
<1> HIDE DEF a
<1>3. /\ SetPrev(a, s[k].next, Null) \in Store
      /\ \A n \in Nodes : LET x == SetPrev(a, s[k].next, Null)[n] IN
              /\ x.value = a[n].value /\ x.child = a[n].child
              /\ x.parent = a[n].parent /\ x.next = a[n].next
              /\ x.prev = (IF n = s[k].next THEN Null ELSE a[n].prev)
  BY <1>1, <1>2, NullFacts, SetPrevFields, ZenonT(30)
<1>4. OffList(s, k) = SetPrev(a, s[k].next, Null)
  BY DEF OffList, a
<1> QED BY <1>2, <1>3, <1>4 DEF Head

\* k is the first of the remaining children of the popped node T.
FirstLeft(p, q, T, k, L, o, g) ==
  /\ Seen(p, q, T, k, L) /\ Linked(q, L, o, g) /\ Sorted(q, L)
  /\ T \in L /\ Alone(q, T) /\ k \in L /\ q[T].child = k

\* It leaves the popped node.
LEMMA SeenDetach ==
  ASSUME NEW p, NEW q, NEW T, NEW k, NEW L, NEW o, NEW g, FirstLeft(p, q, T, k, L, o, g)
  PROVE  /\ Seen(Unlink(p, k), Detach(q, k), T, q[k].next, L)
         /\ Linked(Detach(q, k), L, o, g) /\ Sorted(Detach(q, k), L)
         /\ q[k].next \in L \cup {Null} /\ k # T /\ q[k].parent = T /\ o[k] = o[T]
         /\ q[k].next # k /\ q[k].next # T
         /\ Detach(q, k)[T].child = q[k].next
         /\ Alone(Detach(q, k), k)
         /\ \A n \in L \ {k} :
              /\ Detach(q, k)[n].parent = q[n].parent /\ Detach(q, k)[n].next = q[n].next
              /\ Head(Detach(q, k), n) <=> Head(q, n)
         /\ \A n \in L : Detach(q, k)[n].value = q[n].value
<1> DEFINE z == Detach(q, k)
           y == Unlink(p, k)
<1>1. /\ Seen(p, q, T, k, L) /\ Linked(q, L, o, g) /\ Sorted(q, L)
      /\ T \in L /\ Alone(q, T) /\ k \in L /\ q[T].child = k
  BY DEF FirstLeft
<1>2. /\ L \subseteq Nodes /\ Null \notin L /\ q \in Store /\ p \in Store
      /\ \A n \in L : /\ q[n].parent \in L \cup {Null} /\ q[n].next \in L \cup {Null}
                      /\ q[n].next # n
                      /\ q[n].prev # Null => q[q[n].prev].parent = q[n].parent
  BY <1>1, Around DEF Seen
<1>3. q[k].parent = T /\ q[k].prev = Null /\ o[k] = o[T] /\ T # Null /\ k # T
  BY <1>1, <1>2 DEF Linked, Mutual, Graded, Alone, Head
<1>4. q[k].next # Null => q[q[k].next].parent = T /\ q[k].next \in L /\ q[k].next # T
  BY <1>1, <1>2, <1>3 DEF Linked, Mutual, Alone, Head
<1>5. Linked(z, L, o, g)
  BY <1>1, <1>3, DetachLinked
<1>6. z \in Store /\ \A n \in Nodes :
              /\ z[n].value = q[n].value
              /\ z[n].parent = (IF n = k THEN Null ELSE q[n].parent)
              /\ z[n].prev = (IF n = k \/ n = q[k].next THEN Null ELSE q[n].prev)
              /\ z[n].next = (IF n = k THEN Null ELSE q[n].next)
              /\ z[n].child = (IF n = T THEN q[k].next ELSE q[n].child)
  BY <1>1, <1>2, <1>3, DetachFields
<1>7. y \in Store /\ \A n \in Nodes :
              /\ y[n].value = p[n].value /\ y[n].child = p[n].child
              /\ y[n].parent = (IF n = k THEN Null ELSE p[n].parent)
              /\ y[n].prev = (IF n = k THEN Null ELSE p[n].prev)
              /\ y[n].next = (IF n = k THEN Null ELSE p[n].next)
  BY <1>1, <1>2, UnlinkFields
<1> HIDE DEF y, z
<1>8. Seen(y, z, T, q[k].next, L)
  <2>1. ASSUME NEW n \in Nodes
        PROVE  /\ y[n].value = z[n].value /\ y[n].parent = z[n].parent
               /\ y[n].next = z[n].next
               /\ y[n].child = (IF n = T THEN Null ELSE z[n].child)
               /\ n # q[k].next => y[n].prev = z[n].prev
    BY <1>1, <1>6, <1>7 DEF Seen
  <2>2. ASSUME NEW n \in L
        PROVE  y[n].prev \in L \cup {Null}
    BY <1>1, <1>2, <1>7 DEF Seen
  <2> QED BY <1>6, <1>7, <2>1, <2>2 DEF Seen
<1>9. Sorted(z, L)
  BY <1>1, <1>2, <1>6 DEF Sorted
<1>10. Alone(z, k)
  BY <1>1, <1>2, <1>6 DEF Alone, Head
<1>11. ASSUME NEW n \in L \ {k}
       PROVE  /\ z[n].parent = q[n].parent /\ z[n].next = q[n].next
              /\ Head(z, n) <=> Head(q, n)
  BY <1>1, <1>2, <1>3, <1>4, <1>6 DEF Head
<1>12. z[T].child = q[k].next
  BY <1>1, <1>2, <1>6
<1>13. q[k].next \in L \cup {Null} /\ q[k].next # k /\ q[k].next # T
  BY <1>1, <1>2, <1>3, <1>4
<1>14. \A n \in L : z[n].value = q[n].value
  BY <1>1, <1>2, <1>6
<1> QED BY <1>3, <1>5, <1>8, <1>9, <1>10, <1>11, <1>12, <1>13, <1>14 DEF y, z

\* The same tree goes in front of the same list in both.
LEMMA SeenInFront ==
  ASSUME NEW p, NEW q, NEW T, NEW k, NEW L, Seen(p, q, T, k, L), L \subseteq Nodes,
         NEW m \in L, NEW j \in L \cup {Null}
  PROVE  Seen(InFront(p, m, j), InFront(q, m, j), T, k, L)
<1> DEFINE y == InFront(p, m, j)  z == InFront(q, m, j)
<1>1. p \in Store /\ q \in Store /\ m \in Nodes /\ j \in Pointers
  BY NullFacts DEF Seen
<1>2. y \in Store /\ \A n \in Nodes :
              /\ y[n].value = p[n].value /\ y[n].child = p[n].child /\ y[n].parent = p[n].parent
              /\ y[n].next = (IF n = m THEN j ELSE p[n].next)
              /\ y[n].prev = (IF n = j THEN m ELSE p[n].prev)
  BY <1>1, InFrontFields
<1>3. z \in Store /\ \A n \in Nodes :
              /\ z[n].value = q[n].value /\ z[n].child = q[n].child /\ z[n].parent = q[n].parent
              /\ z[n].next = (IF n = m THEN j ELSE q[n].next)
              /\ z[n].prev = (IF n = j THEN m ELSE q[n].prev)
  BY <1>1, InFrontFields
<1> HIDE DEF y, z
<1>4. Seen(y, z, T, k, L)
  <2>1. \A n \in Nodes :
          /\ y[n].value = z[n].value /\ y[n].parent = z[n].parent /\ y[n].next = z[n].next
          /\ y[n].child = (IF n = T THEN Null ELSE z[n].child)
          /\ n # k => y[n].prev = z[n].prev
    BY <1>2, <1>3 DEF Seen
  <2>2. \A n \in L : y[n].prev \in L \cup {Null}
    BY <1>2 DEF Seen
  <2> QED BY <1>2, <1>3, <2>1, <2>2 DEF Seen
<1> QED BY <1>4 DEF y, z

\* The root of a heap is not below any of its nodes.
LEMMA RootIsGreatest ==
  ASSUME NEW t, NEW o, NEW g, Shape(t, o, g), op = "idle", NEW h \in Heaps, root[h] # Null
  PROVE  \A n \in live : o[n] = h => node[n].value <= node[root[h]].value
<1> DEFINE S == {n \in live : node[n].value <= node[root[h]].value}
<1>1. /\ node = t /\ node \in Store /\ live \subseteq Nodes
      /\ Linked(node, live, o, g) /\ Forest(node, live, o, root, Null)
  BY IdleShape
<1>2. root[h] \in live
  BY <1>1 DEF Forest
<1>3. \A n \in live : node[n].value \in Int
  BY <1>1, ValuesAreInts
<1>4. \A n \in live : o[n] = h /\ node[n].parent = Null => n = root[h]
  BY <1>1, IdleTrees
<1>5. \A n \in live : n \in S <=> node[n].value <= node[root[h]].value
  OBVIOUS
<1>6. S \subseteq live /\ Null \notin live
  BY <1>1, Around
<1> HIDE DEF S
<1>7. Grown(node, live, o, h, S)
  <2> SUFFICES ASSUME NEW n \in live, o[n] = h, node[n].parent = Null \/ node[n].parent \in S
               PROVE  n \in S
    BY DEF Grown
  <2>1. CASE node[n].parent = Null
    BY <1>2, <1>3, <1>4, <1>5, <2>1
  <2>2. CASE node[n].parent \in S
    <3>1. node[n].parent \in live /\ node[n].parent # Null
      BY <1>6, <2>2
    <3>2. node[n].value <= node[node[n].parent].value
      BY <1>1, <3>1 DEF Forest, Sorted
    <3>3. node[node[n].parent].value <= node[root[h]].value
      BY <1>5, <2>2, <3>1
    <3> QED BY <1>2, <1>3, <1>5, <3>1, <3>2, <3>3
  <2> QED BY <2>1, <2>2
<1>8. \A n \in live : o[n] = h => n \in S
  BY <1>1, <1>7, TreeInduction
<1> QED BY <1>5, <1>8

\* pop() begins: the children of the root are what the first pass has to pair.
LEMMA PopStep ==
  ASSUME NEW t, NEW o, NEW g, Shape(t, o, g), NEW h \in Heaps, Pop(h)
  PROVE  /\ live' = live /\ op' = "pair"
         /\ \A m \in live : node'[m].value = node[m].value
         /\ \E z, d : Shape(z, o, d)'
<1> DEFINE T == root[h]
<1>1. /\ op = "idle" /\ T # Null /\ op' = "pair" /\ target' = h /\ source' = h
      /\ cursor' = node[T].child /\ paired' = Null /\ result' = Null
      /\ node' = [node EXCEPT ![T].child = Null]
      /\ live' = live /\ root' = root /\ size' = size
  BY DEF Pop, Idle
<1>2. /\ node = t /\ node \in Store /\ live \subseteq Nodes
      /\ root \in [Heaps -> Pointers] /\ size \in [Heaps -> 0 .. MaxNodes]
      /\ Linked(node, live, o, g) /\ Forest(node, live, o, root, Null)
      /\ \A k \in Heaps : size[k] = Cardinality(Of(o, k)) /\ Of(o, k) \subseteq Nodes
  BY <1>1, IdleShape
<1>3. T \in live /\ o[T] = h /\ Alone(t, T) /\ Null \notin live
      /\ \A n \in live : t[n].prev \in live \cup {Null} /\ t[n].child \in live \cup {Null}
  BY <1>1, <1>2, Around DEF Forest
<1>4. /\ node' \in Store
      /\ \A n \in Nodes :
           /\ node'[n].value = t[n].value /\ node'[n].parent = t[n].parent
           /\ node'[n].next = t[n].next /\ node'[n].prev = t[n].prev
           /\ node'[n].child = (IF n = T THEN Null ELSE t[n].child)
  BY <1>1, <1>2, <1>3, NullFacts DEF Store, NodeType
<1>5. \A n \in live : o[n] = h => node[n].value <= node[T].value
  BY <1>1, RootIsGreatest
<1> HIDE DEF T
<1>6. Types'
  BY <1>1, <1>2, <1>3, <1>4 DEF Types
<1>7. Sorted(t, live') /\ Linked(t, live', o, g)
  BY <1>1, <1>2 DEF Forest
<1>8. RootsOf(t, o)' /\ HeadsOf(t, o)' /\ Counts(o)'
  BY <1>1, <1>2, <1>3 DEF RootsOf, HeadsOf, Counts, Cleared, Forest, Of
<1>9. Popping(o)'
  BY <1>1, <1>2, <1>3, <1>4, <1>5 DEF Popping, T
<1>10. Seen(node', t, T, cursor', live)
  BY <1>2, <1>3, <1>4 DEF Seen
<1>11. InPhase(t, o)'
  BY <1>1, <1>2, <1>10 DEF InPhase, T
<1>12. Shape(t, o, g)'
  BY <1>6, <1>7, <1>8, <1>9, <1>11 DEF Shape
<1> QED BY <1>1, <1>2, <1>4, <1>12

\* What the invariant says of a pop() in its first pass.
LEMMA PairShape ==
  ASSUME NEW t, NEW o, NEW g, Shape(t, o, g), op = "pair"
  PROVE  /\ Types /\ Linked(t, live, o, g) /\ Sorted(t, live) /\ live \subseteq Nodes
         /\ Null \notin live
         /\ root[target] \in live /\ o[root[target]] = target /\ Alone(t, root[target])
         /\ Seen(node, t, root[target], cursor, live)
         /\ t[root[target]].child = cursor /\ result = Null
         /\ paired # Null => Head(t, paired) /\ o[paired] = target /\ paired # root[target]
         /\ \A h \in Heaps : root[h] # Null =>
              root[h] \in live /\ o[root[h]] = h /\ Alone(t, root[h])
         /\ \A n \in live : Head(t, n) => n = root[o[n]] \/ n = paired
         /\ \A n \in live : o[n] = target => node[n].value <= node[root[target]].value
         /\ \A h \in Heaps : size[h] = Cardinality(Of(o, h))
<1>1. \A h \in Heaps : ~ Cleared(h)
  BY DEF Cleared
<1>2. Linked(t, live, o, g) /\ Types
  BY DEF Shape
<1>3. Null \notin live /\ live \subseteq Nodes
  BY <1>2, Around
<1> QED BY <1>1, <1>2, <1>3 DEF Shape, Types, RootsOf, HeadsOf, Counts, Popping, InPhase, Cleared

\* The first pass takes the child at the cursor and the one after it, if any.
Second == node[cursor].next
Rest == IF Second = Null THEN Null ELSE node[Second].next
TakenOff == IF Second = Null THEN Unlink(node, cursor)
                             ELSE Unlink(Unlink(node, cursor), Second)

\* z is the forest t without the children c and b of T, s the store then.
TwoLess(t, z, s, T, c, b, k, o, g) ==
  /\ Linked(z, live, o, g) /\ Sorted(z, live) /\ Seen(s, z, T, k, live)
  /\ z[T].child = k /\ Alone(z, T) /\ k \in live \cup {Null}
  /\ Meldable(z, live, o, c, b) /\ c \in live /\ o[c] = target
  /\ c # T /\ b # T /\ t[c].parent = T /\ (b # Null => t[b].parent = T)
  /\ \A n \in live : z[n].value = t[n].value
  /\ \A n \in live \ {c, b} :
       /\ z[n].parent = t[n].parent /\ z[n].next = t[n].next
       /\ Head(z, n) <=> Head(t, n)

\* The children at the cursor leave the popped node.
LEMMA PairOffs ==
  ASSUME NEW t, NEW o, NEW g, Shape(t, o, g), op = "pair", cursor # Null
  PROVE  \E z : TwoLess(t, z, TakenOff, root[target], cursor, Second, Rest, o, g)
<1> DEFINE c == cursor
           b == node[c].next
           T == root[target]
           y1 == Unlink(node, c)
           z1 == Detach(t, c)
<1>1. /\ Linked(t, live, o, g) /\ Sorted(t, live) /\ live \subseteq Nodes /\ Null \notin live
      /\ T \in live /\ o[T] = target /\ Alone(t, T)
      /\ Seen(node, t, T, c, live) /\ t[T].child = c
  BY PairShape
<1>2. c \in live
  BY DEF Shape, Types
<1>3. b = t[c].next /\ node \in Store
  BY <1>1, <1>2 DEF Seen
<1>4. /\ Seen(y1, z1, T, b, live)
      /\ Linked(z1, live, o, g) /\ Sorted(z1, live)
      /\ b \in live \cup {Null} /\ c # T /\ t[c].parent = T /\ o[c] = o[T]
      /\ b # c /\ b # T /\ z1[T].child = b /\ Alone(z1, c)
      /\ \A n \in live \ {c} : /\ z1[n].parent = t[n].parent /\ z1[n].next = t[n].next
                               /\ Head(z1, n) <=> Head(t, n)
      /\ \A n \in live : z1[n].value = t[n].value
  <2>1. FirstLeft(node, t, T, c, live, o, g)
    BY <1>1, <1>2 DEF FirstLeft
  <2> HIDE DEF b, T, c
  <2> QED BY <1>1, <1>3, <2>1, SeenDetach
<1>5. Alone(z1, T)
  BY <1>1, <1>4 DEF Alone
<1>6. y1[b].next = node[b].next \/ b = Null
  BY <1>1, <1>2, <1>3, <1>4, UnlinkFields
<1> HIDE DEF y1, z1
<1>7. CASE b = Null
  <2>1. Meldable(z1, live, o, c, b)
    BY <1>1, <1>2, <1>4, <1>7 DEF Meldable
  <2>2. TakenOff = y1 /\ Second = b /\ Rest = b
    BY <1>7 DEF TakenOff, Second, Rest, y1
  <2>3. TwoLess(t, z1, y1, T, c, b, b, o, g)
    BY <1>1, <1>2, <1>4, <1>5, <1>7, <2>1 DEF TwoLess
  <2> QED BY <2>2, <2>3
<1>8. CASE b # Null
  <2> DEFINE y2 == Unlink(y1, b)
             z2 == Detach(z1, b)
             c2 == node[b].next
  <2>1. b \in live /\ c2 = z1[b].next
    BY <1>1, <1>4, <1>6, <1>8 DEF Seen
  <2>2. /\ Seen(y2, z2, T, c2, live)
        /\ Linked(z2, live, o, g) /\ Sorted(z2, live)
        /\ c2 \in live \cup {Null} /\ z1[b].parent = T /\ o[b] = o[T]
        /\ z2[T].child = c2 /\ Alone(z2, b)
        /\ \A n \in live \ {b} : /\ z2[n].parent = z1[n].parent /\ z2[n].next = z1[n].next
                                 /\ Head(z2, n) <=> Head(z1, n)
        /\ \A n \in live : z2[n].value = z1[n].value
    <3>1. FirstLeft(y1, z1, T, b, live, o, g)
      BY <1>1, <1>4, <1>5, <2>1 DEF FirstLeft
    <3> HIDE DEF b, T, c, c2
    <3>2. /\ Seen(y2, z2, T, z1[b].next, live)
          /\ Linked(z2, live, o, g) /\ Sorted(z2, live)
          /\ z1[b].next \in live \cup {Null} /\ z1[b].parent = T /\ o[b] = o[T]
          /\ z2[T].child = z1[b].next /\ Alone(z2, b)
          /\ \A n \in live \ {b} : /\ z2[n].parent = z1[n].parent /\ z2[n].next = z1[n].next
                                   /\ Head(z2, n) <=> Head(z1, n)
          /\ \A n \in live : z2[n].value = z1[n].value
      BY <3>1, SeenDetach
    <3> QED BY <2>1, <3>2
  <2> HIDE DEF z2
  <2>3. Alone(z2, T) /\ Alone(z2, c)
    BY <1>1, <1>2, <1>4, <1>5, <2>2 DEF Alone
  <2>4. Meldable(z2, live, o, c, b)
    BY <1>1, <1>2, <1>4, <1>8, <2>1, <2>2, <2>3 DEF Meldable
  <2>5. t[b].parent = T
    BY <1>4, <2>1, <2>2
  <2>6. \A n \in live \ {c, b} : /\ z2[n].parent = t[n].parent /\ z2[n].next = t[n].next
                                 /\ Head(z2, n) <=> Head(t, n)
    BY <1>4, <2>2
  <2>7. \A n \in live : z2[n].value = t[n].value
    BY <1>4, <2>2
  <2>8. TakenOff = y2 /\ Second = b /\ Rest = c2
    BY <1>8 DEF TakenOff, Second, Rest, y1
  <2> HIDE DEF y2, b, T, c, c2
  <2>9. TwoLess(t, z2, y2, T, c, b, c2, o, g)
    BY <1>1, <1>2, <1>4, <1>8, <2>2, <2>3, <2>4, <2>5, <2>6, <2>7 DEF TwoLess
  <2>10. \E z : TwoLess(t, z, y2, T, c, b, c2, o, g)
    BY <2>9
  <2> QED BY <2>8, <2>10 DEF c, T
<1> QED BY <1>7, <1>8

\* An iteration of the first pass keeps the invariant and no value moves.
LEMMA PairStep ==
  ASSUME NEW t, NEW o, NEW g, Shape(t, o, g), PairNext
  PROVE  /\ live' = live /\ op' = op /\ target' = target
         /\ \A m \in live : node'[m].value = node[m].value
         /\ \E z, d : Shape(z, o, d)'
<1> DEFINE c == cursor
           b == Second
           s == TakenOff
           c2 == Rest
           T == root[target]
           m == MeldRoot(s, c, b)
           s3 == MeldStore(s, c, b)
<1>1. /\ op = "pair" /\ c # Null /\ cursor' = c2
      /\ node' = InFront(s3, m, paired) /\ paired' = m
      /\ live' = live /\ root' = root /\ size' = size /\ op' = op
      /\ target' = target /\ source' = source /\ result' = result
  BY DEF PairNext, AnyChild, InFront, TakenOff, Second, Rest
<1>2. /\ Types /\ live \subseteq Nodes /\ Null \notin live
      /\ T \in live /\ o[T] = target /\ Alone(t, T)
      /\ Seen(node, t, T, c, live) /\ result = Null
      /\ paired # Null => Head(t, paired) /\ o[paired] = target /\ paired # T
      /\ \A h \in Heaps : root[h] # Null =>
           root[h] \in live /\ o[root[h]] = h /\ Alone(t, root[h])
      /\ \A n \in live : Head(t, n) => n = root[o[n]] \/ n = paired
      /\ \A n \in live : o[n] = target => node[n].value <= node[T].value
      /\ \A h \in Heaps : size[h] = Cardinality(Of(o, h))
  BY <1>1, PairShape
<1>3. PICK z :
        /\ Linked(z, live, o, g) /\ Sorted(z, live)
        /\ Seen(s, z, T, c2, live)
        /\ z[T].child = c2 /\ Alone(z, T) /\ c2 \in live \cup {Null}
        /\ Meldable(z, live, o, c, b) /\ c \in live /\ o[c] = target
        /\ c # T /\ b # T /\ t[c].parent = T /\ (b # Null => t[b].parent = T)
        /\ \A n \in live : z[n].value = t[n].value
        /\ \A n \in live \ {c, b} :
             /\ z[n].parent = t[n].parent /\ z[n].next = t[n].next
             /\ Head(z, n) <=> Head(t, n)
  BY <1>1, PairOffs DEF TwoLess
<1>4. paired \in live \cup {Null} /\ b \in live \cup {Null}
  BY <1>2, <1>3 DEF Types, Meldable
<1> HIDE DEF c, b, s, c2, T
<1> DEFINE z3 == MeldStore(z, c, b)
<1>5. Seen(s3, z3, T, c2, live) /\ m = MeldRoot(z, c, b)
  BY <1>2, <1>3, SeenMeld
<1>6. /\ \E f : Linked(z3, live, o, f)
      /\ Sorted(z3, live) /\ Melds(z, z3, m, live, c, b)
  BY <1>3, <1>5, MeldLinked
<1> HIDE DEF m, s3, z3
<1>7. /\ m \in live /\ m # Null /\ Alone(z3, m) /\ m # T /\ o[m] = target /\ m \in {c, b}
  BY <1>1, <1>2, <1>3, <1>4, <1>6 DEF Melds, Meldable
<1>8. z3[T].child = c2
  BY <1>2, <1>3, <1>6 DEF Melds
<1>9. \A n \in live \ {c, b} :
        /\ z3[n].parent = t[n].parent /\ z3[n].next = t[n].next
        /\ Head(t, n) => Head(z3, n)
  BY <1>2, <1>3, <1>6 DEF Melds, Head
<1>10. \A n \in live : Head(z3, n) => n = m \/ Head(t, n)
  BY <1>3, <1>6 DEF Melds
<1>11. \A n \in live : t[n].parent = Null => n \notin {c, b}
  BY <1>2, <1>3
<1>12. /\ paired # Null => Head(z3, paired) /\ o[paired] = o[m]
       /\ paired # m
  BY <1>2, <1>4, <1>7, <1>9, <1>11 DEF Head
<1>13. PICK y : y = InFront(z3, m, paired)
  OBVIOUS
<1>14. y \in Store /\ \A n \in Nodes :
          /\ y[n].value = z3[n].value /\ y[n].child = z3[n].child /\ y[n].parent = z3[n].parent
          /\ y[n].next = (IF n = m THEN paired ELSE z3[n].next)
          /\ y[n].prev = (IF n = paired THEN m ELSE z3[n].prev)
  <2>1. z3 \in Store /\ m \in Nodes /\ paired \in Pointers
    BY <1>2, <1>4, <1>5, <1>7, NullFacts DEF Seen
  <2> QED BY <1>13, <2>1, InFrontFields
<1>15. PICK f : Linked(z3, live, o, f)
  BY <1>6
<1>16. Linked(y, live, o, [n \in Nodes |-> IF n = m THEN 0 ELSE f[n] + 1])
  <2>1. \A n \in live :
          /\ y[n].parent = z3[n].parent /\ y[n].child = z3[n].child
          /\ y[n].next = (IF n = m THEN paired ELSE z3[n].next)
          /\ y[n].prev = (IF n = paired THEN m ELSE z3[n].prev)
    BY <1>2, <1>14
  <2> QED BY <1>4, <1>7, <1>12, <1>14, <1>15, <2>1, PushLinked
<1>17. PICK d : Linked(y, live, o, d)
  BY <1>16
<1>18. Sorted(y, live)
  <2>1. \A n \in live : z3[n].parent \in live \cup {Null}
    BY <1>15, Around
  <2> QED BY <1>2, <1>6, <1>14, <2>1 DEF Sorted
<1>19. Seen(node', y, T, c2, live)
  BY <1>1, <1>2, <1>4, <1>5, <1>7, <1>13, SeenInFront
<1>20. \A n \in live : node'[n].value = node[n].value
  <2>1. \A n \in live : node'[n].value = y[n].value /\ node[n].value = t[n].value
    BY <1>2, <1>19 DEF Seen
  <2> QED BY <1>2, <1>3, <1>6, <1>14, <2>1 DEF Melds
<1>21. ASSUME NEW h \in Heaps, root[h] # Null
       PROVE  root[h] \in live /\ o[root[h]] = h /\ Alone(y, root[h])
  <2>1. root[h] \in live /\ o[root[h]] = h /\ Alone(t, root[h]) /\ root[h] \in Nodes
    BY <1>2, <1>21
  <2>2. root[h] \notin {c, b} /\ root[h] # m /\ root[h] # paired
    BY <1>2, <1>4, <1>7, <1>11, <2>1 DEF Alone, Head, T
  <2>3. Alone(z3, root[h])
    BY <1>9, <2>1, <2>2 DEF Alone
  <2> QED BY <1>14, <2>1, <2>2, <2>3 DEF Alone, Head
<1>22. ASSUME NEW n \in live, Head(y, n)
       PROVE  n = root[o[n]] \/ n = m
  <2>1. n # paired /\ Head(z3, n)
    BY <1>2, <1>7, <1>14, <1>22 DEF Head
  <2> QED BY <1>2, <1>10, <2>1
<1>23. Head(y, m)
  BY <1>2, <1>7, <1>12, <1>14 DEF Alone, Head
<1>24. Types'
  <2>1. node' \in Store
    BY <1>19 DEF Seen
  <2> QED BY <1>1, <1>2, <1>3, <1>7, <2>1 DEF Types
<1>25. RootsOf(y, o)' /\ HeadsOf(y, o)'
  BY <1>1, <1>21, <1>22 DEF RootsOf, HeadsOf, Cleared
<1>26. Counts(o)'
  BY <1>1, <1>2 DEF Counts, Of, Cleared
<1>27. Popping(o)'
  BY <1>1, <1>2, <1>20 DEF Popping, T
<1>28. InPhase(y, o)'
  <2>1. y[T].child = c2
    BY <1>2, <1>8, <1>14
  <2> QED BY <1>1, <1>2, <1>7, <1>19, <1>23, <2>1 DEF InPhase, T
<1>29. Shape(y, o, d)'
  BY <1>1, <1>17, <1>18, <1>24, <1>25, <1>26, <1>27, <1>28 DEF Shape
<1> QED BY <1>1, <1>20, <1>29

\* The same nodes, linked in the same way.
LEMMA PairsDoneStep ==
  ASSUME NEW t, NEW o, NEW g, Shape(t, o, g), PairsDone
  PROVE  /\ live' = live /\ op' = "fold" /\ target' = target /\ node' = node
         /\ \E z, d : Shape(z, o, d)'
<1> DEFINE T == root[target]
<1>1. /\ op = "pair" /\ cursor = Null /\ op' = "fold" /\ cursor' = paired
      /\ node' = node /\ live' = live /\ root' = root /\ size' = size
      /\ target' = target /\ source' = source /\ paired' = paired /\ result' = result
  BY DEF PairsDone
<1>2. /\ Types /\ live \subseteq Nodes /\ Null \notin live
      /\ Linked(t, live, o, g) /\ Sorted(t, live)
      /\ T \in live /\ o[T] = target /\ Alone(t, T)
      /\ Seen(node, t, T, Null, live) /\ t[T].child = Null /\ result = Null
      /\ paired # Null => Head(t, paired) /\ o[paired] = target /\ paired # T
      /\ \A h \in Heaps : root[h] # Null =>
           root[h] \in live /\ o[root[h]] = h /\ Alone(t, root[h])
      /\ \A n \in live : Head(t, n) => n = root[o[n]] \/ n = paired
      /\ \A n \in live : o[n] = target => node[n].value <= node[T].value
      /\ \A h \in Heaps : size[h] = Cardinality(Of(o, h))
  <2> HIDE DEF T
  <2> QED BY <1>1, PairShape DEF T
<1>3. PICK z : z = node
  OBVIOUS
<1>4. /\ z \in Store
      /\ \A n \in live : /\ z[n].parent = t[n].parent /\ z[n].prev = t[n].prev
                         /\ z[n].child = t[n].child /\ z[n].next = t[n].next
                         /\ z[n].value = t[n].value /\ t[n].parent \in live \cup {Null}
  BY <1>2, <1>3, Around DEF Seen
<1> HIDE DEF T
<1>5. Linked(z, live, o, g)
  BY <1>2, <1>4, LinksOnly DEF SameLinks
<1>6. Sorted(z, live)
  BY <1>2, <1>4 DEF Sorted
<1>7. \A n \in live : (Head(z, n) <=> Head(t, n)) /\ (Alone(z, n) <=> Alone(t, n))
  BY <1>4 DEF Head, Alone
<1>8. Types'
  BY <1>1, <1>2 DEF Types
<1>9. RootsOf(z, o)' /\ HeadsOf(z, o)' /\ Counts(o)'
  <2>1. RootsOf(z, o)'
    BY <1>1, <1>2, <1>7 DEF RootsOf
  <2>2. HeadsOf(z, o)'
    BY <1>1, <1>2, <1>7 DEF HeadsOf, Cleared
  <2>3. Counts(o)'
    BY <1>1, <1>2 DEF Counts, Of
  <2> QED BY <2>1, <2>2, <2>3
<1>10. Popping(o)'
  BY <1>1, <1>2 DEF Popping, T
<1>11. InPhase(z, o)'
  <2>1. paired # Null => paired \in live
    BY <1>2 DEF Types
  <2> QED BY <1>1, <1>2, <1>3, <1>4, <1>7, <2>1 DEF InPhase, T
<1>12. Shape(z, o, g)'
  BY <1>1, <1>5, <1>6, <1>8, <1>9, <1>10, <1>11 DEF Shape
<1> QED BY <1>1, <1>12

\* What the invariant says of a pop() in its second pass.
LEMMA FoldShape ==
  ASSUME NEW t, NEW o, NEW g, Shape(t, o, g), op = "fold"
  PROVE  /\ Types /\ Linked(node, live, o, g) /\ Sorted(node, live) /\ live \subseteq Nodes
         /\ Null \notin live /\ node \in Store /\ node = t
         /\ root[target] \in live /\ o[root[target]] = target /\ Alone(node, root[target])
         /\ node[root[target]].child = Null
         /\ cursor # Null => Head(node, cursor) /\ o[cursor] = target /\ cursor # root[target]
         /\ result # Null => Alone(node, result) /\ o[result] = target /\ result # root[target]
         /\ cursor # Null => cursor # result
         /\ \A h \in Heaps : root[h] # Null =>
              root[h] \in live /\ o[root[h]] = h /\ Alone(node, root[h])
         /\ \A n \in live : Head(node, n) => n = root[o[n]] \/ n \in {cursor, result}
         /\ \A n \in live : o[n] = target => node[n].value <= node[root[target]].value
         /\ \A h \in Heaps : size[h] = Cardinality(Of(o, h)) /\ Of(o, h) \subseteq Nodes
<1>1. \A h \in Heaps : ~ Cleared(h)
  BY DEF Cleared
<1>2. Linked(node, live, o, g) /\ Types /\ node = t
  BY DEF Shape, InPhase
<1>3. Null \notin live /\ live \subseteq Nodes /\ node \in Store
  BY <1>2, Around
<1>4. \A h \in Heaps : Of(o, h) \subseteq Nodes
  BY <1>3 DEF Of
<1> QED BY <1>1, <1>2, <1>3, <1>4
      DEF Shape, Types, RootsOf, HeadsOf, Counts, Popping, InPhase, Cleared

\* An iteration of the second pass keeps the invariant and no value moves.
LEMMA FoldStep ==
  ASSUME NEW t, NEW o, NEW g, Shape(t, o, g), FoldNext
  PROVE  /\ live' = live /\ op' = op /\ target' = target
         /\ \A m \in live : node'[m].value = node[m].value
         /\ \E z, d : Shape(z, o, d)'
<1> DEFINE c == cursor
           r == result
           j == node[c].next
           s == OffList(node, c)
           T == root[target]
           w == MeldRoot(s, c, r)
<1>1. /\ op = "fold" /\ c # Null /\ op' = op /\ cursor' = j
      /\ node' = MeldStore(s, c, r) /\ result' = w
      /\ live' = live /\ root' = root /\ size' = size
      /\ target' = target /\ source' = source /\ paired' = paired
  BY DEF FoldNext, OffList
<1>2. /\ Types /\ Linked(node, live, o, g) /\ Sorted(node, live) /\ live \subseteq Nodes
      /\ Null \notin live /\ node \in Store
      /\ T \in live /\ o[T] = target /\ Alone(node, T) /\ node[T].child = Null
      /\ Head(node, c) /\ o[c] = target /\ c # T /\ c # r
      /\ r # Null => Alone(node, r) /\ o[r] = target /\ r # T
      /\ \A h \in Heaps : root[h] # Null =>
           root[h] \in live /\ o[root[h]] = h /\ Alone(node, root[h])
      /\ \A n \in live : Head(node, n) => n = root[o[n]] \/ n \in {c, r}
      /\ \A n \in live : o[n] = target => node[n].value <= node[T].value
      /\ \A h \in Heaps : size[h] = Cardinality(Of(o, h)) /\ Of(o, h) \subseteq Nodes
  BY <1>1, FoldShape
<1>3. c \in live /\ r \in live \cup {Null}
  BY <1>1 DEF Shape, Types
<1>4. /\ j \in live \cup {Null} /\ j # c
      /\ \A n \in live : node[n].parent \in live \cup {Null}
  BY <1>2, <1>3, Around
<1>5. j # Null => node[j].parent = Null /\ node[j].prev = c /\ o[j] = target /\ j # T /\ j # r
  BY <1>2, <1>3, <1>4 DEF Linked, Mutual, Graded, Alone, Head
<1>6. s \in Store /\ \A n \in Nodes :
              /\ s[n].value = node[n].value /\ s[n].child = node[n].child
              /\ s[n].parent = node[n].parent
              /\ s[n].next = (IF n = c THEN Null ELSE node[n].next)
              /\ s[n].prev = (IF n = j THEN Null ELSE node[n].prev)
  BY <1>2, <1>3, <1>4, OffListFields
<1> HIDE DEF s, w, c, r, j, T
<1>7. Linked(s, live, o, g)
  <2>1. \A n \in live :
              /\ s[n].parent = node[n].parent /\ s[n].child = node[n].child
              /\ s[n].next = (IF n = c THEN Null ELSE node[n].next)
              /\ s[n].prev = (IF n = node[c].next THEN Null ELSE node[n].prev)
    BY <1>2, <1>6 DEF j
  <2> QED BY <1>2, <1>3, <1>6, <2>1, PopLinked
<1>8. Sorted(s, live)
  BY <1>2, <1>4, <1>6 DEF Sorted
<1>9. \A n \in live \ {c, j} : (Head(s, n) <=> Head(node, n)) /\ (Alone(s, n) <=> Alone(node, n))
  BY <1>2, <1>6 DEF Head, Alone
<1>10. Alone(s, c) /\ (j # Null => Head(s, j))
  BY <1>2, <1>3, <1>4, <1>5, <1>6 DEF Head, Alone
<1>11. r # Null => Alone(s, r) /\ r # j
  BY <1>2, <1>3, <1>4, <1>5, <1>9
<1>12. Meldable(s, live, o, c, r)
  BY <1>2, <1>3, <1>10, <1>11 DEF Meldable
<1>13. PICK z : z = node'
  OBVIOUS
<1>14. /\ \E f : Linked(z, live, o, f)
       /\ Sorted(z, live) /\ Melds(s, z, w, live, c, r)
  BY <1>1, <1>7, <1>8, <1>12, <1>13, MeldLinked DEF w
<1>15. w \in live /\ Alone(z, w) /\ o[w] = target /\ w # T /\ w \in {c, r}
  BY <1>2, <1>3, <1>14 DEF Melds
<1>16. PICK d : Linked(z, live, o, d)
  BY <1>14
<1>17. \A n \in live : node'[n].value = node[n].value
  BY <1>2, <1>6, <1>13, <1>14 DEF Melds
<1>18. ASSUME NEW h \in Heaps, root[h] # Null
       PROVE  /\ root[h] \in live /\ o[root[h]] = h /\ Alone(z, root[h])
              /\ z[root[h]].child = node[root[h]].child
  <2>1. root[h] \in live /\ o[root[h]] = h /\ Alone(node, root[h]) /\ root[h] \in Nodes
    BY <1>2, <1>18
  <2>2. root[h] \notin {c, r} /\ root[h] # j
    BY <1>2, <1>5, <2>1 DEF T
  <2>3. Alone(s, root[h])
    BY <1>9, <2>1, <2>2
  <2> QED BY <1>6, <1>14, <2>1, <2>2, <2>3 DEF Melds, Alone, Head
<1>19. ASSUME NEW n \in live, Head(z, n)
       PROVE  n = root[o[n]] \/ n \in {j, w}
  <2>1. Head(s, n) /\ (n \in {c, r} => n = w)
    BY <1>14, <1>19 DEF Melds
  <2> QED BY <1>2, <1>9, <2>1
<1>20. j # Null => Head(z, j) /\ j # w
  <2> SUFFICES ASSUME j # Null PROVE Head(z, j) /\ j # w
    OBVIOUS
  <2>1. j \in live \ {c, r} /\ Head(s, j)
    BY <1>4, <1>5, <1>10
  <2> QED BY <1>14, <1>15, <2>1 DEF Melds, Head
<1>21. Types'
  <2>1. node' \in Store
    BY <1>13, <1>16, LinkedIsTyped
  <2> QED BY <1>1, <1>2, <1>4, <1>15, <2>1 DEF Types
<1>22. RootsOf(z, o)' /\ HeadsOf(z, o)'
  BY <1>1, <1>18, <1>19 DEF RootsOf, HeadsOf, Cleared
<1>23. Counts(o)'
  BY <1>1, <1>2 DEF Counts, Of
<1>24. Popping(o)'
  BY <1>1, <1>2, <1>17 DEF Popping, T
<1>25. InPhase(z, o)'
  <2>1. z[T].child = Null
    BY <1>2, <1>18 DEF T, Types
  <2> QED BY <1>1, <1>5, <1>13, <1>15, <1>20, <2>1 DEF InPhase, T
<1>26. Shape(z, o, d)'
  BY <1>1, <1>14, <1>16, <1>21, <1>22, <1>23, <1>24, <1>25 DEF Shape
<1> QED BY <1>1, <1>17, <1>26

\* Only the popped node leaves its heap.
LEMMA PopReturnsStep ==
  ASSUME NEW t, NEW o, NEW g, Shape(t, o, g), PopReturns
  PROVE  /\ live' = live \ {root[target]} /\ root[target] \in live /\ o[root[target]] = target
         /\ op = "fold" /\ op' = "idle" /\ target' = target
         /\ \A n \in live : o[n] = target => node[n].value <= node[root[target]].value
         /\ \A m \in live' : node'[m].value = node[m].value
         /\ \E z, d : Shape(z, o, d)'
<1> DEFINE T == root[target]
           L == live \ {T}
<1>1. /\ op = "fold" /\ cursor = Null /\ op' = "idle" /\ live' = L
      /\ node' = [node EXCEPT ![T] = Unused]
      /\ root' = [root EXCEPT ![target] = result]
      /\ size' = [size EXCEPT ![target] = @ - 1]
      /\ cursor' = Null /\ paired' = Null /\ result' = Null
      /\ target' = target /\ source' = source
  BY DEF PopReturns
<1>2. /\ Types /\ Linked(node, live, o, g) /\ Sorted(node, live) /\ live \subseteq Nodes
      /\ Null \notin live /\ node \in Store
      /\ T \in live /\ o[T] = target /\ Alone(node, T) /\ node[T].child = Null
      /\ result # Null => Alone(node, result) /\ o[result] = target /\ result # T
      /\ \A h \in Heaps : root[h] # Null =>
           root[h] \in live /\ o[root[h]] = h /\ Alone(node, root[h])
      /\ \A n \in live : Head(node, n) => n = root[o[n]] \/ n \in {cursor, result}
      /\ \A n \in live : o[n] = target => node[n].value <= node[T].value
      /\ \A h \in Heaps : size[h] = Cardinality(Of(o, h)) /\ Of(o, h) \subseteq Nodes
  BY <1>1, FoldShape
<1>3. /\ result \in live \cup {Null} /\ target \in Heaps /\ source \in Heaps
      /\ root \in [Heaps -> Pointers] /\ size \in [Heaps -> 0 .. MaxNodes]
      /\ o \in [Nodes -> Heaps]
  BY <1>2 DEF Types, Linked
<1>4. PICK z : z = node'
  OBVIOUS
<1>5. Unused \in NodeType
  BY PairingHeapAssumption, NullFacts DEF Unused, NodeType
<1>6. z \in Store /\ \A n \in L : z[n] = node[n]
  BY <1>1, <1>2, <1>4, <1>5 DEF Store
<1>7. Linked(node, L, o, g) /\ \A n \in L : node[n].parent \in L \cup {Null}
  BY <1>2, RemoveLinked
<1> HIDE DEF L, T
<1>8. Linked(z, L, o, g)
  BY <1>6, <1>7, LinksOnly DEF SameLinks
<1>9. Sorted(z, L)
  BY <1>2, <1>6, <1>7 DEF Sorted, L
<1>10. \A n \in L : (Head(z, n) <=> Head(node, n)) /\ (Alone(z, n) <=> Alone(node, n))
  BY <1>6 DEF Head, Alone
<1>11. root' \in [Heaps -> Pointers] /\ root'[target] = result
       /\ \A h \in Heaps : h # target => root'[h] = root[h]
  BY <1>1, <1>2, <1>3, NullFacts
<1>12. ASSUME NEW h \in Heaps, root'[h] # Null
       PROVE  root'[h] \in L /\ o[root'[h]] = h /\ Alone(z, root'[h])
  <2>1. CASE h = target
    BY <1>2, <1>3, <1>10, <1>11, <1>12, <2>1 DEF L
  <2>2. CASE h # target
    BY <1>2, <1>3, <1>10, <1>11, <1>12, <2>2 DEF L
  <2> QED BY <2>1, <2>2
<1>13. ASSUME NEW n \in L, Head(z, n)
       PROVE  n = root'[o[n]]
  <2>1. n \in live /\ n # T /\ n # Null /\ o[n] \in Heaps /\ Head(node, n)
    BY <1>2, <1>3, <1>10, <1>13 DEF L
  <2>2. n = root[o[n]] \/ n = result
    BY <1>1, <1>2, <2>1
  <2>3. CASE o[n] = target
    BY <1>11, <2>1, <2>2, <2>3 DEF T
  <2>4. CASE o[n] # target
    BY <1>2, <1>11, <2>1, <2>2, <2>4
  <2> QED BY <2>3, <2>4
<1>14. Forest(z, live', o, root', Null)
  BY <1>1, <1>8, <1>9, <1>11, <1>12, <1>13 DEF Forest
<1>15. \A h \in Heaps : size'[h] = Cardinality({n \in live' : o[n] = h})
  <2> TAKE h \in Heaps
  <2> DEFINE P == {n \in live' : o[n] = h}
  <2>1. CASE h = target
    <3>1. P = Of(o, h) \ {T} /\ T \in Of(o, h)
      BY <1>1, <1>2, <2>1 DEF L, Of
    <3>2. IsFiniteSet(Of(o, h)) /\ size[h] = Cardinality(Of(o, h))
      BY <1>2, NodesFinite
    <3> HIDE DEF P
    <3>3. Cardinality(P) = size[h] - 1
      BY <3>1, <3>2, FS_RemoveElement
    <3> QED BY <1>1, <1>3, <2>1, <3>3 DEF P
  <2>2. CASE h # target
    <3>1. P = Of(o, h)
      BY <1>1, <1>2, <2>2 DEF L, Of
    <3> QED BY <1>1, <1>2, <1>3, <2>2, <3>1
  <2> QED BY <2>1, <2>2
<1>16. size' \in [Heaps -> Int]
  BY <1>1, <1>3
<1>17. \E d : Shape(z, o, d)'
  BY <1>1, <1>3, <1>4, <1>14, <1>15, <1>16, BetweenCalls
<1>18. \A m \in L : node'[m].value = node[m].value
  BY <1>4, <1>6
<1> QED BY <1>1, <1>2, <1>17, <1>18 DEF L, T

----------------------------------------------------------------------------
(* clear(), the destructor and the moves                                   *)

\* clear() begins: the chain to flatten is the root alone.
LEMMA ClearStep ==
  ASSUME NEW t, NEW o, NEW g, Shape(t, o, g), NEW h \in Heaps, NEW j \in Heaps, Clear(h, j)
  PROVE  /\ live' = live /\ node' = node /\ op' = "destroy" /\ target' = h
         /\ \E z, d : Shape(z, o, d)'
<1>1. /\ op = "idle" /\ op' = "destroy" /\ target' = h /\ source' = j /\ cursor' = root[h]
      /\ node' = node /\ live' = live /\ root' = root /\ size' = size
      /\ paired' = paired /\ result' = result
  BY DEF Clear, Idle
<1>2. /\ node = t /\ node \in Store /\ live \subseteq Nodes
      /\ paired = Null /\ result = Null
      /\ root \in [Heaps -> Pointers] /\ size \in [Heaps -> 0 .. MaxNodes]
      /\ o \in [Nodes -> Heaps]
      /\ Linked(node, live, o, g) /\ Forest(node, live, o, root, Null)
      /\ \A k \in Heaps : size[k] = Cardinality(Of(o, k)) /\ Of(o, k) \subseteq Nodes
  BY <1>1, IdleShape
<1>3. Null \notin live /\ \A n \in live : o[n] \in Heaps
  BY <1>2, Around
<1>4. \A n \in live : node[n].parent = Null => Head(node, n)
  <2> SUFFICES ASSUME NEW n \in live, node[n].parent = Null
               PROVE  Head(node, n)
    OBVIOUS
  <2>1. n = root[o[n]] /\ o[n] \in Heaps
    BY <1>1, <1>2, <1>3, IdleTrees
  <2> QED BY <1>2, <1>3, <2>1 DEF Forest, Alone
<1>5. Types'
  BY <1>1, <1>2, <1>3 DEF Types, Forest
<1>6. Linked(t, live', o, g) /\ Sorted(t, live')
  BY <1>1, <1>2 DEF Forest
<1>7. RootsOf(t, o)' /\ Counts(o)' /\ Popping(o)'
  BY <1>1, <1>2 DEF RootsOf, Counts, Popping, Forest, Of
<1>8. HeadsOf(t, o)'
  BY <1>1, <1>2, <1>3 DEF HeadsOf, Cleared, Forest
<1>9. InPhase(t, o)'
  <2>1. Unbacked(t)'
    BY <1>1, <1>2, <1>4 DEF Unbacked, Head
  <2> QED BY <1>1, <1>2, <2>1 DEF InPhase, Forest, Alone
<1>10. Shape(t, o, g)'
  BY <1>5, <1>6, <1>7, <1>8, <1>9 DEF Shape
<1> QED BY <1>1, <1>10

\* What the invariant says while a heap is cleared.
LEMMA DestroyShape ==
  ASSUME NEW t, NEW o, NEW g, Shape(t, o, g), op = "destroy"
  PROVE  /\ Types /\ Linked(t, live, o, g) /\ Sorted(t, live) /\ live \subseteq Nodes
         /\ Null \notin live /\ t \in Store /\ o \in [Nodes -> Heaps]
         /\ Unbacked(t) /\ paired = Null /\ result = Null
         /\ cursor # Null => Head(t, cursor) /\ o[cursor] = target
         /\ \A h \in Heaps : h # target /\ root[h] # Null =>
              root[h] \in live /\ o[root[h]] = h /\ Alone(t, root[h])
         /\ \A n \in live : Head(t, n) => (o[n] # target /\ n = root[o[n]]) \/ n = cursor
         /\ \A h \in Heaps : h # target => size[h] = Cardinality(Of(o, h))
<1>1. \A h \in Heaps : Cleared(h) <=> h = target
  BY DEF Cleared
<1>2. Linked(t, live, o, g) /\ Types
  BY DEF Shape
<1>3. Null \notin live /\ live \subseteq Nodes /\ t \in Store /\ o \in [Nodes -> Heaps]
  BY <1>2, Around DEF Linked
<1> QED BY <1>1, <1>2, <1>3 DEF Shape, RootsOf, HeadsOf, Counts, InPhase

\* What the invariant takes while a heap is cleared.
LEMMA DestroyAgain ==
  ASSUME NEW z, NEW p, NEW d, op' = "destroy", Types',
         Linked(z, live', p, d), Sorted(z, live'),
         \A h \in Heaps : h # target' /\ root'[h] # Null =>
              root'[h] \in live' /\ p[root'[h]] = h /\ Alone(z, root'[h]),
         \A n \in live' : Head(z, n) => (p[n] # target' /\ n = root'[p[n]]) \/ n = cursor',
         \A h \in Heaps : h # target' => size'[h] = Cardinality({n \in live' : p[n] = h}),
         Unbacked(z)', paired' = Null, result' = Null,
         cursor' # Null => Head(z, cursor') /\ p[cursor'] = target'
  PROVE  Shape(z, p, d)'
<1>1. RootsOf(z, p)' /\ Counts(p)' /\ Popping(p)' /\ InPhase(z, p)'
  BY DEF RootsOf, Cleared, Counts, Popping, InPhase, Of
<1>2. HeadsOf(z, p)'
  BY DEF HeadsOf, Cleared
<1> QED BY <1>1, <1>2 DEF Shape

\* A child in front of the chain: it heads the list, and its siblings stay children.
LEMMA FlattenStep ==
  ASSUME NEW t, NEW o, NEW g, Shape(t, o, g), Flatten
  PROVE  /\ live' = live /\ op = "destroy" /\ op' = op /\ target' = target
         /\ \A m \in live : node'[m].value = node[m].value
         /\ \E z, d : Shape(z, o, d)'
<1> DEFINE c == cursor
           f == node[c].child
           r == node[f].next
           t1 == Detach(t, f)
           t2 == InFront(t1, f, c)
           s1 == KeepSiblings(c)
           s2 == Unlink(s1, f)
<1>1. /\ op = "destroy" /\ c # Null /\ f # Null /\ op' = op /\ cursor' = f
      /\ node' = [s2 EXCEPT ![f].next = c]
      /\ live' = live /\ root' = root /\ size' = size
      /\ target' = target /\ source' = source /\ paired' = paired /\ result' = result
  BY DEF Flatten
<1>2. /\ Types /\ Linked(t, live, o, g) /\ Sorted(t, live) /\ live \subseteq Nodes
      /\ Null \notin live /\ t \in Store
      /\ Unbacked(t) /\ paired = Null /\ result = Null
      /\ Head(t, c) /\ o[c] = target
      /\ \A h \in Heaps : h # target /\ root[h] # Null =>
           root[h] \in live /\ o[root[h]] = h /\ Alone(t, root[h])
      /\ \A n \in live : Head(t, n) => (o[n] # target /\ n = root[o[n]]) \/ n = c
      /\ \A h \in Heaps : h # target => size[h] = Cardinality(Of(o, h))
  BY <1>1, DestroyShape
<1>3. c \in live /\ node \in Store
  BY <1>1, <1>2 DEF Types
<1>4. \A n \in live : /\ t[n].parent \in live \cup {Null} /\ t[n].prev \in live \cup {Null}
                      /\ t[n].child \in live \cup {Null} /\ t[n].next \in live \cup {Null}
                      /\ t[n].child # n /\ t[n].next # n
  BY <1>2, Around
<1>5. f = t[c].child /\ f \in live /\ f # c
  BY <1>1, <1>2, <1>3, <1>4 DEF Unbacked
<1>6. r = t[f].next /\ r \in live \cup {Null} /\ r # f
  BY <1>2, <1>4, <1>5 DEF Unbacked
<1>7. t[f].parent = c /\ t[f].prev = Null /\ o[f] = target
  BY <1>1, <1>2, <1>3, <1>5 DEF Linked, Mutual, Graded
<1>8. r # Null => t[r].parent = c /\ t[r].prev = f /\ r # c /\ o[r] = target
  BY <1>2, <1>5, <1>6, <1>7 DEF Linked, Mutual, Graded, Head
<1>9. /\ s1 \in Store
      /\ \A n \in Nodes : /\ s1[n].value = node[n].value
                          /\ s1[n].child = (IF n = c THEN r ELSE node[n].child)
                          /\ s1[n].parent = node[n].parent /\ s1[n].next = node[n].next
                          /\ s1[n].prev = (IF n = r THEN Null ELSE node[n].prev)
  <2> DEFINE a == [node EXCEPT ![c].child = r]
  <2>1. r \in Pointers /\ c \in Nodes
    BY <1>2, <1>3, <1>6, NullFacts
  <2> HIDE DEF r
  <2>2. a \in Store /\ \A n \in Nodes :
              /\ a[n].value = node[n].value
              /\ a[n].child = (IF n = c THEN r ELSE node[n].child)
              /\ a[n].parent = node[n].parent /\ a[n].next = node[n].next
              /\ a[n].prev = node[n].prev
    BY <1>3, <2>1 DEF Store, NodeType
  <2>3. s1 = SetPrev(a, r, Null)
    BY DEF KeepSiblings, r
  <2> HIDE DEF a, s1
  <2>4. /\ SetPrev(a, r, Null) \in Store
        /\ \A n \in Nodes : LET x == SetPrev(a, r, Null)[n] IN
              /\ x.value = a[n].value /\ x.child = a[n].child
              /\ x.parent = a[n].parent /\ x.next = a[n].next
              /\ x.prev = (IF n = r THEN Null ELSE a[n].prev)
    BY <2>1, <2>2, NullFacts, SetPrevFields
  <2> QED BY <2>2, <2>3, <2>4
<1> HIDE DEF s1
<1>10. /\ s2 \in Store
       /\ \A n \in Nodes : /\ s2[n].value = s1[n].value /\ s2[n].child = s1[n].child
                           /\ s2[n].parent = (IF n = f THEN Null ELSE s1[n].parent)
                           /\ s2[n].prev = (IF n = f THEN Null ELSE s1[n].prev)
                           /\ s2[n].next = (IF n = f THEN Null ELSE s1[n].next)
  BY <1>2, <1>5, <1>9, UnlinkFields
<1> HIDE DEF s2
<1>11. /\ node' \in Store
       /\ \A n \in Nodes : /\ node'[n].value = s2[n].value /\ node'[n].child = s2[n].child
                           /\ node'[n].parent = s2[n].parent /\ node'[n].prev = s2[n].prev
                           /\ node'[n].next = (IF n = f THEN c ELSE s2[n].next)
  <2>1. c \in Pointers /\ f \in Nodes
    BY <1>2, <1>3, <1>5, NullFacts
  <2> HIDE DEF f, c
  <2> QED BY <1>1, <1>10, <2>1 DEF Store, NodeType
<1>12. Linked(t1, live, o, g)
  BY <1>2, <1>3, <1>5, <1>7, DetachLinked
<1>13. t1 \in Store /\ \A n \in Nodes :
              /\ t1[n].value = t[n].value
              /\ t1[n].parent = (IF n = f THEN Null ELSE t[n].parent)
              /\ t1[n].prev = (IF n = f \/ n = r THEN Null ELSE t[n].prev)
              /\ t1[n].next = (IF n = f THEN Null ELSE t[n].next)
              /\ t1[n].child = (IF n = c THEN r ELSE t[n].child)
  BY <1>2, <1>3, <1>5, <1>6, <1>7, DetachFields
<1> HIDE DEF t1, c, f, r
<1>14. Alone(t1, f) /\ Head(t1, c)
  BY <1>2, <1>3, <1>5, <1>8, <1>13 DEF Alone, Head
<1>15. t2 \in Store /\ \A n \in Nodes :
              /\ t2[n].value = t1[n].value /\ t2[n].child = t1[n].child
              /\ t2[n].parent = t1[n].parent
              /\ t2[n].next = (IF n = f THEN c ELSE t1[n].next)
              /\ t2[n].prev = (IF n = c THEN f ELSE t1[n].prev)
  <2>1. f \in Nodes /\ c \in Pointers
    BY <1>2, <1>3, <1>5, NullFacts
  <2> QED BY <1>13, <2>1, InFrontFields
<1>16. PICK z : z = t2
  OBVIOUS
<1>17. Linked(z, live, o, [n \in Nodes |-> IF n = f THEN 0 ELSE g[n] + 1])
  <2>1. \A n \in live :
              /\ z[n].parent = t1[n].parent /\ z[n].child = t1[n].child
              /\ z[n].next = (IF n = f THEN c ELSE t1[n].next)
              /\ z[n].prev = (IF n = c THEN f ELSE t1[n].prev)
    BY <1>2, <1>15, <1>16
  <2>2. z \in Store /\ c \in live \cup {Null} /\ c # f /\ o[c] = o[f]
    BY <1>2, <1>3, <1>5, <1>7, <1>15, <1>16
  <2> QED BY <1>5, <1>12, <1>14, <2>1, <2>2, PushLinked
<1>18. PICK d : Linked(z, live, o, d)
  BY <1>17
<1> HIDE DEF t2
<1>19. Sorted(z, live)
  BY <1>2, <1>4, <1>13, <1>15, <1>16 DEF Sorted
<1>20. Unbacked(z)'
  <2> SUFFICES ASSUME NEW n \in live
               PROVE  /\ node'[n].value = z[n].value /\ node'[n].parent = z[n].parent
                      /\ node'[n].child = z[n].child /\ node'[n].next = z[n].next
                      /\ node'[n].prev = (IF z[n].parent = Null THEN Null ELSE z[n].prev)
    BY <1>1 DEF Unbacked
  <2>1. n \in Nodes /\ node[n].value = t[n].value /\ node[n].parent = t[n].parent
        /\ node[n].child = t[n].child /\ node[n].next = t[n].next
        /\ node[n].prev = (IF t[n].parent = Null THEN Null ELSE t[n].prev)
    BY <1>2 DEF Unbacked
  <2>2. /\ node'[n].value = z[n].value /\ node'[n].parent = z[n].parent
        /\ node'[n].child = z[n].child /\ node'[n].next = z[n].next
    BY <1>9, <1>10, <1>11, <1>13, <1>15, <1>16, <2>1
  <2>3. node'[n].prev = (IF n = f \/ n = r THEN Null ELSE node[n].prev)
    BY <1>9, <1>10, <1>11, <2>1
  <2>4. z[n].prev = (IF n = c THEN f ELSE IF n = f \/ n = r THEN Null ELSE t[n].prev)
        /\ z[n].parent = (IF n = f THEN Null ELSE t[n].parent)
    BY <1>13, <1>15, <1>16, <2>1
  <2>5. node'[n].prev = (IF z[n].parent = Null THEN Null ELSE z[n].prev)
    BY <1>2, <1>5, <1>8, <2>1, <2>3, <2>4 DEF Head
  <2> QED BY <2>2, <2>5
<1>21. ASSUME NEW h \in Heaps, h # target, root[h] # Null
       PROVE  root[h] \in live /\ o[root[h]] = h /\ Alone(z, root[h])
  <2>1. root[h] \in live /\ o[root[h]] = h /\ Alone(t, root[h])
    BY <1>2, <1>21
  <2>2. root[h] # c /\ root[h] # f /\ root[h] # r
    BY <1>2, <1>7, <1>8, <1>21, <2>1
  <2> QED BY <1>2, <1>13, <1>15, <1>16, <2>1, <2>2 DEF Alone, Head
<1>22. ASSUME NEW n \in live, Head(z, n)
       PROVE  (o[n] # target /\ n = root[o[n]]) \/ n = f
  <2> SUFFICES ASSUME n # f PROVE o[n] # target /\ n = root[o[n]]
    OBVIOUS
  <2>1. n # c
    BY <1>2, <1>3, <1>5, <1>15, <1>16, <1>22 DEF Head
  <2>2. t[n].parent = Null
    BY <1>2, <1>13, <1>15, <1>16, <1>22 DEF Head
  <2>3. n # r
    BY <1>1, <1>2, <1>8, <2>2
  <2>4. Head(t, n)
    BY <1>2, <1>13, <1>15, <1>16, <1>22, <2>1, <2>2, <2>3 DEF Head
  <2> QED BY <1>2, <2>1, <2>4
<1>23. Head(z, f)
  BY <1>2, <1>5, <1>14, <1>15, <1>16 DEF Alone, Head
<1>24. Types'
  BY <1>1, <1>2, <1>5, <1>11 DEF Types
<1>25. \A h \in Heaps : h # target' => size'[h] = Cardinality({n \in live' : o[n] = h})
  BY <1>1, <1>2 DEF Of
<1>26. Shape(z, o, d)'
  BY <1>1, <1>2, <1>7, <1>18, <1>19, <1>20, <1>21, <1>22, <1>23, <1>24, <1>25, DestroyAgain
<1>27. \A m \in live : node'[m].value = node[m].value
  BY <1>2, <1>9, <1>10, <1>11
<1> QED BY <1>1, <1>26, <1>27

\* The head of the chain is deleted; it had no child, so no node loses its tree.
LEMMA DeleteStep ==
  ASSUME NEW t, NEW o, NEW g, Shape(t, o, g), Delete
  PROVE  /\ live' = live \ {cursor} /\ op = "destroy" /\ op' = op /\ target' = target
         /\ o[cursor] = target /\ cursor \in live
         /\ \A m \in live' : node'[m].value = node[m].value
         /\ \E z, d : Shape(z, o, d)'
<1> DEFINE c == cursor
           j == node[c].next
           L == live \ {c}
           t1 == OffList(t, c)
<1>1. /\ op = "destroy" /\ c # Null /\ node[c].child = Null /\ op' = op /\ cursor' = j
      /\ live' = L /\ node' = [node EXCEPT ![c] = Unused]
      /\ root' = root /\ size' = size
      /\ target' = target /\ source' = source /\ paired' = paired /\ result' = result
  BY DEF Delete
<1>2. /\ Types /\ Linked(t, live, o, g) /\ Sorted(t, live) /\ live \subseteq Nodes
      /\ Null \notin live /\ t \in Store
      /\ Unbacked(t) /\ paired = Null /\ result = Null
      /\ Head(t, c) /\ o[c] = target
      /\ \A h \in Heaps : h # target /\ root[h] # Null =>
           root[h] \in live /\ o[root[h]] = h /\ Alone(t, root[h])
      /\ \A n \in live : Head(t, n) => (o[n] # target /\ n = root[o[n]]) \/ n = c
      /\ \A h \in Heaps : h # target => size[h] = Cardinality(Of(o, h))
  BY <1>1, DestroyShape
<1>3. c \in live /\ node \in Store
  BY <1>1, <1>2 DEF Types
<1>4. j = t[c].next /\ t[c].child = Null
  BY <1>1, <1>2, <1>3 DEF Unbacked
<1>5. t[c].next # c /\ j \in live \cup {Null}
  BY <1>2, <1>3, <1>4, Around
<1>6. j # Null => t[j].parent = Null /\ t[j].prev = c /\ o[j] = target
  BY <1>2, <1>3, <1>4, <1>5 DEF Linked, Mutual, Graded, Head
<1>7. t1 \in Store /\ \A n \in Nodes :
              /\ t1[n].value = t[n].value /\ t1[n].child = t[n].child
              /\ t1[n].parent = t[n].parent
              /\ t1[n].next = (IF n = c THEN Null ELSE t[n].next)
              /\ t1[n].prev = (IF n = j THEN Null ELSE t[n].prev)
  BY <1>2, <1>3, <1>4, <1>5, OffListFields
<1>8. PICK z : z = t1
  OBVIOUS
<1> HIDE DEF t1, j, c
<1>9. Linked(z, live, o, g)
  <2>1. z \in Store /\ \A n \in live :
              /\ z[n].parent = t[n].parent /\ z[n].child = t[n].child
              /\ z[n].next = (IF n = c THEN Null ELSE t[n].next)
              /\ z[n].prev = (IF n = t[c].next THEN Null ELSE t[n].prev)
    BY <1>2, <1>4, <1>7, <1>8
  <2> QED BY <1>2, <1>3, <2>1, PopLinked
<1>10. Alone(z, c) /\ z[c].child = Null
  BY <1>2, <1>3, <1>4, <1>5, <1>7, <1>8 DEF Alone, Head
<1>11. Linked(z, L, o, g) /\ \A n \in L : z[n].parent \in L \cup {Null}
  BY <1>3, <1>9, <1>10, RemoveLinked
<1>12. Sorted(z, L)
  BY <1>2, <1>7, <1>8, <1>11 DEF Sorted
<1>13. Unused \in NodeType
  BY PairingHeapAssumption, NullFacts DEF Unused, NodeType
<1>14. node' \in Store /\ \A n \in L : node'[n] = node[n]
  BY <1>1, <1>2, <1>3, <1>13 DEF Store
<1>15. Unbacked(z)'
  <2> SUFFICES ASSUME NEW n \in L
               PROVE  /\ node[n].value = z[n].value /\ node[n].parent = z[n].parent
                      /\ node[n].child = z[n].child /\ node[n].next = z[n].next
                      /\ node[n].prev = (IF z[n].parent = Null THEN Null ELSE z[n].prev)
    BY <1>1, <1>14 DEF Unbacked
  <2>1. n \in Nodes /\ n # c /\ node[n].value = t[n].value /\ node[n].parent = t[n].parent
        /\ node[n].child = t[n].child /\ node[n].next = t[n].next
        /\ node[n].prev = (IF t[n].parent = Null THEN Null ELSE t[n].prev)
    BY <1>2 DEF Unbacked
  <2>2. /\ z[n].value = t[n].value /\ z[n].parent = t[n].parent /\ z[n].child = t[n].child
        /\ z[n].next = t[n].next /\ z[n].prev = (IF n = j THEN Null ELSE t[n].prev)
    BY <1>7, <1>8, <2>1
  <2>3. n = j => t[n].parent = Null
    BY <1>2, <1>6
  <2> QED BY <2>1, <2>2, <2>3
<1>16. ASSUME NEW h \in Heaps, h # target, root[h] # Null
       PROVE  root[h] \in L /\ o[root[h]] = h /\ Alone(z, root[h])
  <2>1. root[h] \in live /\ o[root[h]] = h /\ Alone(t, root[h])
    BY <1>2, <1>16
  <2>2. root[h] # c /\ root[h] # j
    BY <1>2, <1>6, <1>16, <2>1
  <2> QED BY <1>2, <1>7, <1>8, <2>1, <2>2 DEF Alone, Head
<1>17. ASSUME NEW n \in L, Head(z, n)
       PROVE  (o[n] # target /\ n = root[o[n]]) \/ n = j
  <2>1. n = j \/ Head(t, n)
    BY <1>2, <1>7, <1>8, <1>17 DEF Head
  <2> QED BY <1>2, <2>1
<1>18. j # Null => Head(z, j) /\ j \in L
  BY <1>2, <1>4, <1>5, <1>6, <1>7, <1>8 DEF Head
<1>19. Types'
  BY <1>1, <1>2, <1>14, <1>18 DEF Types
<1>20. \A h \in Heaps : h # target' => size'[h] = Cardinality({n \in live' : o[n] = h})
  <2> SUFFICES ASSUME NEW h \in Heaps, h # target
               PROVE  size[h] = Cardinality({n \in L : o[n] = h})
    BY <1>1
  <2>1. {n \in L : o[n] = h} = Of(o, h)
    BY <1>2 DEF Of
  <2> QED BY <1>2, <2>1
<1> HIDE DEF L
<1>21. Shape(z, o, g)'
  BY <1>1, <1>2, <1>6, <1>11, <1>12, <1>15, <1>16, <1>17, <1>18, <1>19, <1>20, DestroyAgain
<1> QED BY <1>1, <1>2, <1>3, <1>14, <1>21 DEF L, c

\* The cleared heap is empty; a move hands it the trees of another one.
LEMMA ClearReturnsStep ==
  ASSUME NEW t, NEW o, NEW g, Shape(t, o, g), ClearReturns
  PROVE  /\ live' = live /\ node' = node /\ op = "destroy" /\ op' = "idle" /\ target' = target
         /\ \A n \in live : o[n] # target
         /\ \E p : /\ p = [n \in Nodes |-> IF o[n] = source THEN target ELSE o[n]]
                 /\ \E z, d : Shape(z, p, d)'
<1>1. /\ op = "destroy" /\ cursor = Null /\ op' = "idle" /\ source' = target
      /\ root' = [root EXCEPT ![source] = Null,
                          ![target] = IF source = target THEN Null ELSE root[source]]
      /\ size' = [size EXCEPT ![source] = 0,
                          ![target] = IF source = target THEN 0 ELSE size[source]]
      /\ node' = node /\ live' = live /\ target' = target /\ cursor' = cursor
      /\ paired' = paired /\ result' = result
  BY DEF ClearReturns
<1>2. /\ Types /\ Linked(t, live, o, g) /\ Sorted(t, live) /\ live \subseteq Nodes
      /\ Null \notin live /\ t \in Store /\ o \in [Nodes -> Heaps]
      /\ Unbacked(t) /\ paired = Null /\ result = Null
      /\ \A h \in Heaps : h # target /\ root[h] # Null =>
           root[h] \in live /\ o[root[h]] = h /\ Alone(t, root[h])
      /\ \A n \in live : Head(t, n) => (o[n] # target /\ n = root[o[n]]) \/ n = cursor
      /\ \A h \in Heaps : h # target => size[h] = Cardinality(Of(o, h))
  BY <1>1, DestroyShape
<1>3. /\ target \in Heaps /\ source \in Heaps /\ node \in Store
      /\ root \in [Heaps -> Pointers] /\ size \in [Heaps -> 0 .. MaxNodes]
  BY <1>2 DEF Types
<1>4. \A n \in live : Head(t, n) => o[n] # target /\ n = root[o[n]] /\ t[n].next = Null
  <2> SUFFICES ASSUME NEW n \in live, Head(t, n)
               PROVE  o[n] # target /\ n = root[o[n]] /\ t[n].next = Null
    OBVIOUS
  <2>1. n # Null /\ o[n] \in Heaps /\ o[n] # target /\ n = root[o[n]]
    BY <1>1, <1>2
  <2> QED BY <1>2, <2>1 DEF Alone
<1>5. \A n \in live : t[n].parent = Null => Head(t, n)
  <2> SUFFICES ASSUME NEW n \in live, t[n].parent = Null
               PROVE  Head(t, n)
    OBVIOUS
  <2>1. PICK h : o[n] = h
    OBVIOUS
  <2>2. \A m \in live : o[m] = h /\ Head(t, m) => t[m].next = Null
    BY <1>4
  <2>3. \A m \in live : o[m] = h /\ t[m].parent = Null => Head(t, m)
    BY <1>2, <2>2, NoSiblings
  <2> QED BY <2>1, <2>3
<1>6. \A n \in live : o[n] # target
  <2>1. PICK h : h = target
    OBVIOUS
  <2>2. Grown(t, live, o, h, {})
    BY <1>4, <1>5, <2>1 DEF Grown
  <2>3. \A n \in live : o[n] = h => n \in {}
    BY <1>2, <2>2, TreeInduction
  <2> QED BY <2>1, <2>3
<1>7. PICK z : z = node
  OBVIOUS
<1>8. \A n \in live : /\ z[n].value = t[n].value /\ z[n].parent = t[n].parent
                      /\ z[n].child = t[n].child /\ z[n].next = t[n].next
                      /\ z[n].prev = t[n].prev
  BY <1>2, <1>5, <1>7 DEF Unbacked, Head
<1>9. PICK p : p = [n \in Nodes |-> IF o[n] = source THEN target ELSE o[n]]
  OBVIOUS
<1>10. /\ p \in [Nodes -> Heaps]
       /\ \A n \in live : p[n] = (IF o[n] = source THEN target ELSE o[n]) /\ o[n] \in Heaps
  BY <1>2, <1>3, <1>9
<1>11. Linked(z, live, p, g)
  <2>1. Linked(z, live, o, g)
    BY <1>2, <1>3, <1>7, <1>8, LinksOnly DEF SameLinks
  <2>2. \A n, m \in live : o[n] = o[m] => p[n] = p[m]
    BY <1>10
  <2> QED BY <1>10, <2>1, <2>2, RenameLinked
<1>12. Sorted(z, live)
  BY <1>2, <1>8, Around DEF Sorted
<1>13. \A n \in live : (Head(z, n) <=> Head(t, n)) /\ (Alone(z, n) <=> Alone(t, n))
  BY <1>8 DEF Head, Alone
<1>14. /\ root' \in [Heaps -> Pointers]
       /\ source # target => root'[source] = Null /\ root'[target] = root[source]
       /\ source = target => root'[target] = Null
       /\ \A h \in Heaps : h # source /\ h # target => root'[h] = root[h]
  BY <1>1, <1>3, NullFacts
<1>15. ASSUME NEW h \in Heaps, root'[h] # Null
       PROVE  root'[h] \in live /\ p[root'[h]] = h /\ Alone(z, root'[h])
  <2>1. CASE h = target
    <3>1. source # target /\ root'[h] = root[source]
      BY <1>14, <1>15, <2>1
    <3>2. root[source] \in live /\ o[root[source]] = source /\ Alone(t, root[source])
      BY <1>2, <1>3, <1>15, <3>1
    <3> QED BY <1>10, <1>13, <2>1, <3>1, <3>2
  <2>2. CASE h # target
    <3>1. h # source /\ root'[h] = root[h]
      BY <1>3, <1>14, <1>15, <2>2
    <3>2. root[h] \in live /\ o[root[h]] = h /\ Alone(t, root[h])
      BY <1>2, <1>15, <2>2, <3>1
    <3> QED BY <1>10, <1>13, <3>1, <3>2
  <2> QED BY <2>1, <2>2
<1>16. ASSUME NEW n \in live, Head(z, n)
       PROVE  n = root'[p[n]]
  <2>1. o[n] # target /\ n = root[o[n]] /\ o[n] \in Heaps
    BY <1>4, <1>10, <1>13, <1>16
  <2>2. CASE o[n] = source
    BY <1>3, <1>10, <1>14, <2>1, <2>2
  <2>3. CASE o[n] # source
    BY <1>10, <1>14, <2>1, <2>3
  <2> QED BY <2>2, <2>3
<1>17. PICK y : y = node'
  OBVIOUS
<1>18. Forest(y, live', p, root', Null)
  <2>1. Forest(z, live, p, root', Null)
    BY <1>11, <1>12, <1>14, <1>15, <1>16 DEF Forest
  <2> QED BY <1>1, <1>7, <1>17, <2>1
<1>19. \A h \in Heaps : size'[h] = Cardinality({n \in live' : p[n] = h})
  <2> TAKE h \in Heaps
  <2> DEFINE P == {n \in live' : p[n] = h}
  <2>1. CASE h = target /\ source = target
    <3>1. P = {}
      BY <1>1, <1>6, <1>10, <2>1
    <3> QED BY <1>1, <1>3, <2>1, <3>1, FS_EmptySet
  <2>2. CASE h = target /\ source # target
    <3>1. P = Of(o, source)
      BY <1>1, <1>6, <1>10, <2>2 DEF Of
    <3> QED BY <1>1, <1>2, <1>3, <2>2, <3>1
  <2>3. CASE h = source /\ source # target
    <3>1. P = {}
      BY <1>1, <1>6, <1>10, <2>3
    <3> QED BY <1>1, <1>3, <2>3, <3>1, FS_EmptySet
  <2>4. CASE h # source /\ h # target
    <3>1. P = Of(o, h)
      BY <1>1, <1>10, <2>4 DEF Of
    <3> QED BY <1>1, <1>2, <1>3, <2>4, <3>1
  <2> QED BY <2>1, <2>2, <2>3, <2>4
<1>20. size' \in [Heaps -> Int]
  BY <1>1, <1>3
<1>21. \E d : Shape(y, p, d)'
  BY <1>1, <1>2, <1>3, <1>17, <1>18, <1>19, <1>20, BetweenCalls
<1> QED BY <1>1, <1>6, <1>9, <1>21

\* Nothing moves: nothing changes.
LEMMA StutterStep ==
  ASSUME NEW t, NEW o, NEW g, Shape(t, o, g), UNCHANGED vars
  PROVE  Shape(t, o, g)'
<1>1. /\ node' = node /\ live' = live /\ root' = root /\ size' = size /\ op' = op
      /\ target' = target /\ source' = source /\ cursor' = cursor
      /\ paired' = paired /\ result' = result
  BY DEF vars
<1>2. Types'
  BY <1>1 DEF Shape, Types
<1>3. Linked(t, live', o, g) /\ Sorted(t, live')
  BY <1>1 DEF Shape
<1>4. RootsOf(t, o)' /\ HeadsOf(t, o)' /\ Counts(o)' /\ Popping(o)' /\ InPhase(t, o)'
  BY <1>1 DEF Shape, RootsOf, HeadsOf, Counts, Popping, InPhase, Cleared, Of, Unbacked
<1> QED BY <1>2, <1>3, <1>4 DEF Shape

----------------------------------------------------------------------------
(* The invariant, and what it gives                                        *)

\* Every step keeps the invariant.
LEMMA InvarianceStep ==
  ASSUME HeapInv, [Next]_vars
  PROVE  HeapInv'
<1>1. PICK t, o, g : Shape(t, o, g)
  BY DEF HeapInv
<1> SUFFICES \E z, p, d : Shape(z, p, d)'
  BY DEF HeapInv
<1>2. CASE UNCHANGED vars
  BY <1>1, <1>2, StutterStep
<1>3. CASE PairNext
  BY <1>1, <1>3, PairStep
<1>4. CASE PairsDone
  BY <1>1, <1>4, PairsDoneStep
<1>5. CASE FoldNext
  BY <1>1, <1>5, FoldStep
<1>6. CASE PopReturns
  BY <1>1, <1>6, PopReturnsStep
<1>7. CASE Flatten
  BY <1>1, <1>7, FlattenStep
<1>8. CASE Delete
  BY <1>1, <1>8, DeleteStep
<1>9. CASE ClearReturns
  BY <1>1, <1>9, ClearReturnsStep
<1>10. ASSUME NEW h \in Heaps, Pop(h)
       PROVE  \E z, p, d : Shape(z, p, d)'
  BY <1>1, <1>10, PopStep
<1>11. ASSUME NEW h \in Heaps, NEW v \in Values, Emplace(h, v)
       PROVE  \E z, p, d : Shape(z, p, d)'
  BY <1>1, <1>11, EmplaceStep
<1>12. ASSUME NEW h \in Heaps, NEW v \in Values, NEW n \in Nodes, IncreasePriority(h, n, v)
       PROVE  \E z, p, d : Shape(z, p, d)'
  BY <1>1, <1>12, IncreaseStep
<1>13. ASSUME NEW h \in Heaps, NEW j \in Heaps, Meld(h, j)
       PROVE  \E z, p, d : Shape(z, p, d)'
  BY <1>1, <1>13, MeldStep
<1>14. ASSUME NEW h \in Heaps, NEW j \in Heaps, Swap(h, j)
       PROVE  \E z, p, d : Shape(z, p, d)'
  BY <1>1, <1>14, SwapStep
<1>15. ASSUME NEW h \in Heaps, NEW j \in Heaps, Clear(h, j)
       PROVE  \E z, p, d : Shape(z, p, d)'
  BY <1>1, <1>15, ClearStep
<1> QED BY <1>2, <1>3, <1>4, <1>5, <1>6, <1>7, <1>8, <1>9, <1>10, <1>11, <1>12, <1>13,
           <1>14, <1>15 DEF Next, Loop

\* Behind every state of the heaps, in the middle of pop() and of clear() too, there
\* is a forest of sorted trees whose heads are the roots and the loop's variables.
THEOREM HeapInvariance == Spec => []HeapInv
<1>1. Init => HeapInv
  BY InitShape DEF HeapInv
<1>2. HeapInv /\ [Next]_vars => HeapInv'
  BY InvarianceStep
<1> QED BY <1>1, <1>2, PTL DEF Spec

\* What the invariant says of the nodes and the trees, in every phase.
LEMMA ShapeSeen ==
  ASSUME NEW t, NEW o, NEW g, Shape(t, o, g)
  PROVE  /\ Types /\ Linked(t, live, o, g) /\ Sorted(t, live) /\ live \subseteq Nodes
         /\ Null \notin live
         /\ \A n \in live : node[n].value = t[n].value /\ node[n].parent = t[n].parent
         /\ PointersIn(node, live)
<1>1. Types /\ Linked(t, live, o, g) /\ Sorted(t, live)
  BY DEF Shape
<1>2. live \subseteq Nodes /\ Null \notin live /\ PointersIn(t, live)
  BY <1>1, Around DEF Linked
<1>3. CASE op \in {"idle", "fold"}
  <2>1. node = t
    BY <1>3 DEF Shape, InPhase
  <2> QED BY <1>1, <1>2, <2>1
<1>4. CASE op = "pair"
  <2>1. Seen(node, t, root[target], cursor, live)
    BY <1>4 DEF Shape, InPhase
  <2>2. ASSUME NEW n \in live
        PROVE  /\ node[n].value = t[n].value /\ node[n].parent = t[n].parent
               /\ node[n].next = t[n].next /\ node[n].child \in {Null, t[n].child}
               /\ node[n].prev \in live \cup {Null}
    BY <1>2, <2>1 DEF Seen
  <2> QED BY <1>1, <1>2, <2>2 DEF PointersIn
<1>5. CASE op = "destroy"
  <2>1. Unbacked(t)
    BY <1>5 DEF Shape, InPhase
  <2>2. PointersIn(node, live)
    BY <1>2, <2>1 DEF Unbacked, PointersIn
  <2> QED BY <1>1, <1>2, <2>1, <2>2 DEF Unbacked
<1> QED BY <1>1, <1>3, <1>4, <1>5 DEF Types

\* Outside the heap at work the trees are whole.
LEMMA WholeTrees ==
  ASSUME NEW t, NEW o, NEW g, Shape(t, o, g), NEW h \in Heaps, op = "idle" \/ h # target
  PROVE  TreeOf(root[h]) = Of(o, h)
<1>1. /\ Linked(t, live, o, g) /\ Null \notin live
      /\ \A n \in live : node[n].parent = t[n].parent
  BY ShapeSeen
<1>2. ~ Cleared(h)
  BY DEF Cleared
<1>3. root[h] # Null => root[h] \in live /\ o[root[h]] = h /\ Alone(t, root[h])
  BY <1>2 DEF Shape, RootsOf
<1>4. ASSUME NEW n \in live, o[n] = h, Head(t, n)
      PROVE  n = root[h]
  <2>1. op \in {"idle", "pair", "fold", "destroy"}
    BY DEF Shape, Types
  <2>2. n # Null
    BY <1>1
  <2>3. CASE op = "idle"
    BY <1>2, <1>4, <2>3 DEF Shape, HeadsOf
  <2>4. CASE op = "pair"
    BY <1>2, <1>4, <2>2, <2>4 DEF Shape, HeadsOf, InPhase
  <2>5. CASE op = "fold"
    BY <1>2, <1>4, <2>2, <2>5 DEF Shape, HeadsOf, InPhase
  <2>6. CASE op = "destroy"
    BY <1>2, <1>4, <2>2, <2>6 DEF Shape, HeadsOf, InPhase
  <2> QED BY <2>1, <2>3, <2>4, <2>5, <2>6
<1>5. \A n \in live : o[n] = h /\ Head(t, n) => t[n].next = Null
  BY <1>1, <1>3, <1>4 DEF Alone
<1>6. \A n \in live : o[n] = h /\ t[n].parent = Null => n = root[h]
  BY <1>1, <1>4, <1>5, NoSiblings
<1> QED BY <1>1, <1>3, <1>6, TreeIs

\* What a heap holds is what belongs to it, and nothing once it is cleared.
LEMMA HoldsIs ==
  ASSUME NEW t, NEW o, NEW g, Shape(t, o, g), NEW h \in Heaps
  PROVE  Holds(h) = IF Cleared(h) THEN {} ELSE Of(o, h)
<1>1. CASE op = "idle" \/ h # target
  <2>1. Holds(h) = TreeOf(root[h]) /\ ~ Cleared(h)
    BY <1>1 DEF Holds, Idle, Cleared
  <2> QED BY <1>1, <2>1, WholeTrees
<1>2. CASE op = "destroy" /\ h = target
  BY <1>2 DEF Holds, Idle, Cleared
<1>3. CASE op # "idle" /\ op # "destroy" /\ h = target
  <2>1. Holds(h) = live \ UNION {TreeOf(root[k]) : k \in Heaps \ {h}} /\ ~ Cleared(h)
    BY <1>3 DEF Holds, Idle, Cleared
  <2>2. \A k \in Heaps \ {h} : TreeOf(root[k]) = Of(o, k)
    BY <1>3, WholeTrees
  <2>3. \A n \in live : o[n] \in Heaps
    BY ShapeSeen DEF Linked
  <2>4. UNION {TreeOf(root[k]) : k \in Heaps \ {h}} = {n \in live : o[n] # h}
    BY <2>2, <2>3 DEF Of
  <2>5. Holds(h) = Of(o, h)
    BY <2>1, <2>4 DEF Of
  <2> QED BY <2>1, <2>5
<1> QED BY <1>1, <1>2, <1>3

\* The properties follow from the invariant.
LEMMA InvGives ==
  ASSUME HeapInv
  PROVE  TypeOK /\ WellLinked /\ HeapOrder /\ NoLeak
<1>1. PICK t, o, g : Shape(t, o, g)
  BY DEF HeapInv
<1>2. /\ Types /\ Linked(t, live, o, g) /\ Sorted(t, live) /\ live \subseteq Nodes
      /\ Null \notin live
      /\ \A n \in live : node[n].value = t[n].value /\ node[n].parent = t[n].parent
      /\ PointersIn(node, live)
  BY <1>1, ShapeSeen
<1>3. TypeOK
  BY <1>2 DEF TypeOK, Types, Store, PointersIn
<1>4. HeapOrder
  BY <1>2 DEF HeapOrder, Sorted, Linked, PointersIn
<1>5. CASE op # "idle"
  BY <1>3, <1>4, <1>5 DEF WellLinked, NoLeak, Idle
<1>6. CASE op = "idle"
  <2>1. /\ Linked(node, live, o, g) /\ Forest(node, live, o, root, Null)
        /\ \A k \in Heaps : size[k] = Cardinality(Of(o, k))
    BY <1>1, <1>6, IdleShape
  <2>2. WellLinked
    BY <2>1 DEF WellLinked, Linked, Mutual, Forest, Alone, Head
  <2>3. \A h \in Heaps : TreeOf(root[h]) = Of(o, h)
    BY <1>1, <1>6, IdleTrees
  <2>4. \A n \in live : o[n] \in Heaps
    BY <1>2 DEF Linked
  <2>5. live = UNION {TreeOf(root[h]) : h \in Heaps}
    BY <2>3, <2>4 DEF Of
  <2>6. NoLeak
    BY <2>1, <2>3, <2>5 DEF NoLeak
  <2> QED BY <1>3, <1>4, <2>2, <2>6
<1> QED BY <1>5, <1>6

\* For any values, heaps and number of nodes: no pointer in use leads to a
\* deleted node.
THEOREM PointersAreLive == Spec => []TypeOK
BY HeapInvariance, InvGives, PTL

\* Between calls the pointers of neighbours agree.
THEOREM LinksAgree == Spec => []WellLinked
BY HeapInvariance, InvGives, PTL

\* No child is above its parent, in the middle of a combination too.
THEOREM OrderKept == Spec => []HeapOrder
BY HeapInvariance, InvGives, PTL

\* Every allocated node hangs from one root, and the sizes count them.
THEOREM NothingLeaks == Spec => []NoLeak
BY HeapInvariance, InvGives, PTL

----------------------------------------------------------------------------
(* The promise of a priority queue                                         *)

\* The entries of a heap by the owners of its nodes, and as PriorityQueue has them.
Entry(n) == [handle |-> n, value |-> node[n].value]
Kept(o, h) == IF Cleared(h) THEN {} ELSE {Entry(n) : n \in Of(o, h)}
Bar == [h \in Heaps |-> {[handle |-> n, value |-> node[n].value] : n \in Holds(h)}]

\* The two agree.
LEMMA BarIs == \A t, o, g : Shape(t, o, g) => Bar = [h \in Heaps |-> Kept(o, h)]
<1> SUFFICES ASSUME NEW t, NEW o, NEW g, Shape(t, o, g)
             PROVE  Bar = [h \in Heaps |-> Kept(o, h)]
  OBVIOUS
<1>1. \A h \in Heaps : Holds(h) = IF Cleared(h) THEN {} ELSE Of(o, h)
  BY HoldsIs
<1>2. \A h \in Heaps : {[handle |-> n, value |-> node[n].value] : n \in Holds(h)} = Kept(o, h)
  BY <1>1 DEF Kept, Entry
<1> QED BY <1>2 DEF Bar

\* They agree after a step.
LEMMA BarNext == (\A t, o, g : Shape(t, o, g) => Bar = [h \in Heaps |-> Kept(o, h)])'
BY BarIs, PTL

\* What is enough for a call on the queues.
LEMMA NextIs ==
  ASSUME \E h \in Heaps :
           \/ /\ \A g \in Heaps \ {h} : Bar'[g] = Bar[g]
              /\ \/ \E e \in Bar'[h] :
                      /\ Bar[h] = Bar'[h] \ {e}
                      /\ e.handle \notin {f.handle : f \in UNION {Bar[g] : g \in Heaps}}
                 \/ \E e \in Bar[h] : /\ Bar'[h] = Bar[h] \ {e}
                                      /\ \A f \in Bar[h] : f.value <= e.value
                 \/ \E e \in Bar[h], f \in Bar'[h] :
                      /\ Bar[h] \ {e} = Bar'[h] \ {f}
                      /\ e.handle = f.handle /\ e.value <= f.value
                 \/ Bar'[h] = {}
           \/ \E g \in Heaps :
                /\ h # g
                /\ \/ Bar'[h] = Bar[h] \cup Bar[g] /\ Bar'[g] = {}
                   \/ Bar'[h] = Bar[g] /\ Bar'[g] = Bar[h]
                /\ \A k \in Heaps \ {h, g} : Bar'[k] = Bar[k]
  PROVE  Promise!Next
BY DEF Bar, Promise!Next, Promise!CallOn, Promise!CallOnBoth, Promise!Insert, Promise!RemoveTop,
       Promise!Raise, Promise!Clear, Promise!Meld, Promise!Swap, Promise!HandlesOf

\* The entries before and after a step, by the owners o and p of the nodes.
LEMMA BarBoth ==
  ASSUME NEW t, NEW o, NEW g, Shape(t, o, g), NEW z, NEW p, NEW d, Shape(z, p, d)'
  PROVE  \A h \in Heaps :
           /\ op = "destroy" /\ h = target => Bar[h] = {}
           /\ op # "destroy" \/ h # target =>
                Bar[h] = {[handle |-> n, value |-> node[n].value] : n \in {m \in live : o[m] = h}}
           /\ op' = "destroy" /\ h = target' => Bar'[h] = {}
           /\ op' # "destroy" \/ h # target' =>
                Bar'[h] = {[handle |-> n, value |-> node'[n].value] :
                             n \in {m \in live' : p[m] = h}}
<1>1. Bar = [h \in Heaps |-> Kept(o, h)]
  BY BarIs
<1>2. Bar' = [h \in Heaps |-> Kept(p, h)']
  BY BarNext
<1> HIDE DEF Bar
<1> QED BY <1>1, <1>2 DEF Kept, Entry, Of, Cleared

\* The entries are a function on the heaps.
LEMMA BarDomain == Bar = [h \in Heaps |-> Bar[h]] /\ Bar' = [h \in Heaps |-> Bar'[h]]
BY DEF Bar

\* A step inside a loop is none of the queue's.
LEMMA BarSame ==
  ASSUME NEW t, NEW o, NEW g, Shape(t, o, g), \E z, d : Shape(z, o, d)',
         \A m \in live' : node'[m].value = node[m].value,
         \/ live' = live /\ op # "destroy" /\ op' # "destroy"
         \/ /\ op = "destroy" /\ op' = "destroy" /\ target' = target
            /\ live' = live \/ \E c : live' = live \ {c} /\ o[c] = target
  PROVE  Bar' = Bar
<1>1. PICK z, d : Shape(z, o, d)'
  OBVIOUS
<1>2. ASSUME NEW h \in Heaps
      PROVE  Bar'[h] = Bar[h]
  <2>1. /\ op = "destroy" /\ h = target => Bar[h] = {}
        /\ op # "destroy" \/ h # target =>
             Bar[h] = {[handle |-> n, value |-> node[n].value] : n \in {m \in live : o[m] = h}}
        /\ op' = "destroy" /\ h = target' => Bar'[h] = {}
        /\ op' # "destroy" \/ h # target' =>
             Bar'[h] = {[handle |-> n, value |-> node'[n].value] :
                          n \in {m \in live' : o[m] = h}}
    BY <1>1, BarBoth
  <2> HIDE DEF Bar
  <2>2. CASE op = "destroy" /\ h = target
    BY <2>1, <2>2
  <2>3. CASE ~ (op = "destroy" /\ h = target)
    <3>1. {m \in live' : o[m] = h} = {m \in live : o[m] = h}
      BY <2>3
    <3>2. \A n \in {m \in live : o[m] = h} : node'[n].value = node[n].value
      BY <3>1
    <3> DEFINE S == {m \in live : o[m] = h}
    <3>3. /\ Bar[h] = {[handle |-> n, value |-> node[n].value] : n \in S}
          /\ Bar'[h] = {[handle |-> n, value |-> node'[n].value] : n \in S}
      BY <2>1, <2>3, <3>1
    <3> HIDE DEF S
    <3> QED BY <3>2, <3>3 DEF S
  <2> QED BY <2>2, <2>3
<1> QED BY <1>2, BarDomain

\* emplace() is Insert, with a handle no entry has.
LEMMA EmplaceKeepsPromise ==
  ASSUME NEW t, NEW o, NEW g, Shape(t, o, g), NEW h \in Heaps, NEW v \in Values, Emplace(h, v)
  PROVE  Promise!Next
<1>1. op = "idle" /\ op' = "idle"
  BY DEF Emplace, Idle
<1>2. PICK n \in Nodes \ live :
        /\ live' = live \cup {n} /\ node'[n].value = v
        /\ \A m \in live : node'[m].value = node[m].value
        /\ \E z, d : Shape(z, [o EXCEPT ![n] = h], d)'
  BY EmplaceStep
<1>3. PICK p : p = [o EXCEPT ![n] = h]
  OBVIOUS
<1>4. PICK z, d : Shape(z, p, d)'
  BY <1>2, <1>3
<1>5. o \in [Nodes -> Heaps] /\ live \subseteq Nodes
  BY ShapeSeen DEF Linked
<1>6. p[n] = h /\ \A m \in live : p[m] = o[m]
  BY <1>2, <1>3, <1>5
<1>7. \A k \in Heaps :
        /\ Bar[k] = {[handle |-> i, value |-> node[i].value] : i \in {m \in live : o[m] = k}}
        /\ Bar'[k] = {[handle |-> i, value |-> node'[i].value] : i \in {m \in live' : p[m] = k}}
  BY <1>1, <1>4, BarBoth
<1> DEFINE e == [handle |-> n, value |-> v]
<1> HIDE DEF Bar
<1>8. \A k \in Heaps : \A i \in {m \in live : o[m] = k} : node'[i].value = node[i].value
  BY <1>2
<1>9. {m \in live' : p[m] = h} = {m \in live : o[m] = h} \cup {n}
  BY <1>2, <1>6
<1>10. Bar'[h] = Bar[h] \cup {e}
  <2> DEFINE S == {m \in live : o[m] = h}
  <2>1. /\ Bar[h] = {[handle |-> i, value |-> node[i].value] : i \in S}
        /\ Bar'[h] = {[handle |-> i, value |-> node'[i].value] : i \in S \cup {n}}
    BY <1>7, <1>9
  <2>2. \A i \in S : node'[i].value = node[i].value
    BY <1>8
  <2> HIDE DEF S
  <2> QED BY <1>2, <2>1, <2>2
<1>11. \A k \in Heaps \ {h} : Bar'[k] = Bar[k]
  <2> TAKE k \in Heaps \ {h}
  <2> DEFINE S == {m \in live : o[m] = k}
  <2>1. {m \in live' : p[m] = k} = S
    BY <1>2, <1>6
  <2>2. /\ Bar[k] = {[handle |-> i, value |-> node[i].value] : i \in S}
        /\ Bar'[k] = {[handle |-> i, value |-> node'[i].value] : i \in S}
    BY <1>7, <2>1
  <2>3. \A i \in S : node'[i].value = node[i].value
    BY <1>8
  <2> HIDE DEF S
  <2> QED BY <2>2, <2>3
<1>12. \A k \in Heaps : \A f \in Bar[k] : f.handle \in live
  BY <1>7
<1>13. n \notin live
  BY <1>2
<1>14. e \in Bar'[h] /\ Bar[h] = Bar'[h] \ {e}
       /\ e.handle \notin {f.handle : f \in UNION {Bar[k] : k \in Heaps}}
  BY <1>10, <1>12, <1>13
<1> HIDE DEF e
<1> QED BY <1>11, <1>14, NextIs

\* increase_priority() is Raise, of the same handle.
LEMMA IncreaseKeepsPromise ==
  ASSUME NEW t, NEW o, NEW g, Shape(t, o, g), NEW h \in Heaps, NEW n \in Nodes, NEW v \in Values,
         IncreasePriority(h, n, v)
  PROVE  Promise!Next
<1>1. op = "idle" /\ op' = "idle"
  BY DEF IncreasePriority, Idle
<1>2. /\ live' = live
      /\ n \in live /\ o[n] = h /\ node'[n].value = v /\ node[n].value <= v
      /\ \A m \in live \ {n} : node'[m].value = node[m].value
      /\ \E z, d : Shape(z, o, d)'
  BY IncreaseStep
<1>3. PICK z, d : Shape(z, o, d)'
  BY <1>2
<1>4. \A k \in Heaps :
        /\ Bar[k] = {[handle |-> i, value |-> node[i].value] : i \in {m \in live : o[m] = k}}
        /\ Bar'[k] = {[handle |-> i, value |-> node'[i].value] : i \in {m \in live : o[m] = k}}
  BY <1>1, <1>2, <1>3, BarBoth
<1> DEFINE e == [handle |-> n, value |-> node[n].value]
           f == [handle |-> n, value |-> v]
<1> HIDE DEF Bar
<1>5. e \in Bar[h] /\ f \in Bar'[h] /\ e.handle = f.handle /\ e.value <= f.value
  BY <1>2, <1>4
<1>6. Bar[h] \ {e} = Bar'[h] \ {f}
  <2> DEFINE S == {m \in live : o[m] = h} \ {n}
  <2>1. Bar[h] \ {e} = {[handle |-> i, value |-> node[i].value] : i \in S}
    BY <1>4
  <2>2. Bar'[h] \ {f} = {[handle |-> i, value |-> node'[i].value] : i \in S}
    BY <1>2, <1>4
  <2>3. \A i \in S : node'[i].value = node[i].value
    BY <1>2
  <2> HIDE DEF S, e, f
  <2> QED BY <2>1, <2>2, <2>3
<1>7. \A k \in Heaps \ {h} : Bar'[k] = Bar[k]
  <2> TAKE k \in Heaps \ {h}
  <2> DEFINE S == {m \in live : o[m] = k}
  <2>1. /\ Bar[k] = {[handle |-> i, value |-> node[i].value] : i \in S}
        /\ Bar'[k] = {[handle |-> i, value |-> node'[i].value] : i \in S}
    BY <1>4
  <2>2. \A i \in S : node'[i].value = node[i].value
    BY <1>2
  <2> HIDE DEF S
  <2> QED BY <2>1, <2>2
<1> HIDE DEF e, f
<1> QED BY <1>5, <1>6, <1>7, NextIs

\* meld() is Meld.
LEMMA MeldKeepsPromise ==
  ASSUME NEW t, NEW o, NEW g, Shape(t, o, g), NEW h \in Heaps, NEW j \in Heaps, Meld(h, j)
  PROVE  Promise!Next
<1>1. op = "idle" /\ op' = "idle"
  BY DEF Meld, Idle
<1>2. /\ h # j /\ live' = live
      /\ \A m \in live : node'[m].value = node[m].value
      /\ \E z, d : Shape(z, [n \in Nodes |-> IF o[n] = j THEN h ELSE o[n]], d)'
  BY MeldStep
<1>3. PICK p : p = [n \in Nodes |-> IF o[n] = j THEN h ELSE o[n]]
  OBVIOUS
<1>4. PICK z, d : Shape(z, p, d)'
  BY <1>2, <1>3
<1>5. live \subseteq Nodes
  BY ShapeSeen
<1>6. \A m \in live : p[m] = IF o[m] = j THEN h ELSE o[m]
  BY <1>3, <1>5
<1>7. \A k \in Heaps :
        /\ Bar[k] = {[handle |-> i, value |-> node[i].value] : i \in {m \in live : o[m] = k}}
        /\ Bar'[k] = {[handle |-> i, value |-> node'[i].value] : i \in {m \in live : p[m] = k}}
  BY <1>1, <1>2, <1>4, BarBoth
<1> HIDE DEF Bar
<1>8. \A k \in Heaps :
        Bar'[k] = {[handle |-> i, value |-> node[i].value] : i \in {m \in live : p[m] = k}}
  <2> TAKE k \in Heaps
  <2> DEFINE S == {m \in live : p[m] = k}
  <2>1. Bar'[k] = {[handle |-> i, value |-> node'[i].value] : i \in S}
    BY <1>7
  <2>2. \A i \in S : node'[i].value = node[i].value
    BY <1>2
  <2> HIDE DEF S
  <2>3. Bar'[k] = {[handle |-> i, value |-> node[i].value] : i \in S}
    BY <2>1, <2>2
  <2> QED BY <2>3 DEF S
<1>9. Bar'[h] = Bar[h] \cup Bar[j]
  <2>1. {m \in live : p[m] = h} = {m \in live : o[m] = h} \cup {m \in live : o[m] = j}
    BY <1>6
  <2> QED BY <1>7, <1>8, <2>1
<1>10. Bar'[j] = {}
  <2>1. {m \in live : p[m] = j} = {}
    BY <1>2, <1>6
  <2> QED BY <1>8, <2>1
<1>11. \A k \in Heaps \ {h, j} : Bar'[k] = Bar[k]
  <2> TAKE k \in Heaps \ {h, j}
  <2>1. {m \in live : p[m] = k} = {m \in live : o[m] = k}
    BY <1>6
  <2> QED BY <1>7, <1>8, <2>1
<1> QED BY <1>2, <1>9, <1>10, <1>11, NextIs

\* swap() is Swap.
LEMMA SwapKeepsPromise ==
  ASSUME NEW t, NEW o, NEW g, Shape(t, o, g), NEW h \in Heaps, NEW j \in Heaps, Swap(h, j)
  PROVE  Promise!Next
<1>1. op = "idle" /\ op' = "idle"
  BY DEF Swap, Idle
<1>2. /\ h # j /\ live' = live /\ node' = node
      /\ \E z, d : Shape(z, [n \in Nodes |-> IF o[n] = j THEN h
                                             ELSE IF o[n] = h THEN j ELSE o[n]], d)'
  BY SwapStep
<1>3. PICK p : p = [n \in Nodes |-> IF o[n] = j THEN h ELSE IF o[n] = h THEN j ELSE o[n]]
  OBVIOUS
<1>4. PICK z, d : Shape(z, p, d)'
  BY <1>2, <1>3
<1>5. live \subseteq Nodes
  BY ShapeSeen
<1>6. \A m \in live : p[m] = IF o[m] = j THEN h ELSE IF o[m] = h THEN j ELSE o[m]
  BY <1>3, <1>5
<1>7. \A k \in Heaps :
        /\ Bar[k] = {[handle |-> i, value |-> node[i].value] : i \in {m \in live : o[m] = k}}
        /\ Bar'[k] = {[handle |-> i, value |-> node[i].value] : i \in {m \in live : p[m] = k}}
  BY <1>1, <1>2, <1>4, BarBoth
<1> HIDE DEF Bar
<1>8. Bar'[h] = Bar[j] /\ Bar'[j] = Bar[h]
  <2>1. /\ {m \in live : p[m] = h} = {m \in live : o[m] = j}
        /\ {m \in live : p[m] = j} = {m \in live : o[m] = h}
    BY <1>2, <1>6
  <2> QED BY <1>7, <2>1
<1>9. \A k \in Heaps \ {h, j} : Bar'[k] = Bar[k]
  <2> TAKE k \in Heaps \ {h, j}
  <2>1. {m \in live : p[m] = k} = {m \in live : o[m] = k}
    BY <1>6
  <2> QED BY <1>7, <2>1
<1> QED BY <1>2, <1>8, <1>9, NextIs

\* The end of pop() is RemoveTop: the root it deletes is a greatest entry.
LEMMA PopKeepsPromise ==
  ASSUME NEW t, NEW o, NEW g, Shape(t, o, g), PopReturns
  PROVE  Promise!Next
<1> DEFINE T == root[target]
<1>1. /\ live' = live \ {T} /\ T \in live /\ o[T] = target
      /\ op = "fold" /\ op' = "idle"
      /\ \A n \in live : o[n] = target => node[n].value <= node[T].value
      /\ \A m \in live' : node'[m].value = node[m].value
      /\ \E z, d : Shape(z, o, d)'
  BY PopReturnsStep
<1>2. target \in Heaps
  BY ShapeSeen DEF Types
<1>3. PICK z, d : Shape(z, o, d)'
  BY <1>1
<1>4. \A k \in Heaps :
        /\ Bar[k] = {[handle |-> i, value |-> node[i].value] : i \in {m \in live : o[m] = k}}
        /\ Bar'[k] = {[handle |-> i, value |-> node'[i].value] : i \in {m \in live' : o[m] = k}}
  BY <1>1, <1>3, BarBoth
<1> HIDE DEF Bar, T
<1>5. \A k \in Heaps :
        Bar'[k] = {[handle |-> i, value |-> node[i].value] : i \in {m \in live' : o[m] = k}}
  <2> TAKE k \in Heaps
  <2> DEFINE S == {m \in live' : o[m] = k}
  <2>1. Bar'[k] = {[handle |-> i, value |-> node'[i].value] : i \in S}
    BY <1>4
  <2>2. \A i \in S : node'[i].value = node[i].value
    BY <1>1
  <2> HIDE DEF S
  <2>3. Bar'[k] = {[handle |-> i, value |-> node[i].value] : i \in S}
    BY <2>1, <2>2
  <2> QED BY <2>3 DEF S
<1> DEFINE e == [handle |-> T, value |-> node[T].value]
<1>6. e \in Bar[target] /\ Bar'[target] = Bar[target] \ {e}
  BY <1>1, <1>2, <1>4, <1>5
<1>7. \A f \in Bar[target] : f.value <= e.value
  BY <1>1, <1>2, <1>4
<1>8. \A k \in Heaps \ {target} : Bar'[k] = Bar[k]
  <2> TAKE k \in Heaps \ {target}
  <2>1. {m \in live' : o[m] = k} = {m \in live : o[m] = k}
    BY <1>1
  <2> QED BY <1>4, <1>5, <2>1
<1> HIDE DEF e
<1> QED BY <1>2, <1>6, <1>7, <1>8, NextIs

\* The beginning of clear() is Clear.
LEMMA ClearKeepsPromise ==
  ASSUME NEW t, NEW o, NEW g, Shape(t, o, g), NEW h \in Heaps, NEW j \in Heaps, Clear(h, j)
  PROVE  Promise!Next
<1>1. /\ live' = live /\ node' = node /\ op = "idle" /\ op' = "destroy" /\ target' = h
      /\ \E z, d : Shape(z, o, d)'
  BY ClearStep DEF Clear, Idle
<1>2. PICK z, d : Shape(z, o, d)'
  BY <1>1
<1>3. \A k \in Heaps :
        /\ Bar[k] = {[handle |-> i, value |-> node[i].value] : i \in {m \in live : o[m] = k}}
        /\ k = h => Bar'[k] = {}
        /\ k # h => Bar'[k] = {[handle |-> i, value |-> node[i].value] :
                                 i \in {m \in live : o[m] = k}}
  BY <1>1, <1>2, BarBoth
<1> HIDE DEF Bar
<1>4. Bar'[h] = {} /\ \A k \in Heaps \ {h} : Bar'[k] = Bar[k]
  BY <1>3
<1> QED BY <1>4, NextIs

\* The end of a move is Meld with the cleared heap; the end of clear() is nothing.
LEMMA ClearReturnsKeepsPromise ==
  ASSUME NEW t, NEW o, NEW g, Shape(t, o, g), ClearReturns
  PROVE  Promise!Next \/ Bar' = Bar
<1>1. /\ live' = live /\ node' = node /\ op = "destroy" /\ op' = "idle" /\ target' = target
      /\ \A n \in live : o[n] # target
  BY ClearReturnsStep
<1>2. target \in Heaps /\ source \in Heaps /\ live \subseteq Nodes
  BY ShapeSeen DEF Types
<1>3. PICK p : /\ p = [n \in Nodes |-> IF o[n] = source THEN target ELSE o[n]]
               /\ \E z, d : Shape(z, p, d)'
  BY ClearReturnsStep
<1>4. PICK z, d : Shape(z, p, d)'
  BY <1>3
<1>5. \A m \in live : p[m] = IF o[m] = source THEN target ELSE o[m]
  BY <1>2, <1>3
<1>6. \A k \in Heaps :
        /\ k = target => Bar[k] = {}
        /\ k # target => Bar[k] = {[handle |-> i, value |-> node[i].value] :
                                     i \in {m \in live : o[m] = k}}
        /\ Bar'[k] = {[handle |-> i, value |-> node[i].value] : i \in {m \in live : p[m] = k}}
  BY <1>1, <1>4, BarBoth
<1> HIDE DEF Bar
<1>7. CASE source = target
  <2>1. ASSUME NEW k \in Heaps
        PROVE  Bar'[k] = Bar[k]
    <3>1. {m \in live : p[m] = k} = {m \in live : o[m] = k}
      BY <1>5, <1>7
    <3>2. CASE k = target
      <4>1. {m \in live : p[m] = k} = {}
        BY <1>1, <3>1, <3>2
      <4> QED BY <1>6, <3>2, <4>1
    <3>3. CASE k # target
      BY <1>6, <3>1, <3>3
    <3> QED BY <3>2, <3>3
  <2> QED BY <2>1, BarDomain
<1>8. CASE source # target
  <2>1. Bar[target] = {} /\ Bar'[target] = Bar[target] \cup Bar[source]
    <3>1. {m \in live : p[m] = target} = {m \in live : o[m] = source}
      BY <1>1, <1>5
    <3> QED BY <1>2, <1>6, <1>8, <3>1
  <2>2. Bar'[source] = {}
    <3>1. {m \in live : p[m] = source} = {}
      BY <1>5, <1>8
    <3> QED BY <1>2, <1>6, <3>1
  <2>3. \A k \in Heaps \ {target, source} : Bar'[k] = Bar[k]
    <3> TAKE k \in Heaps \ {target, source}
    <3>1. {m \in live : p[m] = k} = {m \in live : o[m] = k}
      BY <1>5
    <3> QED BY <1>6, <3>1
  <2> QED BY <1>2, <1>8, <2>1, <2>2, <2>3, NextIs
<1> QED BY <1>7, <1>8

\* Every step of the heaps is a call on the queues or leaves them as they are.
LEMMA StepKeepsPromise ==
  ASSUME HeapInv, [Next]_vars
  PROVE  Promise!Next \/ Bar' = Bar
<1>1. PICK t, o, g : Shape(t, o, g)
  BY DEF HeapInv
<1>2. CASE UNCHANGED vars
  BY <1>2 DEF Bar, Holds, TreeOf, HoldsChildren, Idle, vars
<1>3. CASE PairNext
  <2>1. op = "pair"
    BY <1>3 DEF PairNext
  <2> QED BY <1>1, <1>3, <2>1, PairStep, BarSame
<1>4. CASE PairsDone
  <2>1. op = "pair"
    BY <1>4 DEF PairsDone
  <2> QED BY <1>1, <1>4, <2>1, PairsDoneStep, BarSame
<1>5. CASE FoldNext
  <2>1. op = "fold"
    BY <1>5 DEF FoldNext
  <2> QED BY <1>1, <1>5, <2>1, FoldStep, BarSame
<1>6. CASE PopReturns
  BY <1>1, <1>6, PopKeepsPromise
<1>7. CASE Flatten
  BY <1>1, <1>7, FlattenStep, BarSame
<1>8. CASE Delete
  BY <1>1, <1>8, DeleteStep, BarSame
<1>9. CASE ClearReturns
  BY <1>1, <1>9, ClearReturnsKeepsPromise
<1>10. ASSUME NEW h \in Heaps, Pop(h)
       PROVE  Bar' = Bar
  <2>1. op = "idle"
    BY <1>10 DEF Pop, Idle
  <2> QED BY <1>1, <1>10, <2>1, PopStep, BarSame
<1>11. ASSUME NEW h \in Heaps, NEW v \in Values, Emplace(h, v)
       PROVE  Promise!Next
  BY <1>1, <1>11, EmplaceKeepsPromise
<1>12. ASSUME NEW h \in Heaps, NEW v \in Values, NEW n \in Nodes, IncreasePriority(h, n, v)
       PROVE  Promise!Next
  BY <1>1, <1>12, IncreaseKeepsPromise
<1>13. ASSUME NEW h \in Heaps, NEW j \in Heaps, Meld(h, j)
       PROVE  Promise!Next
  BY <1>1, <1>13, MeldKeepsPromise
<1>14. ASSUME NEW h \in Heaps, NEW j \in Heaps, Swap(h, j)
       PROVE  Promise!Next
  BY <1>1, <1>14, SwapKeepsPromise
<1>15. ASSUME NEW h \in Heaps, NEW j \in Heaps, Clear(h, j)
       PROVE  Promise!Next
  BY <1>1, <1>15, ClearKeepsPromise
<1> HIDE DEF Bar
<1> QED BY <1>2, <1>3, <1>4, <1>5, <1>6, <1>7, <1>8, <1>9, <1>10, <1>11, <1>12, <1>13,
           <1>14, <1>15 DEF Next, Loop

\* The heaps are priority queues with stable handles: pop() removes a greatest
\* entry and only that one, and no call loses or moves an entry it is not about.
THEOREM HeapIsPriorityQueue == Spec => ImplementsPriorityQueue
<1>1. Init => Promise!Init
  BY FS_EmptySet DEF Init, Promise!Init, Holds, TreeOf, Idle
<1>2. HeapInv /\ [Next]_vars => Promise!Next \/ Bar' = Bar
  BY StepKeepsPromise
<1>3. HeapInv /\ [Next]_vars =>
        [Promise!Next]_([h \in Heaps |->
                           {[handle |-> n, value |-> node[n].value] : n \in Holds(h)}])
  BY <1>2 DEF Bar
<1> QED BY <1>1, <1>3, HeapInvariance, PTL DEF Spec, ImplementsPriorityQueue, Promise!Spec
==============================================================================
