----------------------------- MODULE PairingHeap -----------------------------
(***************************************************************************)
(* The scheduler's heap (include/yellowstone/collections/pairing_heap.inl) *)
(* with its nodes and pointers.  One thread makes one call at a time on    *)
(* the heaps; the calls with a loop, pop() and everything that clears,     *)
(* take one step per iteration.  A handle is the node it points to.        *)
(* m_compare is < : the greatest value is at the top.                      *)
(***************************************************************************)
EXTENDS Integers, FiniteSets

CONSTANTS
  MaxNodes,   (* bound on the nodes that live at once                      *)
  Values,     (* what the heaps hold                                       *)
  Heaps       (* the heap objects, which may be melded, moved and swapped  *)

ASSUME PairingHeapAssumption ==
  MaxNodes \in Nat \ {0} /\ Values \subseteq Int /\ Values # {} /\ Heaps # {}

Null == 0
Nodes == 1 .. MaxNodes
Pointers == Nodes \cup {Null}

VARIABLES
  node,     (* the fields of each node                                     *)
  live,     (* the nodes that are allocated                                *)
  root,     (* m_root of each heap                                         *)
  size,     (* m_size of each heap                                         *)
  op,       (* the loop the call in progress is in, or "idle"              *)
  target,   (* the heap it is called on                                    *)
  source,   (* the heap a move takes over when the loop is done, or target *)
  cursor,   (* `current` of the loop                                       *)
  paired,   (* paired_roots of combine_children                            *)
  result    (* `result` of combine_children                                *)

vars == <<node, live, root, size, op, target, source, cursor, paired, result>>

locals == <<target, source, cursor, paired, result>>

NewNode(v) ==
  [value |-> v, parent |-> Null, prev |-> Null, child |-> Null, next |-> Null]

Unused == [value |-> CHOOSE v \in Values : TRUE,
           parent |-> Null, prev |-> Null, child |-> Null, next |-> Null]

Init ==
  /\ node = [n \in Nodes |-> Unused] /\ live = {}
  /\ root = [h \in Heaps |-> Null] /\ size = [h \in Heaps |-> 0]
  /\ op = "idle" /\ target = (CHOOSE h \in Heaps : TRUE) /\ source = target
  /\ cursor = Null /\ paired = Null /\ result = Null

----------------------------------------------------------------------------
(* Pointer surgery on a store s of nodes                                   *)

\* s with prev of n set to p, when there is an n.
SetPrev(s, n, p) == IF n = Null THEN s ELSE [s EXCEPT ![n].prev = p]

\* The three links upwards and sideways are cleared.
Unlink(s, n) ==
  [s EXCEPT ![n] = [@ EXCEPT !.parent = Null, !.prev = Null, !.next = Null]]

\* meld_nodes: the root of the two trees; the other one becomes its first
\* child.  Seeded bug: the smaller value wins.
LowerOf(s, l, r) == IF s[l].value < s[r].value THEN l ELSE r
Winner(s, l, r) == IF s[l].value < s[r].value THEN r ELSE l

MeldRoot(s, l, r) ==
  IF l = Null THEN r ELSE IF r = Null THEN l ELSE Winner(s, l, r)

Adopt(s, top, sub) ==
  SetPrev([Unlink(s, top) EXCEPT
             ![top].child = sub,
             ![sub] = [@ EXCEPT !.parent = top, !.prev = Null, !.next = s[top].child]],
          s[top].child, sub)

MeldStore(s, l, r) ==
  IF l = Null \/ r = Null THEN s
  ELSE Adopt(s, Winner(s, l, r), IF Winner(s, l, r) = l THEN r ELSE l)

\* detach_from_parent.  Seeded bug: the next sibling keeps its way back.
SkipNext(s, n) ==
  IF s[n].prev # Null THEN [s EXCEPT ![s[n].prev].next = s[n].next]
                      ELSE [s EXCEPT ![s[n].parent].child = s[n].next]
Bypass(s, n) == SetPrev(SkipNext(s, n), s[n].next, s[n].prev)

Detach(s, n) == IF s[n].parent = Null THEN s ELSE Unlink(Bypass(s, n), n)

----------------------------------------------------------------------------
(* The calls without a loop                                                *)

Idle == op = "idle"

\* emplace() and push(); which free block `new` returns is of no consequence.
Emplace(h, v) ==
  /\ Idle /\ live # Nodes
  /\ LET n == CHOOSE m \in Nodes \ live : \A k \in Nodes \ live : m <= k
         s == [node EXCEPT ![n] = NewNode(v)]
     IN  /\ live' = live \cup {n}
         /\ node' = MeldStore(s, root[h], n)
         /\ root' = [root EXCEPT ![h] = MeldRoot(s, root[h], n)]
  /\ size' = [size EXCEPT ![h] = @ + 1]
  /\ UNCHANGED <<op, locals>>

Meld(h, g) ==
  /\ Idle /\ h # g /\ root[g] # Null
  /\ node' = MeldStore(node, root[h], root[g])
  /\ root' = [root EXCEPT ![h] = MeldRoot(node, root[h], root[g]), ![g] = Null]
  /\ size' = [size EXCEPT ![h] = @ + size[g], ![g] = 0]
  /\ UNCHANGED <<live, op, locals>>

Swap(h, g) ==
  /\ Idle /\ h # g
  /\ root' = [root EXCEPT ![h] = root[g], ![g] = root[h]]
  /\ size' = [size EXCEPT ![h] = size[g], ![g] = size[h]]
  /\ UNCHANGED <<node, live, op, locals>>

\* The tree below a node: what is in every set that holds it and, with a node,
\* that node's children.
HoldsChildren(S) == \A n \in live : node[n].parent \in S => n \in S
TreeOf(r) ==
  {n \in live : r # Null /\ \A S \in SUBSET live : r \in S /\ HoldsChildren(S) => n \in S}

\* The handle is of a node of the heap; a lower value throws.
IncreasePriority(h, n, v) ==
  /\ Idle /\ n \in TreeOf(root[h])
  /\ ~ (v < node[n].value)
  /\ LET s == [node EXCEPT ![n].value = v]
         p == node[n].parent
         moves == n # root[h] /\ p # Null /\ s[p].value < v
         d == Detach(s, n)
     IN  /\ node' = IF moves THEN MeldStore(d, root[h], n) ELSE s
         /\ root' = [root EXCEPT ![h] = IF moves THEN MeldRoot(d, @, n) ELSE @]
  /\ UNCHANGED <<live, size, op, locals>>

----------------------------------------------------------------------------
(* pop() and extract_top(): combine_children in two passes.                *)

Pop(h) ==
  /\ Idle /\ root[h] # Null
  /\ op' = "pair" /\ target' = h /\ source' = h
  /\ cursor' = node[root[h]].child /\ paired' = Null /\ result' = Null
  /\ node' = [node EXCEPT ![root[h]].child = Null]
  /\ UNCHANGED <<live, root, size>>

\* Seeded bug: an odd child at the end is dropped.
EvenOnly(first) == node[first].next # Null
AnyChild(first) == TRUE

\* First pass: two adjacent roots are melded and pushed on paired_roots.
PairNext ==
  /\ op = "pair" /\ cursor # Null
  /\ LET second == node[cursor].next
         s  == IF second = Null THEN Unlink(node, cursor)
                                ELSE Unlink(Unlink(node, cursor), second)
         merged == MeldRoot(s, cursor, second)
         melded == MeldStore(s, cursor, second)
         pushed == SetPrev([melded EXCEPT ![merged].next = paired], paired, merged)
     IN  /\ cursor' = IF second = Null THEN Null ELSE node[second].next
         /\ IF AnyChild(cursor) THEN node' = pushed /\ paired' = merged
                                ELSE node' = s /\ paired' = paired
  /\ UNCHANGED <<live, root, size, op, target, source, result>>

PairsDone ==
  /\ op = "pair" /\ cursor = Null
  /\ op' = "fold" /\ cursor' = paired
  /\ UNCHANGED <<node, live, root, size, target, source, paired, result>>

\* Second pass: the paired roots are melded into one.
FoldNext ==
  /\ op = "fold" /\ cursor # Null
  /\ LET next == node[cursor].next
         s == SetPrev(Unlink(node, cursor), next, Null)
     IN  /\ cursor' = next
         /\ node' = MeldStore(s, cursor, result)
         /\ result' = MeldRoot(s, cursor, result)
  /\ UNCHANGED <<live, root, size, op, target, source, paired>>

PopReturns ==
  /\ op = "fold" /\ cursor = Null
  /\ live' = live \ {root[target]}
  /\ node' = [node EXCEPT ![root[target]] = Unused]
  /\ root' = [root EXCEPT ![target] = result]
  /\ size' = [size EXCEPT ![target] = @ - 1]
  /\ op' = "idle" /\ paired' = Null /\ result' = Null
  /\ UNCHANGED <<target, source, cursor>>

----------------------------------------------------------------------------
(* clear(), the destructor, and the move operations, which clear first:    *)
(* destroy_tree flattens the child lists into the chain it walks.          *)

Clear(h, g) ==
  /\ Idle
  /\ op' = "destroy" /\ target' = h /\ source' = g /\ cursor' = root[h]
  /\ UNCHANGED <<node, live, root, size, paired, result>>

\* The links of the child that goes in front of the chain.  Seeded bugs: it
\* stays the first child; its siblings are forgotten.
SameChild(n) == node
ForgetSiblings(n) == [node EXCEPT ![n].child = Null]
KeepSiblings(n) ==
  LET rest == node[node[n].child].next
  IN  SetPrev([node EXCEPT ![n].child = rest], rest, Null)

Flatten ==
  /\ op = "destroy" /\ cursor # Null /\ node[cursor].child # Null
  /\ LET child == node[cursor].child
     IN  /\ node' = [Unlink(KeepSiblings(cursor), child) EXCEPT ![child].next = cursor]
         /\ cursor' = child
  /\ UNCHANGED <<live, root, size, op, target, source, paired, result>>

Delete ==
  /\ op = "destroy" /\ cursor # Null /\ node[cursor].child = Null
  /\ live' = live \ {cursor}
  /\ node' = [node EXCEPT ![cursor] = Unused]
  /\ cursor' = node[cursor].next
  /\ UNCHANGED <<root, size, op, target, source, paired, result>>

ClearReturns ==
  /\ op = "destroy" /\ cursor = Null
  /\ op' = "idle" /\ source' = target
  /\ root' = [root EXCEPT ![source] = Null,
                          ![target] = IF source = target THEN Null ELSE root[source]]
  /\ size' = [size EXCEPT ![source] = 0,
                          ![target] = IF source = target THEN 0 ELSE size[source]]
  /\ UNCHANGED <<node, live, target, cursor, paired, result>>

----------------------------------------------------------------------------
Loop ==
  PairNext \/ PairsDone \/ FoldNext \/ PopReturns \/ Flatten \/ Delete \/ ClearReturns

Next ==
  \/ Loop
  \/ \E h \in Heaps :
       \/ Pop(h)
       \/ \E v \in Values : Emplace(h, v) \/ \E n \in Nodes : IncreasePriority(h, n, v)
       \/ \E g \in Heaps : Meld(h, g) \/ Swap(h, g) \/ Clear(h, g)

Spec == Init /\ [][Next]_vars

\* A call that has begun goes on; nobody has to make one.
FairSpec == Spec /\ WF_vars(Loop)

----------------------------------------------------------------------------
NodeType == [value : Values, parent : Pointers, prev : Pointers,
             child : Pointers, next : Pointers]

\* Types, and no pointer in use leads to a deleted node.
TypeOK ==
  /\ node \in [Nodes -> NodeType] /\ live \subseteq Nodes
  /\ root \in [Heaps -> Pointers] /\ size \in [Heaps -> 0 .. MaxNodes]
  /\ op \in {"idle", "pair", "fold", "destroy"}
  /\ target \in Heaps /\ source \in Heaps
  /\ {cursor, paired, result} \subseteq live \cup {Null}
  /\ \A n \in live :
       {node[n].parent, node[n].prev, node[n].child, node[n].next} \subseteq live \cup {Null}

\* Between calls the four pointers of every node agree with those of its
\* neighbours, and a root has no parent and no siblings: destroy_tree walks on
\* from a root's next sibling, and detach_from_parent trusts both directions.
WellLinked ==
  Idle =>
    /\ \A h \in Heaps : root[h] # Null =>
         node[root[h]].parent = Null /\ node[root[h]].prev = Null /\ node[root[h]].next = Null
    /\ \A n \in live : LET x == node[n] IN
         /\ x.child # Null => node[x.child].parent = n /\ node[x.child].prev = Null
         /\ x.next # Null  => node[x.next].prev = n /\ node[x.next].parent = x.parent
         /\ x.prev # Null  => node[x.prev].next = n
         /\ x.parent # Null /\ x.prev = Null => node[x.parent].child = n

\* No child is above its parent, in the middle of a combination too.
HeapOrder ==
  \A n \in live : node[n].parent # Null => node[n].value <= node[node[n].parent].value

\* Between calls every allocated node hangs from exactly one root, and m_size
\* counts the nodes below it: nothing leaks, nothing is in two heaps.
NoLeak ==
  Idle =>
    /\ live = UNION {TreeOf(root[h]) : h \in Heaps}
    /\ \A h \in Heaps : size[h] = Cardinality(TreeOf(root[h]))

\* During a loop, what the other heaps hold stays as it is; the rest of the
\* allocated nodes belong to the call's heap.
Holds(h) ==
  IF Idle \/ h # target THEN TreeOf(root[h])
  ELSE IF op = "destroy" THEN {}
  ELSE live \ UNION {TreeOf(root[g]) : g \in Heaps \ {h}}

Promise == INSTANCE PriorityQueue
  WITH contents <- [h \in Heaps |->
                      {[handle |-> n, value |-> node[n].value] : n \in Holds(h)}]

\* Every call is one of a priority queue with stable handles, however the trees
\* look: pop() removes a maximal entry, and only that one.
ImplementsPriorityQueue == Promise!Spec

\* The loops end: neither the pairing nor the flattening goes round for ever.
CallsReturn == op # "idle" ~> op = "idle"
=============================================================================
