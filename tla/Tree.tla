-------------------------------- MODULE Tree --------------------------------
(***************************************************************************)
(* The search tree of src/bst_redblack.c (it does not rebalance) and its   *)
(* four traversals, which use the stack of src/stackx.c and the list of    *)
(* src/list.c for what they have still to visit.                           *)
(***************************************************************************)
EXTENDS Integers, Sequences, SequencesExt, FiniteSets

CONSTANTS Keys, MaxNodes  \* bound: nodes in a tree

ASSUME TreeAssumption == Keys \subseteq Int /\ MaxNodes \in Nat \ {0}

None == 0

VARIABLES tree,  \* the nodes in the order they were added; the first is the root
          walk   \* the last traversal: what it visited, and its variables

treeVars == <<tree, walk>>

(* bst_rb_add: down from the root to the free place for the value.         *)
Node(v) == [value |-> v, parent |-> None, left |-> None, right |-> None]
Side_Fault(v, n) == IF v < tree[n].value THEN "left" ELSE "right"
Side(v, n) == IF v <= tree[n].value THEN "left" ELSE "right"
Place(v) ==
  LET node[k \in 0 .. Len(tree)] ==
        IF k = 0 THEN 1
        ELSE LET n == node[k - 1] IN
             IF tree[n][Side(v, n)] = None THEN n ELSE tree[n][Side(v, n)]
  IN  node[Len(tree)]

(* stackx: a push grows the array by one when it is full, which may fail.  *)
NewStack == [values |-> <<>>, size |-> 1]
CanPush(s, limit) == Len(s.values) < s.size \/ s.size < limit
Pushed(s, v) == [values |-> Append(s.values, v),
                 size |-> IF Len(s.values) < s.size THEN s.size ELSE s.size + 1]
Popped(s) == [s EXCEPT !.values = Front(@)]
Top(s) == Last(s.values)
Count(s) == Len(s.values)

NoWalk == [order |-> "none", node |-> None, seen |-> <<>>, stack |-> NewStack, limit |-> 0,
           ok |-> TRUE, done |-> TRUE]
TreeInit == tree = <<>> /\ walk = NoWalk
TreeAdd == \E v \in Keys :
  /\ walk.done /\ Len(tree) < MaxNodes /\ walk' = NoWalk
  /\ tree' = IF tree = <<>> THEN <<Node(v)>>
             ELSE Append([tree EXCEPT ![Place(v)][Side(v, Place(v))] = Len(tree) + 1],
                         [Node(v) EXCEPT !.parent = Place(v)])

(* One pass of the loop of a traversal; limit is the memory there is.      *)
Visit(s, n) == [s EXCEPT !.seen = Append(@, n)]
Fail(s) == [s EXCEPT !.ok = FALSE, !.done = TRUE]
Done(s) == [s EXCEPT !.done = TRUE]

PreOrder(s) ==
  LET n == s.node IN
  CASE n # None /\ tree[n].right = None -> [Visit(s, n) EXCEPT !.node = tree[n].left]
    [] n # None /\ tree[n].right # None ->
         IF CanPush(s.stack, s.limit)
         THEN [Visit(s, n) EXCEPT !.node = tree[n].left, !.stack = Pushed(@, tree[n].right)]
         ELSE Fail(Visit(s, n))
    [] n = None /\ Count(s.stack) > 0 -> [s EXCEPT !.node = Top(s.stack), !.stack = Popped(@)]
    [] OTHER -> Done(s)

InOrder(s) ==
  LET n == s.node IN
  CASE n # None -> IF CanPush(s.stack, s.limit)
                   THEN [s EXCEPT !.node = tree[n].left, !.stack = Pushed(@, n)] ELSE Fail(s)
    [] n = None /\ Count(s.stack) > 0 ->
         [Visit(s, Top(s.stack)) EXCEPT !.node = tree[Top(s.stack)].right, !.stack = Popped(@)]
    [] OTHER -> Done(s)

PostOrder_Fault(s) ==
  LET n == s.node IN
  CASE n # None -> IF CanPush(s.stack, s.limit)
                   THEN [s EXCEPT !.node = tree[n].left, !.stack = Pushed(@, n)] ELSE Fail(s)
    [] n = None /\ Count(s.stack) > 0 ->
         LET top   == Top(s.stack)
             right == tree[top].right IN
         IF right # None THEN [s EXCEPT !.node = right]
         ELSE [Visit(s, top) EXCEPT !.stack = Popped(@)]
    [] OTHER -> Done(s)
PostOrder(s) ==
  LET n == s.node IN
  CASE n # None -> IF CanPush(s.stack, s.limit)
                   THEN [s EXCEPT !.node = tree[n].left, !.stack = Pushed(@, n)] ELSE Fail(s)
    [] n = None /\ Count(s.stack) > 0 ->
         LET top   == Top(s.stack)
             right == tree[top].right IN
         IF right # None /\ (s.seen = <<>> \/ right # Last(s.seen)) THEN [s EXCEPT !.node = right]
         ELSE [Visit(s, top) EXCEPT !.stack = Popped(@)]
    [] OTHER -> Done(s)

(* Breadth first: the list holds what is to be visited, its head is        *)
(* removed last.                                                           *)
Children(n) == (IF tree[n].left = None THEN <<>> ELSE <<tree[n].left>>)
               \o (IF tree[n].right = None THEN <<>> ELSE <<tree[n].right>>)
BreadthFirst(s) ==
  LET n    == Head(s.stack.values)
      list == s.stack.values \o Children(n) IN
  CASE s.stack.values = <<>> -> Done(s)
    [] s.stack.values # <<>> /\ Len(list) > s.limit -> Fail(Visit(s, n))
    [] OTHER -> [Visit(s, n) EXCEPT !.stack.values = Tail(list)]

(* bst_rb_traverse, with one step for each pass.  The callback changes no  *)
(* links; that of bst_rb_destroy, a traversal in post-order, frees nodes.  *)
Orders == {"pre", "in", "post", "bfs"}
Step(s) ==
  CASE s.order = "pre" -> PreOrder(s)
    [] s.order = "in" -> InOrder(s)
    [] s.order = "post" -> PostOrder(s)
    [] OTHER -> BreadthFirst(s)
Begun(order, limit) ==
  [order |-> order, node |-> 1, seen |-> <<>>, limit |-> limit, ok |-> TRUE, done |-> FALSE,
   stack |-> IF order = "bfs" THEN Pushed(NewStack, 1) ELSE NewStack]
TreeTraverse == \E order \in Orders, limit \in 1 .. MaxNodes :
  /\ walk.done /\ tree # <<>> /\ UNCHANGED tree
  /\ walk' = Begun(order, limit)
TreeStep == ~walk.done /\ walk' = Step(walk) /\ UNCHANGED tree
TreeNext == TreeAdd \/ TreeTraverse \/ TreeStep
TreeSpec == TreeInit /\ [][TreeNext]_treeVars
-----------------------------------------------------------------------------
TreeTypeOK ==
  /\ Len(tree) <= MaxNodes
  /\ \A n \in DOMAIN tree :
       /\ tree[n].value \in Keys /\ tree[n].parent \in 0 .. n - 1
       /\ n > 1 => /\ tree[n].parent # None
                   /\ n \in {tree[tree[n].parent].left, tree[tree[n].parent].right}
  /\ walk.ok \in BOOLEAN /\ Range(walk.seen) \subseteq DOMAIN tree

(* Where a node is: the nodes from it up to the root, on which side of a   *)
(* node above it, and to the left of another.                              *)
Above(t) ==
  LET above[n \in DOMAIN t] == {n} \cup (IF t[n].parent = None THEN {} ELSE above[t[n].parent])
  IN  above
OnLeft(a, n) == tree[a].left # None /\ tree[a].left \in Above(tree)[n]
OnRight(a, n) == tree[a].right # None /\ tree[a].right \in Above(tree)[n]
LeftOf(m, n) == \E a \in DOMAIN tree : OnLeft(a, m) /\ OnRight(a, n)
Depth(n) == Cardinality(Above(tree)[n])

(* A search of the tree by comparison finds every value: those to the left *)
(* of a node are not greater, those to the right greater, all the way down.*)
TreeIsSearchable ==
  \A a, n \in DOMAIN tree :
    /\ OnLeft(a, n) => tree[n].value <= tree[a].value
    /\ OnRight(a, n) => tree[n].value > tree[a].value

(* The four orders.                                                        *)
Precedes(order, m, n) ==
  CASE order = "pre" -> (m # n /\ m \in Above(tree)[n]) \/ LeftOf(m, n)
    [] order = "in" -> OnLeft(n, m) \/ OnRight(m, n) \/ LeftOf(m, n)
    [] order = "post" -> (m # n /\ n \in Above(tree)[m]) \/ LeftOf(m, n)
    [] OTHER -> Depth(m) < Depth(n) \/ (Depth(m) = Depth(n) /\ LeftOf(m, n))

(* A traversal visits the nodes in its order, each once and none left out  *)
(* before another, up to the last one if it does not run out of memory.    *)
TraversalInOrder ==
  walk.order # "none" =>
    /\ \A k, l \in DOMAIN walk.seen : k < l => Precedes(walk.order, walk.seen[k], walk.seen[l])
    /\ \A m \in DOMAIN tree, n \in Range(walk.seen) :
         Precedes(walk.order, m, n) => m \in Range(walk.seen)
    /\ walk.done /\ walk.ok => Range(walk.seen) = DOMAIN tree

(* bst_rb_destroy frees each node in the callback of a post-order          *)
(* traversal: the next pass looks at no node that was visited.             *)
LooksAt(s) == ({s.node} \ {None})
              \cup (IF s.node = None /\ Count(s.stack) > 0 THEN {Top(s.stack)} ELSE {})
DestroyReadsLive ==
  walk.order = "post" /\ ~walk.done => LooksAt(walk) \cap Range(walk.seen) = {}

(* Together: adding keeps a tree that can be searched, and traversing and  *)
(* destroying it meet every node, in order, alive.                         *)
TreeIsTraversed == TreeTypeOK /\ TreeIsSearchable /\ TraversalInOrder /\ DestroyReadsLive
=============================================================================
