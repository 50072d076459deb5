------------------------------- MODULE Lists --------------------------------
(***************************************************************************)
(* The list of src/list.c and the circular list of src/circular_list.c,    *)
(* each used by a client that hands it nodes of its own and callbacks that *)
(* answer as they like.  A loop takes one step for each call of its        *)
(* callback.  The callbacks do not change the list.                        *)
(***************************************************************************)
EXTENDS Ring

CONSTANT PairRemovals  \* the client removes one of two nodes of a circular list

VARIABLES list,  \* list_t
          ring,  \* CIRCULAR_LIST
          loop   \* of each: the loop that runs over it, the node it is at, and whether
                 \* its callback said to go on

listVars == <<list, ring, loop>>

Resting == [op |-> "none", node |-> Nil, goes_on |-> TRUE]
ListsInit == list = EmptyRing /\ ring = EmptyRing /\ loop = [of \in {"list", "ring"} |-> Resting]
Idle(of) == loop[of].op = "none"

(* list_add and circular_list_add.                                         *)
ListAdd == \E n \in Nodes \ list.live :
  Idle("list") /\ list' = Linked(list, n) /\ UNCHANGED <<ring, loop>>
CircularAdd == \E n \in Nodes \ ring.live :
  Idle("ring") /\ ring' = Linked(ring, n) /\ UNCHANGED <<list, loop>>

(* remove_node of list.c; circular_list_remove takes the last node of two  *)
(* for the only one.                                                       *)
Removed(l, n) == IF l.next[n] = n THEN Freed([l EXCEPT !.root = Nil], n) ELSE Bypassed(l, n)
CircularRemoved(l, n) ==
  IF l.next[n] = l.previous[n] THEN Freed([l EXCEPT !.root = Nil], n) ELSE Bypassed(l, n)
ListRemove == \E n \in list.live :
  Idle("list") /\ list' = Removed(list, n) /\ UNCHANGED <<ring, loop>>
CircularRemove == \E n \in ring.live :
  /\ Idle("ring") /\ ring.root # Nil /\ (PairRemovals \/ Cardinality(ring.live) # 2)
  /\ ring' = CircularRemoved(ring, n) /\ UNCHANGED <<list, loop>>

(* foreach and remove_if begin at the root, if there is one.               *)
Begin(of, l) == \E op \in {"foreach", "remove_if"} :
  /\ Idle(of) /\ l.root # Nil /\ UNCHANGED <<list, ring>>
  /\ loop' = [loop EXCEPT ![of] = [op |-> op, node |-> l.root, goes_on |-> TRUE]]
GoTo(of, node, goes_on) ==
  loop' = [loop EXCEPT ![of] = [op |-> IF node = Nil THEN "none" ELSE @.op,
                                node |-> node, goes_on |-> goes_on]]

(* foreach asks the callback and goes on, until it is at the root again or *)
(* is told to stop; to_array is the foreach that nothing stops.            *)
After(l, n, goes_on) == IF goes_on /\ l.next[n] # l.root THEN l.next[n] ELSE Nil
Foreach(of, l) == \E goes_on \in BOOLEAN :
  /\ loop[of].op = "foreach" /\ GoTo(of, After(l, loop[of].node, goes_on), goes_on)
  /\ UNCHANGED <<list, ring>>

(* list_remove_if looks at what follows before it removes the node.        *)
ListRemoveIf == \E remove, goes_on \in BOOLEAN :
  LET n == loop.list.node IN
  /\ loop.list.op = "remove_if" /\ UNCHANGED ring
  /\ list' = (IF remove THEN Removed(list, n) ELSE list)
  /\ GoTo("list", After(list, n, goes_on), goes_on)

(* circular_list_remove_if goes on from the node that followed the removed *)
(* one, and ends when it is at the head: also when the head has just moved *)
(* there.                                                                  *)
CircularListRemoveIf == \E remove, goes_on \in BOOLEAN :
  LET n    == loop.ring.node
      node == IF remove /\ ring.next[n] = n THEN Nil ELSE ring.next[n] IN
  /\ loop.ring.op = "remove_if" /\ UNCHANGED list
  /\ ring' = (IF remove THEN Removed(ring, n) ELSE ring)
  /\ GoTo("ring", IF goes_on /\ node # ring'.root THEN node ELSE Nil, goes_on)

ListDeinit == Idle("list") /\ list' = Emptied(list) /\ UNCHANGED <<ring, loop>>
CircularDestroy == Idle("ring") /\ ring' = Emptied(ring) /\ UNCHANGED <<list, loop>>

ListNext == \/ ListAdd \/ ListRemove \/ Begin("list", list) \/ Foreach("list", list)
            \/ ListRemoveIf \/ ListDeinit
CircularNext == \/ CircularAdd \/ CircularRemove \/ Begin("ring", ring) \/ Foreach("ring", ring)
                \/ CircularListRemoveIf \/ CircularDestroy
ListsSpec == ListsInit /\ [][ListNext \/ CircularNext]_listVars
-----------------------------------------------------------------------------
ListsTypeOK ==
  /\ \A l \in {list, ring} : /\ l.root \in l.live \cup {Nil} /\ l.live \subseteq Nodes
                             /\ l.next \in [Nodes -> Nodes \cup {Nil}]
                             /\ l.previous \in [Nodes -> Nodes \cup {Nil}]
  /\ loop \in [{"list", "ring"} -> [op : {"none", "foreach", "remove_if"},
                                    node : Nodes \cup {Nil}, goes_on : BOOLEAN]]

(* Every node that was not freed is on the ring, in both directions, no    *)
(* link leads to a freed one, and no loop is at one: nothing is lost,      *)
(* nothing dangles.                                                        *)
HeldWhole(l, running) ==
  /\ Range(Chain(l)) = l.live
  /\ \A n \in l.live : l.next[n] \in l.live /\ l.previous[l.next[n]] = n
  /\ running.op # "none" => running.node \in l.live
RingIsWhole == HeldWhole(list, loop.list) /\ HeldWhole(ring, loop.ring)

(* Both lists are sequences held by whole rings: adding and removing keep  *)
(* the order of the nodes that stay, and a foreach or a remove_if asks     *)
(* about every node once, in order, whatever it removes on the way, until  *)
(* it is told to stop.  (That of the circular list ends when it has        *)
(* removed the head.)                                                      *)
L == INSTANCE ItemSequence WITH
       Items <- Nodes, None <- Nil, EndsAtFirst <- FALSE,
       items <- Chain(list), asked <- loop.list.node, told <- loop.list.goes_on
R == INSTANCE ItemSequence WITH
       Items <- Nodes, None <- Nil, EndsAtFirst <- TRUE,
       items <- Chain(ring), asked <- loop.ring.node, told <- loop.ring.goes_on
ListsAreSequences == L!Spec /\ R!Spec /\ [](ListsTypeOK /\ RingIsWhole)
=============================================================================
