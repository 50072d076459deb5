-------------------------------- MODULE Ring --------------------------------
(***************************************************************************)
(* The doubly linked ring of nodes on the heap that src/list.c and         *)
(* src/circular_list.c are both made of.  A node that was freed has no     *)
(* links to read.                                                          *)
(***************************************************************************)
EXTENDS Integers, Sequences, SequencesExt

CONSTANTS Nodes, Nil

ASSUME RingAssumption == Nil \notin Nodes

EmptyRing == [root |-> Nil, live |-> {},
              next |-> [n \in Nodes |-> Nil], previous |-> [n \in Nodes |-> Nil]]

(* A new node, linked in before the root; without memory nothing changes.  *)
Linked_Fault(l, n) ==
  IF l.root = Nil
  THEN [root |-> n, live |-> l.live \cup {n},
        next |-> [l.next EXCEPT ![n] = n], previous |-> [l.previous EXCEPT ![n] = n]]
  ELSE [root |-> l.root, live |-> l.live \cup {n},
        next |-> [l.next EXCEPT ![n] = l.root, ![l.previous[l.root]] = n],
        previous |-> [l.previous EXCEPT ![n] = l.previous[l.root]]]
Linked(l, n) ==
  IF l.root = Nil
  THEN [root |-> n, live |-> l.live \cup {n},
        next |-> [l.next EXCEPT ![n] = n], previous |-> [l.previous EXCEPT ![n] = n]]
  ELSE [root |-> l.root, live |-> l.live \cup {n},
        next |-> [l.next EXCEPT ![n] = l.root, ![l.previous[l.root]] = n],
        previous |-> [l.previous EXCEPT ![n] = l.previous[l.root], ![l.root] = n]]

Freed(l, n) == [root |-> l.root, live |-> l.live \ {n},
                next |-> [l.next EXCEPT ![n] = Nil], previous |-> [l.previous EXCEPT ![n] = Nil]]

(* A node that is not the only one is taken out.                           *)
Bypassed(l, n) ==
  Freed([root |-> IF l.root = n THEN l.next[n] ELSE l.root, live |-> l.live,
         next |-> [l.next EXCEPT ![l.previous[n]] = l.next[n]],
         previous |-> [l.previous EXCEPT ![l.next[n]] = l.previous[n]]], n)

(* The nodes in the order in which a loop meets them that goes from the    *)
(* root on until it is there again; empty if there is no such order.       *)
Follows(c, i) == c[(i % Len(c)) + 1]
Holds(l, c) ==
  /\ IsInjective(c) /\ (c = <<>> <=> l.root = Nil) /\ (c # <<>> => c[1] = l.root)
  /\ \A i \in DOMAIN c : l.next[c[i]] = Follows(c, i) /\ l.previous[Follows(c, i)] = c[i]
Chain(l) ==
  LET chains == {c \in [1 .. Cardinality(l.live) -> l.live] : Holds(l, c)}
  IN  IF chains = {} THEN <<>> ELSE CHOOSE c \in chains : TRUE

(* The deinit cuts the ring behind its last node and frees from the root   *)
(* to the cut; list.c's leaves the root as it was, and the list is not     *)
(* used again before it is initialised.                                    *)
Emptied(l) ==
  LET freed == Range(Chain(l))
  IN  [root |-> Nil, live |-> l.live \ freed,
       next |-> [n \in Nodes |-> IF n \in freed THEN Nil ELSE l.next[n]],
       previous |-> [n \in Nodes |-> IF n \in freed THEN Nil ELSE l.previous[n]]]
=============================================================================
