---------------------------- MODULE ItemSequence ----------------------------
(***************************************************************************)
(* What a list promises: a sequence that grows at its end and from which   *)
(* an item is taken without moving the others, and loops that ask about    *)
(* the items from the first to the last, each once, and take out those     *)
(* they are told to, until they are told to stop.                          *)
(***************************************************************************)
EXTENDS SequencesExt, Integers

CONSTANTS Items, None,
          EndsAtFirst  \* a loop ends also when it has taken out the first item

VARIABLES items,
          asked,  \* the item a loop asks about next, or None
          told    \* the last answer: to go on

Init == items = <<>> /\ asked = None /\ told = TRUE
Add == \E i \in Items \ Range(items) :
  asked = None /\ items' = Append(items, i) /\ UNCHANGED <<asked, told>>
Take == \E k \in DOMAIN items :
  asked = None /\ items' = RemoveAt(items, k) /\ UNCHANGED <<asked, told>>
Clear == asked = None /\ items' = <<>> /\ UNCHANGED <<asked, told>>
Begin == asked = None /\ items # <<>> /\ asked' = items[1] /\ told' = TRUE /\ UNCHANGED items
Ask == \E k \in DOMAIN items, taken \in BOOLEAN :
  /\ asked = items[k] /\ items' = (IF taken THEN RemoveAt(items, k) ELSE items)
  /\ told' \in BOOLEAN
  /\ asked' = IF told' /\ k < Len(items) /\ ~(EndsAtFirst /\ taken /\ k = 1) THEN items[k + 1] ELSE None

Next == Add \/ Take \/ Clear \/ Begin \/ Ask
Spec == Init /\ [][Next]_<<items, asked, told>>
=============================================================================
