------------------------------ MODULE Promise -------------------------------
(***************************************************************************)
(* What task.h promises of a task completion source: a cell that is        *)
(* written once, and waits that return nothing but what was written.       *)
(***************************************************************************)
CONSTANTS Threads,
          Values,   \* the result_t codes that can be published
          NoValue

VARIABLES value,    \* what was published, NoValue before
          got       \* thread -> what its last successful wait returned

vars == <<value, got>>

Init == value = NoValue /\ got = [c \in Threads |-> NoValue]

Publish == /\ value = NoValue
           /\ value' \in Values
           /\ UNCHANGED got

Observe(c) == /\ value # NoValue
              /\ got' = [got EXCEPT ![c] = value]
              /\ UNCHANGED value

Next == Publish \/ \E c \in Threads : Observe(c)

Spec == Init /\ [][Next]_vars
=============================================================================
