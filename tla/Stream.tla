------------------------------- MODULE Stream -------------------------------
(***************************************************************************)
(* What the sockets promise their two users: the bytes one of them wrote   *)
(* come out at the other in order, each once, and the reader is told that  *)
(* the data ended only when it has all of them.                            *)
(***************************************************************************)
EXTENDS Naturals, Sequences

VARIABLES carried,    \* how many bytes were handed to the transport
          delivered,  \* the bytes the reader was given
          closed,     \* the writer has closed its end
          ended       \* the reader was told of the end of the data

vars == <<carried, delivered, closed, ended>>

Init == carried = 0 /\ delivered = <<>> /\ closed = FALSE /\ ended = FALSE

Write ==
  /\ ~closed
  /\ carried' > carried
  /\ UNCHANGED <<delivered, closed, ended>>

Deliver ==
  /\ ~ended
  /\ Len(delivered) < carried
  /\ delivered' = Append(delivered, Len(delivered) + 1)
  /\ UNCHANGED <<carried, closed, ended>>

Close == ~closed /\ closed' = TRUE /\ UNCHANGED <<carried, delivered, ended>>

End ==
  /\ closed /\ ~ended
  /\ Len(delivered) = carried
  /\ ended' = TRUE
  /\ UNCHANGED <<carried, delivered, closed>>

Next == Write \/ Deliver \/ Close \/ End

Spec == Init /\ [][Next]_vars
=============================================================================
