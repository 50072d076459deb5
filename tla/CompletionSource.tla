-------------------------- MODULE CompletionSource --------------------------
(***************************************************************************)
(* task_completion_source_t of src/task.c: the one-shot rendezvous between *)
(* set_result and any number of blocked or timed waits.  Each critical     *)
(* section of tcs->mutex is one action.                                    *)
(***************************************************************************)
EXTENDS Naturals

CONSTANTS Threads, Values, NoValue

ASSUME NoValueAssumption == NoValue \notin Values

VARIABLES completed, result,  \* task_completion_source_t
          tpc,                \* thread -> "idle", "check", "asleep"
          timed,              \* thread -> its wait has a timeout
          out,                \* thread -> what its last successful wait returned
          winner,             \* history: the value of the set_result that
                              \* returned true
          wins                \* history: how many of them returned true

vars == <<completed, result, tpc, timed, out, winner, wins>>

(* task_completion_source_init; result is ok there, a value nobody reads.  *)
Init ==
  /\ completed = FALSE
  /\ result \in Values
  /\ tpc = [c \in Threads |-> "idle"]
  /\ timed = [c \in Threads |-> FALSE]
  /\ out = [c \in Threads |-> NoValue]
  /\ winner = NoValue
  /\ wins = 0

(* pthread_cond_broadcast(&tcs->cond); a signal would wake one sleeper.    *)
Broadcast_Fault ==
  \/ \E c \in Threads : tpc[c] = "asleep" /\ tpc' = [tpc EXCEPT ![c] = "check"]
  \/ (\A c \in Threads : tpc[c] # "asleep") /\ tpc' = tpc
Broadcast ==
  tpc' = [c \in Threads |-> IF tpc[c] = "asleep" THEN "check" ELSE tpc[c]]

MaySet_Fault == wins < 2
MaySet == ~completed

SetResult(c, v) ==
  /\ tpc[c] = "idle"
  /\ MaySet
  /\ result' = v
  /\ completed' = TRUE
  /\ winner' = v /\ wins' = wins + 1
  /\ Broadcast
  /\ UNCHANGED <<timed, out>>

BeginWait(c) ==
  /\ tpc[c] = "idle"
  /\ tpc' = [tpc EXCEPT ![c] = "check"]
  /\ \E b \in BOOLEAN : timed' = [timed EXCEPT ![c] = b]
  /\ UNCHANGED <<completed, result, out, winner, wins>>

(* The loop test fails: the result is read under the same lock.            *)
WaitDone(c) ==
  /\ tpc[c] = "check" /\ completed
  /\ out' = [out EXCEPT ![c] = result]
  /\ tpc' = [tpc EXCEPT ![c] = "idle"]
  /\ UNCHANGED <<completed, result, timed, winner, wins>>

WaitSleep(c) ==
  /\ tpc[c] = "check" /\ ~completed
  /\ tpc' = [tpc EXCEPT ![c] = "asleep"]
  /\ UNCHANGED <<completed, result, timed, out, winner, wins>>

(* ETIMEDOUT: completed is read once more; out_result is written only if   *)
(* it is set.                                                              *)
ReadsOut_Fault == TRUE
ReadsOut == completed

Expire(c) ==
  /\ tpc[c] = "asleep" /\ timed[c]
  /\ out' = IF ReadsOut THEN [out EXCEPT ![c] = result] ELSE out
  /\ tpc' = [tpc EXCEPT ![c] = "idle"]
  /\ UNCHANGED <<completed, result, timed, winner, wins>>

SpuriousWake(c) ==
  /\ tpc[c] = "asleep"
  /\ tpc' = [tpc EXCEPT ![c] = "check"]
  /\ UNCHANGED <<completed, result, timed, out, winner, wins>>

Proceed(c) == WaitDone(c) \/ WaitSleep(c) \/ Expire(c)

Next == \E c \in Threads :
          \/ Proceed(c) \/ SpuriousWake(c) \/ BeginWait(c)
          \/ \E v \in Values : SetResult(c, v)

Spec == Init /\ [][Next]_vars

(* The deadline of a timed wait is absolute, so no number of spurious      *)
(* wake-ups postpones it: strong fairness of Expire.                       *)
FairSpec ==
  /\ Spec
  /\ \A c \in Threads : WF_vars(Proceed(c)) /\ SF_vars(Expire(c))
-----------------------------------------------------------------------------
TypeOK ==
  /\ completed \in BOOLEAN
  /\ result \in Values
  /\ tpc \in [Threads -> {"idle", "check", "asleep"}]
  /\ timed \in [Threads -> BOOLEAN]
  /\ out \in [Threads -> Values \cup {NoValue}]
  /\ winner \in Values \cup {NoValue}
  /\ wins \in {0, 1}

(* Every waiter, however it was woken and however late it looks, returns   *)
(* the value of the one set_result that was told it won.                   *)
WaitersSeeWinner ==
  /\ completed => result = winner
  /\ \A c \in Threads : out[c] # NoValue => completed /\ out[c] = winner

(* The source is a write-once cell.                                        *)
P == INSTANCE Promise WITH value <- IF completed THEN result ELSE NoValue, got <- out
ImplementsPromise == P!Spec

(* Nobody sleeps through the publication: a wait returns once the source   *)
(* is completed, and a timed wait returns in any case.                     *)
WaitReturns ==
  \A c \in Threads :
    tpc[c] # "idle" /\ (completed \/ timed[c]) ~> tpc[c] = "idle"
=============================================================================
