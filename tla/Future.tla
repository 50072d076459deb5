------------------------------- MODULE Future -------------------------------
(***************************************************************************)
(* What task.h promises of one task, with no pool, no reference counts and *)
(* no locks: a job handed to task_run is pending, then running, then in    *)
(* exactly one terminal status with one result, and is finally forgotten.  *)
(* At most one continuation is attached, only before the job completes; it *)
(* runs once, after the job completed and before the job is forgotten.     *)
(***************************************************************************)
EXTENDS Naturals

CONSTANTS Jobs,      \* the calls of task_run that start a worker
          Results,   \* the result_t codes a task function returns
          NoResult   \* the outcome of a job that has not completed

Final == {"ran_to_completion", "canceled", "faulted"}

VARIABLES phase,     \* job -> where it is in its life
          outcome,   \* job -> its result, once it is complete
          attached,  \* job -> a continuation was accepted
          runs       \* job -> how often its continuation ran

vars == <<phase, outcome, attached, runs>>

Init ==
  /\ phase = [j \in Jobs |-> "none"]
  /\ outcome = [j \in Jobs |-> NoResult]
  /\ attached = [j \in Jobs |-> FALSE]
  /\ runs = [j \in Jobs |-> 0]

Submit(j) ==
  /\ phase[j] = "none"
  /\ phase' = [phase EXCEPT ![j] = "pending"]
  /\ UNCHANGED <<outcome, attached, runs>>

Start(j) ==
  /\ phase[j] = "pending"
  /\ phase' = [phase EXCEPT ![j] = "running"]
  /\ UNCHANGED <<outcome, attached, runs>>

Attach(j) ==
  /\ phase[j] \in {"pending", "running"}
  /\ ~attached[j]
  /\ attached' = [attached EXCEPT ![j] = TRUE]
  /\ UNCHANGED <<phase, outcome, runs>>

(* Status and result appear together; a success is never reported as a    *)
(* fault, nor an error as a success.                                       *)
Complete(j) ==
  /\ phase[j] = "running"
  /\ \E r \in Results, st \in Final :
       /\ st = "ran_to_completion" => r = "ok"
       /\ st = "faulted" => r = "error"
       /\ phase' = [phase EXCEPT ![j] = st]
       /\ outcome' = [outcome EXCEPT ![j] = r]
  /\ UNCHANGED <<attached, runs>>

Continue(j) ==
  /\ phase[j] \in Final
  /\ attached[j]
  /\ runs[j] = 0
  /\ runs' = [runs EXCEPT ![j] = 1]
  /\ UNCHANGED <<phase, outcome, attached>>

(* Both references are gone; a continuation that was attached has run.     *)
Forget(j) ==
  /\ phase[j] \in Final
  /\ attached[j] => runs[j] = 1
  /\ phase' = [phase EXCEPT ![j] = "gone"]
  /\ outcome' = [outcome EXCEPT ![j] = NoResult]
  /\ UNCHANGED <<attached, runs>>

Next ==
  \E j \in Jobs : \/ Submit(j) \/ Start(j) \/ Attach(j)
                  \/ Complete(j) \/ Continue(j) \/ Forget(j)

Spec == Init /\ [][Next]_vars
=============================================================================
