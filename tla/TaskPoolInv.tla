----------------------------- MODULE TaskPoolInv ----------------------------
(***************************************************************************)
(* The inductive invariant of TaskPool, in two layers: who owns a slot     *)
(* (Ownership), and, given that, what the slot and the worker of a job     *)
(* tell at each point of the worker's life (Progress).                     *)
(***************************************************************************)
EXTENDS TaskPool

(* A thread in task_run owns the slot it reserved and no job uses it yet.  *)
ReservationOK ==
  /\ \A c \in Threads :
       /\ Reserving(c) <=> tcall[c] = "run"
       /\ tjob[c] # NULL => Reserving(c)
       /\ Reserving(c) =>
            /\ tslot[c] \in Slots /\ tjob[c] \in Jobs
            /\ wpc[tjob[c]] = "unborn" /\ tjob[c] \notin handle
            /\ in_use[tslot[c]] /\ ref_count[tslot[c]] = 2
            /\ \A j \in Jobs : Holds(j) => arg[j] # tslot[c]
  /\ \A c, d \in Threads :
       Reserving(c) /\ Reserving(d) /\ (tslot[c] = tslot[d] \/ tjob[c] = tjob[d])
         => c = d

(* A thread in a wait looks at an element of its array, and the caller of  *)
(* that wait still owns every element.                                     *)
WaitOK ==
  \A c \in Threads :
    /\ Blocking(c) =>
         /\ tpc[c] \in {"quick", "check", "relock", "asleep"}
         /\ tidx[c] \in DOMAIN targs[c]
         /\ \A i \in DOMAIN targs[c] : targs[c][i] \in handle
    /\ ~Blocking(c) =>
         /\ tpc[c] \in {"idle", "reserved"}
         /\ targs[c] = << >>

(* A held job has a slot, a handle is only given for a worker that exists. *)
HeldOK ==
  \A j \in Jobs :
    /\ Holds(j) => arg[j] \in Slots
    /\ j \in handle => wpc[j] # "unborn"

Ownership ==
  /\ TypeOK /\ ReservationOK /\ WaitOK /\ HeldOK
  /\ RefCountIsHolders /\ NoSharing /\ NoSlotLeak

Published(j) == wpc[j] \in {"notify", "continue", "decref", "done"}

(* The slot of a held job shows how far its worker is.                     *)
StatusOK ==
  \A j \in Jobs :
    LET s == arg[j] IN
    /\ wpc[j] \in {"start", "run", "publish"} => function[s] = j
    /\ wpc[j] = "start" => status[s] = "pending"
    /\ wpc[j] \in {"run", "publish"} => status[s] = "running"
    /\ Published(j) /\ Holds(j) =>
         /\ IsTerminal(status[s]) /\ result[s] = wres[j]
         /\ status[s] = "ran_to_completion" => wres[j] = "ok"
         /\ status[s] = "faulted" => wres[j] = "error"
         /\ status[s] = "canceled" => wres[j] = "cancelled" \/ cancel_requested[s]

(* A job a caller was told of is published.                                *)
ToldOK == \A j \in told : Published(j)

(* Where an accepted continuation is: in the slot until the job is         *)
(* published, then with the worker, then run.                              *)
ContinuationOK ==
  /\ \A c \in Threads : Reserving(c) =>
       continuation[tslot[c]] = NULL /\ status[tslot[c]] = "pending"
  /\ \A j \in Jobs :
       /\ wpc[j] = "unborn" => ~accepted[j]
       /\ wpc[j] \in {"start", "run", "publish"} =>
            continuation[arg[j]] = IF accepted[j] THEN j ELSE NULL
       /\ wpc[j] \in {"notify", "continue"} =>
            wcont[j] = IF accepted[j] THEN j ELSE NULL
       /\ contRuns[j] = IF wpc[j] \in {"decref", "done"} /\ accepted[j] THEN 1 ELSE 0

Progress == StatusOK /\ ToldOK /\ ContinuationOK /\ ExecutedOnce

(* Everything the other invariants need, and what a step preserves.        *)
IInv == Ownership /\ Progress
=============================================================================
