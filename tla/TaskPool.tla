------------------------------ MODULE TaskPool ------------------------------
(***************************************************************************)
(* The task pool of src/task.c: a fixed array of slots, task_run, the      *)
(* worker thread, cancellation, the continuation, the waits and            *)
(* task_release.  Every critical section of the code is one action (the    *)
(* pool mutex and the mutex of each slot are never held across two of      *)
(* them), so an interleaving of actions is an interleaving of the code's   *)
(* critical sections and of the unlocked steps between them.               *)
(*                                                                         *)
(* A job is one (function, state) pair given to task_run; it also names    *)
(* the worker thread started for it, and its task_t* is arg[j].  A thread  *)
(* is any caller of the API, a task function or a continuation included.   *)
(***************************************************************************)
EXTENDS Integers, Sequences, FiniteSets

CONSTANTS Threads,    \* threads that call the API
          Jobs,       \* the jobs they hand to task_run
          PoolSize,   \* TASK_POOL_SIZE
          MaxWait,    \* bound: length of the array given to a wait
          NULL

ASSUME PoolSizeAssumption == PoolSize \in Nat \ {0}
ASSUME MaxWaitAssumption == MaxWait \in Nat \ {0}
ASSUME NullAssumption == NULL \notin Jobs

Slots == 1 .. PoolSize

(* One code per class that inner_thread_function tells apart.              *)
Results == {"ok", "error", "cancelled"}

Terminal == {"ran_to_completion", "canceled", "faulted"}
Status == {"idle", "pending", "running"} \cup Terminal

VARIABLES
  (* task_t, by slot *)
  in_use, ref_count, function, status, cancel_requested, result, continuation,
  (* inner_thread_function, by job: program counter, argument, local r,    *)
  (* captured continuation                                                 *)
  wpc, arg, wres, wcont,
  (* a thread inside the API: program counter, the call, the reserved slot *)
  (* and job of task_run, the array and index of a wait                    *)
  tpc, tcall, tslot, tjob, targs, tidx,
  (* jobs whose caller still owns its reference *)
  handle,
  (* history: jobs some caller was told are complete; continue_with said   *)
  (* ok; runs of each continuation and of each task function               *)
  told, accepted, contRuns, executed

slotVars == <<in_use, ref_count, function, status, cancel_requested, result, continuation>>
workerVars == <<wpc, arg, wres, wcont>>
callVars == <<tpc, tcall, tslot, tjob, targs, tidx>>
histVars == <<told, accepted, contRuns, executed>>
vars == <<slotVars, workerVars, callVars, handle, histVars>>

Alive(j) == wpc[j] \notin {"unborn", "done"}
Holds(j) == j \in handle \/ Alive(j)
Reserving(c) == tpc[c] = "reserved"
Blocking(c) == tcall[c] \in {"wait", "timed", "any"}

(* The elements of an argument array.                                      *)
Elems(list) == {list[i] : i \in DOMAIN list}

IsTerminal(st) == st \in Terminal

Init ==
  /\ in_use = [s \in Slots |-> FALSE]
  /\ ref_count = [s \in Slots |-> 0]
  /\ function = [s \in Slots |-> NULL]
  /\ status = [s \in Slots |-> "idle"]
  /\ cancel_requested = [s \in Slots |-> FALSE]
  /\ result = [s \in Slots |-> "ok"]
  /\ continuation = [s \in Slots |-> NULL]
  /\ wpc = [j \in Jobs |-> "unborn"]
  /\ arg = [j \in Jobs |-> 0]
  /\ wres = [j \in Jobs |-> "ok"]
  /\ wcont = [j \in Jobs |-> NULL]
  /\ tpc = [c \in Threads |-> "idle"]
  /\ tcall = [c \in Threads |-> "none"]
  /\ tslot = [c \in Threads |-> 0]
  /\ tjob = [c \in Threads |-> NULL]
  /\ targs = [c \in Threads |-> << >>]
  /\ tidx = [c \in Threads |-> 0]
  /\ handle = {}
  /\ told = {}
  /\ accepted = [j \in Jobs |-> FALSE]
  /\ contRuns = [j \in Jobs |-> 0]
  /\ executed = [j \in Jobs |-> 0]

-----------------------------------------------------------------------------
(* Helpers of the actions.  An operator named ..._Fault is a mistake that  *)
(* could be made in the code the next definition models; no specification  *)
(* uses it: it shows which property would notice.                          *)

FirstFree_Fault(s) == \A t \in Slots : t < s => in_use[t]
FirstFree(s) == ~in_use[s] /\ \A t \in Slots : t < s => in_use[t]

FreshRefs_Fault == 1
FreshRefs == 2   \* caller + worker

LastReference_FaultEarly(n) == n <= 1
LastReference_FaultLate(n) == n < 0
LastReference(n) == n <= 0

(* task_decrement_ref: the caller's or the worker's reference goes away,   *)
(* the last one returns the slot.  The status stays what it was.           *)
DecrementRef(s) ==
  /\ ref_count' = [ref_count EXCEPT ![s] = @ - 1]
  /\ in_use' = [in_use EXCEPT ![s] = @ /\ ~LastReference(ref_count[s] - 1)]

(* is_error(cancelled) holds too, so the order of the two tests matters.   *)
FinalStatus_Fault(r, cancelled) ==
  IF r # "ok" THEN "faulted" ELSE IF cancelled THEN "canceled" ELSE "ran_to_completion"

FinalStatus(r, cancelled) ==
  IF r = "cancelled" \/ cancelled THEN "canceled"
  ELSE IF r = "error" THEN "faulted" ELSE "ran_to_completion"

AcceptsContinuation_Fault(s) == continuation[s] = NULL
AcceptsContinuation(s) == continuation[s] = NULL /\ ~IsTerminal(status[s])

(* Threads asleep on the condition variable of slot s.                     *)
SleepsOn(c, s) ==
  /\ tcall[c] \in {"wait", "timed"} /\ tpc[c] = "asleep"
  /\ arg[targs[c][tidx[c]]] = s

BroadcastTask_Fault(s) == tpc' = tpc

(* pthread_cond_broadcast(&task->cond)                                     *)
BroadcastTask(s) ==
  tpc' = [c \in Threads |-> IF SleepsOn(c, s) THEN "check" ELSE tpc[c]]

(* pthread_cond_broadcast(&g_completion_cond)                              *)
BroadcastCompletion ==
  tpc' = [c \in Threads |->
            IF tcall[c] = "any" /\ tpc[c] = "asleep" THEN "check" ELSE tpc[c]]

(* A wait returns to its caller.                                           *)
Return(c) ==
  /\ tpc' = [tpc EXCEPT ![c] = "idle"]
  /\ tcall' = [tcall EXCEPT ![c] = "none"]
  /\ targs' = [targs EXCEPT ![c] = << >>]
  /\ tidx' = [tidx EXCEPT ![c] = 0]
  /\ UNCHANGED <<tslot, tjob>>

-----------------------------------------------------------------------------
(* task_run.                                                               *)

(* reserve_task; with no free slot task_run returns NULL and changes       *)
(* nothing.  The slot's mutex is not taken.                                *)
Reserve(c, j) ==
  /\ tpc[c] = "idle"
  /\ wpc[j] = "unborn" /\ \A d \in Threads : tjob[d] # j
  /\ \E s \in Slots :
       /\ FirstFree(s)
       /\ in_use' = [in_use EXCEPT ![s] = TRUE]
       /\ ref_count' = [ref_count EXCEPT ![s] = FreshRefs]
       /\ cancel_requested' = [cancel_requested EXCEPT ![s] = FALSE]
       /\ result' = [result EXCEPT ![s] = "ok"]
       /\ status' = [status EXCEPT ![s] = "pending"]
       /\ continuation' = [continuation EXCEPT ![s] = NULL]
       /\ function' = [function EXCEPT ![s] = NULL]
       /\ tslot' = [tslot EXCEPT ![c] = s]
  /\ tpc' = [tpc EXCEPT ![c] = "reserved"]
  /\ tcall' = [tcall EXCEPT ![c] = "run"]
  /\ tjob' = [tjob EXCEPT ![c] = j]
  /\ UNCHANGED <<workerVars, targs, tidx, handle, histVars>>

LeaveRun(c) ==
  /\ tpc' = [tpc EXCEPT ![c] = "idle"]
  /\ tcall' = [tcall EXCEPT ![c] = "none"]
  /\ tslot' = [tslot EXCEPT ![c] = 0]
  /\ tjob' = [tjob EXCEPT ![c] = NULL]
  /\ UNCHANGED <<targs, tidx>>

(* function and state are stored, pthread_create and pthread_detach        *)
(* succeed: the worker exists and the caller gets its handle.              *)
Create(c) ==
  /\ Reserving(c)
  /\ function' = [function EXCEPT ![tslot[c]] = tjob[c]]
  /\ wpc' = [wpc EXCEPT ![tjob[c]] = "start"]
  /\ arg' = [arg EXCEPT ![tjob[c]] = tslot[c]]
  /\ handle' = handle \cup {tjob[c]}
  /\ LeaveRun(c)
  /\ UNCHANGED <<in_use, ref_count, status, cancel_requested, result, continuation,
                 wres, wcont, histVars>>

(* pthread_create fails: release_reservation.                              *)
CreateFails(c) ==
  /\ Reserving(c)
  /\ function' = [function EXCEPT ![tslot[c]] = tjob[c]]
  /\ in_use' = [in_use EXCEPT ![tslot[c]] = FALSE]
  /\ ref_count' = [ref_count EXCEPT ![tslot[c]] = 0]
  /\ status' = [status EXCEPT ![tslot[c]] = "idle"]
  /\ LeaveRun(c)
  /\ UNCHANGED <<cancel_requested, result, continuation, workerVars, handle, histVars>>

-----------------------------------------------------------------------------
(* inner_thread_function, for the worker of job j.                         *)

Start(j) ==
  /\ wpc[j] = "start"
  /\ status' = [status EXCEPT ![arg[j]] = "running"]
  /\ BroadcastTask(arg[j])
  /\ wpc' = [wpc EXCEPT ![j] = "run"]
  /\ UNCHANGED <<in_use, ref_count, function, cancel_requested, result, continuation,
                 arg, wres, wcont, tcall, tslot, tjob, targs, tidx, handle, histVars>>

(* The task function returns any result; it may poll the cancel flag, so   *)
(* every result is possible whether or not a cancellation was requested.   *)
RunFunction(j) ==
  /\ wpc[j] = "run"
  /\ \E r \in Results : wres' = [wres EXCEPT ![j] = r]
  /\ executed' = [executed EXCEPT ![function[arg[j]]] = @ + 1]
  /\ wpc' = [wpc EXCEPT ![j] = "publish"]
  /\ UNCHANGED <<slotVars, arg, wcont, callVars, handle, told, accepted, contRuns>>

Publish(j) ==
  /\ wpc[j] = "publish"
  /\ result' = [result EXCEPT ![arg[j]] = wres[j]]
  /\ status' = [status EXCEPT ![arg[j]] =
                  FinalStatus(wres[j], cancel_requested[arg[j]])]
  /\ wcont' = [wcont EXCEPT ![j] = continuation[arg[j]]]
  /\ BroadcastTask(arg[j])
  /\ wpc' = [wpc EXCEPT ![j] = "notify"]
  /\ UNCHANGED <<in_use, ref_count, function, cancel_requested, continuation,
                 arg, wres, tcall, tslot, tjob, targs, tidx, handle, histVars>>

Notify(j) ==
  /\ wpc[j] = "notify"
  /\ BroadcastCompletion
  /\ wpc' = [wpc EXCEPT ![j] = "continue"]
  /\ UNCHANGED <<slotVars, arg, wres, wcont, tcall, tslot, tjob, targs, tidx,
                 handle, histVars>>

RunContinuation(j) ==
  /\ wpc[j] = "continue"
  /\ contRuns' = IF wcont[j] = NULL THEN contRuns
                 ELSE [contRuns EXCEPT ![wcont[j]] = @ + 1]
  /\ wpc' = [wpc EXCEPT ![j] = "decref"]
  /\ UNCHANGED <<slotVars, arg, wres, wcont, callVars, handle, told, accepted, executed>>

WorkerRelease(j) ==
  /\ wpc[j] = "decref"
  /\ DecrementRef(arg[j])
  /\ wpc' = [wpc EXCEPT ![j] = "done"]
  /\ UNCHANGED <<function, status, cancel_requested, result, continuation,
                 arg, wres, wcont, callVars, handle, histVars>>

Worker(j) == \/ Start(j) \/ RunFunction(j) \/ Publish(j)
             \/ Notify(j) \/ RunContinuation(j) \/ WorkerRelease(j)

-----------------------------------------------------------------------------
(* Calls on a handle.  Any thread may use a handle that its owner has not  *)
(* released: the accessors are documented as thread-safe.                  *)

(* task_is_completed (and the accessors built on task_get_status).         *)
IsCompleted(c, j) ==
  /\ tpc[c] = "idle" /\ j \in handle
  /\ IsTerminal(status[arg[j]])
  /\ told' = told \cup {j}
  /\ UNCHANGED <<slotVars, workerVars, callVars, handle, accepted, contRuns, executed>>

RequestCancel(c, j) ==
  /\ tpc[c] = "idle" /\ j \in handle
  /\ cancel_requested' = [cancel_requested EXCEPT ![arg[j]] = TRUE]
  /\ BroadcastTask(arg[j])
  /\ UNCHANGED <<in_use, ref_count, function, status, result, continuation,
                 workerVars, tcall, tslot, tjob, targs, tidx, handle, histVars>>

(* A refused registration returns invalid_argument and changes nothing.    *)
ContinueWith(c, j) ==
  /\ tpc[c] = "idle" /\ j \in handle
  /\ AcceptsContinuation(arg[j])
  /\ continuation' = [continuation EXCEPT ![arg[j]] = j]
  /\ accepted' = [accepted EXCEPT ![j] = TRUE]
  /\ UNCHANGED <<in_use, ref_count, function, status, cancel_requested, result,
                 workerVars, callVars, handle, told, contRuns, executed>>

(* task_release.  "After this call the handle must not be used": no other  *)
(* thread is inside a call on it.                                          *)
Release(c, j) ==
  /\ tpc[c] = "idle" /\ j \in handle
  /\ \A d \in Threads : j \notin Elems(targs[d])
  /\ DecrementRef(arg[j])
  /\ handle' = handle \ {j}
  /\ UNCHANGED <<function, status, cancel_requested, result, continuation,
                 workerVars, callVars, histVars>>

(* task_wait is task_wait_all of one task; task_wait_timeout takes one.    *)
(* NULL elements are left out: task_wait_any skips them.                   *)
BeginWait(c) ==
  /\ tpc[c] = "idle"
  /\ \E n \in 1 .. MaxWait, kind \in {"wait", "timed", "any"} :
       /\ kind = "timed" => n = 1
       /\ \E list \in [1 .. n -> handle] : targs' = [targs EXCEPT ![c] = list]
       /\ tcall' = [tcall EXCEPT ![c] = kind]
       /\ tpc' = [tpc EXCEPT ![c] = IF kind = "any" THEN "quick" ELSE "check"]
  /\ tidx' = [tidx EXCEPT ![c] = 1]
  /\ UNCHANGED <<slotVars, workerVars, tslot, tjob, handle, histVars>>

Current(c) == targs[c][tidx[c]]
CurrentDone(c) == IsTerminal(status[arg[Current(c)]])

(* The loop of task_wait and task_wait_timeout under the task mutex.       *)
CheckDone(c) ==
  /\ tcall[c] \in {"wait", "timed"} /\ tpc[c] = "check"
  /\ CurrentDone(c)
  /\ told' = told \cup {Current(c)}
  /\ IF tidx[c] < Len(targs[c])
       THEN /\ tidx' = [tidx EXCEPT ![c] = @ + 1]
            /\ UNCHANGED <<tpc, tcall, tslot, tjob, targs>>
       ELSE Return(c)
  /\ UNCHANGED <<slotVars, workerVars, handle, accepted, contRuns, executed>>

CheckSleep(c) ==
  /\ tcall[c] \in {"wait", "timed"} /\ tpc[c] = "check"
  /\ ~CurrentDone(c)
  /\ tpc' = [tpc EXCEPT ![c] = "asleep"]
  /\ UNCHANGED <<slotVars, workerVars, tcall, tslot, tjob, targs, tidx, handle, histVars>>

(* pthread_cond_timedwait returns ETIMEDOUT: one last look at the status.  *)
Expire(c) ==
  /\ tcall[c] = "timed" /\ tpc[c] = "asleep"
  /\ told' = IF CurrentDone(c) THEN told \cup {Current(c)} ELSE told
  /\ Return(c)
  /\ UNCHANGED <<slotVars, workerVars, handle, accepted, contRuns, executed>>

(* POSIX lets a condition wait return without a broadcast.                 *)
SpuriousWake(c) ==
  /\ tpc[c] = "asleep"
  /\ tpc' = [tpc EXCEPT ![c] = "check"]
  /\ UNCHANGED <<slotVars, workerVars, tcall, tslot, tjob, targs, tidx, handle, histVars>>

(* task_wait_any: a first pass without the pool mutex, then passes that    *)
(* drop the pool mutex around each look at a status and take it back       *)
(* before deciding to sleep on g_completion_cond.                          *)
AnyFound(c) ==
  /\ tcall[c] = "any" /\ tpc[c] \in {"quick", "check"}
  /\ CurrentDone(c)
  /\ told' = told \cup {Current(c)}
  /\ Return(c)
  /\ UNCHANGED <<slotVars, workerVars, handle, accepted, contRuns, executed>>

AnyQuick(c) ==
  /\ tcall[c] = "any" /\ tpc[c] = "quick"
  /\ ~CurrentDone(c)
  /\ IF tidx[c] < Len(targs[c])
       THEN tidx' = [tidx EXCEPT ![c] = @ + 1] /\ tpc' = tpc
       ELSE tidx' = [tidx EXCEPT ![c] = 1] /\ tpc' = [tpc EXCEPT ![c] = "check"]
  /\ UNCHANGED <<slotVars, workerVars, tcall, tslot, tjob, targs, handle, histVars>>

AnyCheck(c) ==
  /\ tcall[c] = "any" /\ tpc[c] = "check"
  /\ ~CurrentDone(c)
  /\ tpc' = [tpc EXCEPT ![c] = "relock"]
  /\ UNCHANGED <<slotVars, workerVars, tcall, tslot, tjob, targs, tidx, handle, histVars>>

AnyRelock(c) ==
  /\ tcall[c] = "any" /\ tpc[c] = "relock"
  /\ IF tidx[c] < Len(targs[c])
       THEN tidx' = [tidx EXCEPT ![c] = @ + 1] /\ tpc' = [tpc EXCEPT ![c] = "check"]
       ELSE tidx' = [tidx EXCEPT ![c] = 1] /\ tpc' = [tpc EXCEPT ![c] = "asleep"]
  /\ UNCHANGED <<slotVars, workerVars, tcall, tslot, tjob, targs, handle, histVars>>

(* The steps a thread takes by itself once it is inside a call.            *)
Proceed(c) == \/ Create(c) \/ CreateFails(c)
              \/ CheckDone(c) \/ CheckSleep(c) \/ Expire(c)
              \/ AnyFound(c) \/ AnyQuick(c) \/ AnyCheck(c) \/ AnyRelock(c)

Call(c, j) == \/ Reserve(c, j) \/ IsCompleted(c, j) \/ RequestCancel(c, j)
              \/ ContinueWith(c, j) \/ Release(c, j)

Next ==
  \/ \E j \in Jobs : Worker(j)
  \/ \E c \in Threads : Proceed(c) \/ SpuriousWake(c) \/ BeginWait(c)
  \/ \E c \in Threads, j \in Jobs : Call(c, j)

Spec == Init /\ [][Next]_vars

(* Threads are scheduled; task functions and continuations return.  No     *)
(* fairness for starting a call, for releasing a handle or for a spurious  *)
(* wake-up.                                                                *)
FairSpec ==
  /\ Spec
  /\ \A j \in Jobs : WF_vars(Worker(j))
  /\ \A c \in Threads : WF_vars(Proceed(c))
-----------------------------------------------------------------------------
(* Type correctness; no reference is ever given back twice (ref_count).    *)
TypeOK ==
  /\ in_use \in [Slots -> BOOLEAN]
  /\ ref_count \in [Slots -> 0 .. 2]
  /\ function \in [Slots -> Jobs \cup {NULL}]
  /\ status \in [Slots -> Status]
  /\ cancel_requested \in [Slots -> BOOLEAN]
  /\ result \in [Slots -> Results]
  /\ continuation \in [Slots -> Jobs \cup {NULL}]
  /\ wpc \in [Jobs -> {"unborn", "start", "run", "publish", "notify",
                       "continue", "decref", "done"}]
  /\ arg \in [Jobs -> Slots \cup {0}]
  /\ wres \in [Jobs -> Results]
  /\ wcont \in [Jobs -> Jobs \cup {NULL}]
  /\ tpc \in [Threads -> {"idle", "reserved", "quick", "check", "relock", "asleep"}]
  /\ tcall \in [Threads -> {"none", "run", "wait", "timed", "any"}]
  /\ tslot \in [Threads -> Slots \cup {0}]
  /\ tjob \in [Threads -> Jobs \cup {NULL}]
  /\ targs \in [Threads -> Seq(Jobs)]
  /\ tidx \in [Threads -> Nat]
  /\ handle \subseteq Jobs
  /\ told \subseteq Jobs
  /\ accepted \in [Jobs -> BOOLEAN]
  /\ contRuns \in [Jobs -> Nat]
  /\ executed \in [Jobs -> Nat]

(* ref_count is the number of live references to a slot's job: one while   *)
(* its caller has not released it, one while its worker has not.  Neither  *)
(* order of the two releases can free the slot early or leak it            *)
(* (task_decrement_ref against release_reservation and reserve_task).      *)
Refs(j) == (IF j \in handle THEN 1 ELSE 0) + (IF Alive(j) THEN 1 ELSE 0)
RefCountIsHolders ==
  \A j \in Jobs : Holds(j) => in_use[arg[j]] /\ ref_count[arg[j]] = Refs(j)

(* A slot is in use exactly while task_run is filling it or its job is     *)
(* held by its caller or its worker: no slot leaks from the pool, however  *)
(* task_run, its failure and the releases interleave.                      *)
NoSlotLeak ==
  \A s \in Slots :
    in_use[s] <=> \/ \E c \in Threads : Reserving(c) /\ tslot[c] = s
                  \/ \E j \in Jobs : Holds(j) /\ arg[j] = s

(* No two jobs that are still held share a task_t: a handle, a worker and  *)
(* its continuation never see another job's slot.                          *)
NoSharing ==
  \A j, k \in Jobs : Holds(j) /\ Holds(k) /\ arg[j] = arg[k] => j = k

(* The worker executes the function given to the task_run that made it,    *)
(* and executes it once.                                                   *)
ExecutedOnce ==
  \A j \in Jobs :
    executed[j] = IF wpc[j] \in {"unborn", "start", "run"} THEN 0 ELSE 1

(* Once a caller was told by a wait or an accessor that its task is        *)
(* complete, task_get_status and task_get_result give that task's own      *)
(* outcome for as long as the handle lives: the result of its function,    *)
(* faulted only for an error, ran_to_completion only for a success,        *)
(* canceled only if it was asked to stop or stopped by itself.             *)
OutcomeIsOwn ==
  \A j \in told \cap handle :
    LET s == arg[j] IN
    /\ IsTerminal(status[s]) /\ result[s] = wres[j]
    /\ status[s] = "ran_to_completion" => result[s] = "ok"
    /\ status[s] = "faulted" => result[s] = "error"
    /\ status[s] = "canceled" => result[s] = "cancelled" \/ cancel_requested[s]

(* A continuation runs at most once, only if continue_with accepted it,    *)
(* only after its job is complete, and it has run when the worker ends:    *)
(* continue_with racing the publication of the result either registers a   *)
(* continuation that will run or is refused.                               *)
ContinuationOnce ==
  \A j \in Jobs :
    /\ contRuns[j] <= 1
    /\ contRuns[j] = 1 => accepted[j] /\ wpc[j] \in {"decref", "done"}
    /\ accepted[j] /\ wpc[j] \in {"decref", "done"} => contRuns[j] = 1

(* While a slot stays in use a terminal status and its result never        *)
(* change, whatever is called on the handle.                               *)
TerminalIsFinal ==
  [][\A s \in Slots :
       in_use[s] /\ in_use'[s] /\ IsTerminal(status[s])
         => status'[s] = status[s] /\ result'[s] = result[s]]_vars

(* Seen through the handles, the pool behaves as independent futures: the  *)
(* sharing of slots, the reference counts and the locks do not show.       *)
Phase == [j \in Jobs |-> IF wpc[j] = "unborn" THEN "none"
                         ELSE IF Holds(j) THEN status[arg[j]] ELSE "gone"]
Outcome == [j \in Jobs |-> IF Phase[j] \in Terminal THEN result[arg[j]] ELSE NULL]

F == INSTANCE Future WITH NoResult <- NULL, phase <- Phase, outcome <- Outcome,
                          attached <- accepted, runs <- contRuns
ImplementsFuture == F!Spec

(* task_wait and task_wait_all return: a worker that publishes a terminal  *)
(* status wakes every thread that decided to sleep before it.              *)
WaitReturns ==
  \A c \in Threads : tcall[c] = "wait" ~> tcall[c] # "wait"

(* Fire and forget: a job whose caller released it finishes and gives its  *)
(* slot back to the pool.                                                  *)
SlotReturned ==
  \A j \in Jobs :
    wpc[j] # "unborn" /\ j \notin handle
      ~> wpc[j] = "done" /\ (in_use[arg[j]] => function[arg[j]] # j)

(* A continuation that was accepted runs.                                  *)
ContinuationRuns == \A j \in Jobs : accepted[j] ~> contRuns[j] = 1

(* task_wait_any, "Block on the global completion cond, rechecking each    *)
(* wake": it returns once one of its tasks is complete.                    *)
WaitAnyReturns ==
  \A c \in Threads :
    tcall[c] = "any" /\ (\E j \in Elems(targs[c]) : IsTerminal(status[arg[j]]))
      ~> tcall[c] # "any"
=============================================================================
