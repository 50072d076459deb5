---------------------------- MODULE TaskPlatform ----------------------------
(***************************************************************************)
(* task_platform_deinit of src/task.c running against the pool: the scan   *)
(* for tasks that have not reached a terminal status, which drops the pool *)
(* mutex around every status it reads, and the destruction of the slots'   *)
(* and the pool's synchronisation objects.  TaskPool starts in the state   *)
(* task_platform_init leaves.  What a thread does to a destroyed mutex is  *)
(* undefined, so a behaviour ends with the destruction; the properties say *)
(* who may still be about to touch one.                                    *)
(***************************************************************************)
EXTENDS TaskPool

CONSTANTS NestedRuns,  \* task functions may call task_run during the deinit
          WaitKinds    \* bound: the waits that are begun, among "wait",
                       \* "timed" and "any"

VARIABLES g_platform_initialized,
          dpc,        \* "up", "scan", "look", "sleep", "down"
          didx        \* the slot the scan is at

platformVars == <<g_platform_initialized, dpc, didx>>
allVars == <<vars, platformVars>>

PlatformInit == Init /\ g_platform_initialized = TRUE /\ dpc = "up" /\ didx = 0

(* The application is done starting tasks; its handles may have leaked.    *)
DeinitBegin ==
  /\ dpc = "up" /\ g_platform_initialized
  /\ \A c \in Threads : tpc[c] = "idle"
  /\ dpc' = "scan" /\ didx' = 0
  /\ UNCHANGED <<vars, g_platform_initialized>>

(* pthread_*_destroy on every slot, then on the pool.                      *)
Destroy ==
  /\ in_use' = [s \in Slots |-> FALSE]
  /\ ref_count' = [s \in Slots |-> 0]
  /\ g_platform_initialized' = FALSE
  /\ dpc' = "down" /\ didx' = 0
  /\ UNCHANGED <<function, status, cancel_requested, result, continuation,
                 workerVars, callVars, handle, histVars>>

(* With the pool mutex, over the free slots to the next one in use; past   *)
(* the last one, no task was running in this pass.                         *)
DeinitScan ==
  /\ dpc = "scan"
  /\ \/ \E s \in Slots :
          /\ s > didx /\ in_use[s]
          /\ \A t \in Slots : didx < t /\ t < s => ~in_use[t]
          /\ dpc' = "look" /\ didx' = s
          /\ UNCHANGED <<vars, g_platform_initialized>>
     \/ /\ \A t \in Slots : t > didx => ~in_use[t]
        /\ Destroy

Settled_FaultRunning(s) == status[s] # "pending"
Settled(s) == IsTerminal(status[s])

(* task_get_status without the pool mutex; a task that is not finished     *)
(* ends the pass.                                                          *)
DeinitLook ==
  /\ dpc = "look"
  /\ dpc' = IF Settled(didx) THEN "scan" ELSE "sleep"
  /\ UNCHANGED <<vars, g_platform_initialized, didx>>

(* task_sleep_ms(5), then a new pass.                                      *)
DeinitSleep ==
  /\ dpc = "sleep"
  /\ dpc' = "scan" /\ didx' = 0
  /\ UNCHANGED <<vars, g_platform_initialized>>

Deinit == DeinitScan \/ DeinitLook \/ DeinitSleep

(* task_run is only for an initialized platform; once the deinit has       *)
(* begun, only a task function can still call it.                          *)
MayRun == /\ g_platform_initialized
          /\ dpc = "up" \/ (NestedRuns /\ \E j \in Jobs : wpc[j] = "run")

(* Such a call returns before the function that makes it does.             *)
MayReturn(j) == dpc # "up" /\ wpc[j] = "run" => \A c \in Threads : ~Reserving(c)

PoolStep ==
  /\ dpc # "down"
  /\ \/ \E j \in Jobs : Worker(j) /\ MayReturn(j)
     \/ \E c \in Threads : Proceed(c) \/ SpuriousWake(c)
                               \/ (BeginWait(c) /\ tcall'[c] \in WaitKinds)
     \/ \E c \in Threads, j \in Jobs : Call(c, j) /\ (tpc'[c] = "reserved" => MayRun)
  /\ UNCHANGED platformVars

PlatformNext == PoolStep \/ DeinitBegin \/ Deinit

PlatformSpec == PlatformInit /\ [][PlatformNext]_allVars
-----------------------------------------------------------------------------
(* "task_platform_deinit() will block until every running task reaches a   *)
(* terminal state" (task.h): when the pool is destroyed no task function   *)
(* is running or about to run, whatever the scan missed while it did not   *)
(* hold the pool mutex.                                                    *)
DeinitWaitsForTasks ==
  dpc = "down" => \A j \in Jobs : wpc[j] \notin {"start", "run", "publish"}

(* "once the worker has terminated, the slot may safely be reclaimed"      *)
(* (task.c): the destroyed mutexes and conditions, and the slots, are not  *)
(* in use by a worker.                                                     *)
DeinitWaitsForWorkers == dpc = "down" => \A j \in Jobs : ~Alive(j)
=============================================================================
