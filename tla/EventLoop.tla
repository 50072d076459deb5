----------------------------- MODULE EventLoop -----------------------------
(***************************************************************************)
(* What the two backends of src/event_loop.c share: the table of           *)
(* registered descriptors, event_loop_run, and the dispatch of a batch of  *)
(* ready descriptors to their callbacks.  The table's mutex is held within *)
(* one action and never while a callback runs.                             *)
(*                                                                         *)
(* A registration is one successful reservation of a table entry; its      *)
(* number stands for the (cb, user) pair, 0 for a NULL cb.                 *)
(***************************************************************************)
EXTENDS Naturals, Sequences, FiniteSets, FiniteSetsExt, SequencesExt

CONSTANTS Fds,           \* descriptors of the application
          MaxFds,        \* EVENT_LOOP_MAX_FDS
          Batch,         \* EVENT_LOOP_BATCH
          MaxRegs,       \* bound: registrations in a behaviour
          Loop, Others,  \* the loop thread, the other threads
          NoFd

ASSUME SizesAssumption == {MaxFds, Batch} \subseteq Nat \ {0} /\ MaxRegs \in Nat
ASSUME FdsAssumption == IsFiniteSet(Fds)
ASSUME LoopAssumption == Loop \notin Others
ASSUME NoFdAssumption == NoFd \notin Fds

Entries == 1 .. MaxFds
Regs == 0 .. MaxRegs
Actors == {Loop} \cup Others
Interest == {"none", "read"}

VARIABLES
  table,                     \* entry -> fd (NoFd = free), events, cb
  running, stop_requested,   \* event_loop_t
  lpc, driver,               \* loop thread: program counter; run or run_once
  batch, lcb,                \* ready descriptors left; the callback looked up
  apc, req,                  \* actor: program counter in a call; the loop
                             \* thread's: its locals
  ready,                     \* descriptor -> what the file behind it reports
  work,                      \* queued for the loop thread, not flushed yet
  regs, gone, asked          \* history: registrations; those whose unregister
                             \* returned; a stop came since the loop runs

tableVars == <<table, regs, gone>>
loopVars == <<running, stop_requested, lpc, driver, batch, lcb, asked>>
callVars == <<apc, req>>
vars == <<tableVars, loopVars, callVars, ready, work>>

NoRequest == [fd |-> NoFd, events |-> "none", entry |-> 0, ids |-> {}]
FreeEntry == [fd |-> NoFd, events |-> "none", cb |-> 0]

Init ==
  /\ table = [e \in Entries |-> FreeEntry]
  /\ running = FALSE /\ stop_requested = FALSE
  /\ lpc = "out" /\ driver = "none" /\ batch = << >> /\ lcb = 0
  /\ apc = [a \in Actors |-> "idle"]
  /\ req = NoRequest
  /\ ready = [f \in Fds |-> "idle"]
  /\ work = FALSE
  /\ regs = 0 /\ gone = {} /\ asked = FALSE

-----------------------------------------------------------------------------
(* The table.                                                              *)

With(f) == {e \in Entries : table[e].fd = f}

(* find_entry and alloc_entry: the first one, or none.                     *)
FindEntry(f) == IF With(f) = {} THEN {} ELSE {Min(With(f))}
AllocEntry == FindEntry(NoFd)

AddEntry(e, f, ev) ==
  /\ table' = [table EXCEPT ![e] = [fd |-> f, events |-> ev, cb |-> regs + 1]]
  /\ regs' = regs + 1

SetEvents(f, ev) ==
  table' = [e \in Entries |-> IF e \in FindEntry(f)
                              THEN [table[e] EXCEPT !.events = ev] ELSE table[e]]

ClearEntry(f) ==
  table' = [e \in Entries |-> IF e \in FindEntry(f)
                              THEN [table[e] EXCEPT !.fd = NoFd, !.cb = 0] ELSE table[e]]

(* The registrations of f, which an unregister of f is asked to end.       *)
IdsOf(f) == {table[e].cb : e \in With(f)}

(* The loop thread calls from a callback or between two runs, and it alone *)
(* registers, modifies and unregisters: only stop and wake are documented  *)
(* as safe to call from any thread.                                        *)
MayCall(a) ==
  /\ apc[a] = "idle"
  /\ a = Loop => lpc \in {"out", "callback"}

-----------------------------------------------------------------------------
(* event_loop_run, event_loop_run_once.                                    *)

RunBegin ==
  /\ lpc = "out" /\ apc[Loop] = "idle"
  /\ running' = TRUE /\ driver' = "run" /\ lpc' = "reset"
  /\ UNCHANGED <<tableVars, stop_requested, batch, lcb, asked, callVars, ready, work>>

RunReset ==
  /\ lpc = "reset"
  /\ stop_requested' = FALSE /\ lpc' = "head"
  /\ UNCHANGED <<tableVars, running, driver, batch, lcb, asked, callVars, ready, work>>

(* The application looks at its queue whenever the loop hands control back. *)
LeaveRun ==
  /\ running' = FALSE /\ driver' = "none" /\ lpc' = "flush" /\ asked' = FALSE
  /\ UNCHANGED <<tableVars, stop_requested, batch, lcb, callVars, ready, work>>

RunHead ==
  /\ lpc = "head"
  /\ \/ stop_requested /\ LeaveRun
     \/ /\ ~stop_requested /\ lpc' = "wait"
        /\ UNCHANGED <<tableVars, running, stop_requested, driver, batch, lcb, asked,
                       callVars, ready, work>>

RunOnce ==
  /\ lpc = "out" /\ apc[Loop] = "idle"
  /\ driver' = "once" /\ lpc' = "wait"
  /\ UNCHANGED <<tableVars, running, stop_requested, batch, lcb, asked, callVars,
                 ready, work>>

(* The wait for ready descriptors returned these; none after a timeout or  *)
(* a signal.                                                               *)
Take(list) ==
  /\ batch' = list /\ lpc' = "batch"
  /\ UNCHANGED <<tableVars, running, stop_requested, driver, lcb, asked, callVars,
                 ready, work>>

(* It returned another error: so does the loop.                            *)
WaitFails == LeaveRun

(* A descriptor's entry is looked up under the lock and called without it. *)
Callback(f) ==
  IF FindEntry(f) = {} THEN 0 ELSE table[CHOOSE e \in FindEntry(f) : TRUE].cb

Lookup ==
  /\ lpc = "batch" /\ batch # << >> /\ Head(batch) \in Fds
  /\ lcb' = Callback(Head(batch))
  /\ IF lcb' = 0 THEN batch' = Tail(batch) /\ lpc' = lpc
                 ELSE batch' = batch /\ lpc' = "invoke"
  /\ UNCHANGED <<tableVars, running, stop_requested, driver, asked, callVars, ready, work>>

Invoke ==
  /\ lpc = "invoke" /\ lpc' = "callback"
  /\ UNCHANGED <<tableVars, running, stop_requested, driver, batch, lcb, asked,
                 callVars, ready, work>>

CallbackReturns ==
  /\ lpc = "callback" /\ apc[Loop] = "idle"
  /\ lpc' = "batch" /\ batch' = Tail(batch) /\ lcb' = 0
  /\ UNCHANGED <<tableVars, running, stop_requested, driver, asked, callVars, ready, work>>

(* run_once returns, to event_loop_run or to a loop of the application's   *)
(* own.                                                                    *)
EndBatch ==
  /\ lpc = "batch" /\ batch = << >>
  /\ lpc' = IF driver = "run" THEN "head" ELSE "flush"
  /\ UNCHANGED <<tableVars, running, stop_requested, driver, batch, lcb, asked,
                 callVars, ready, work>>

Flush ==
  /\ lpc = "flush"
  /\ work' = FALSE /\ driver' = "none" /\ lpc' = "out"
  /\ UNCHANGED <<tableVars, running, stop_requested, batch, lcb, asked, callVars, ready>>

Dispatch == Lookup \/ Invoke \/ EndBatch \/ Flush

-----------------------------------------------------------------------------
(* The files behind the descriptors.  The callback of a descriptor reads   *)
(* what there is; a hangup stays until the file is closed.  The number of  *)
(* an unregistered descriptor may be closed and given to a new file.       *)
Arrive(f) ==
  /\ ready[f] # "hangup"
  /\ \E r \in {"readable", "hangup"} : ready' = [ready EXCEPT ![f] = r]
  /\ UNCHANGED <<tableVars, loopVars, callVars, work>>

CallbackReads ==
  /\ lpc = "callback" /\ apc[Loop] = "idle"
  /\ ready[Head(batch)] = "readable"
  /\ ready' = [ready EXCEPT ![Head(batch)] = "idle"]
  /\ UNCHANGED <<tableVars, loopVars, callVars, work>>

Reopen(f) ==
  /\ MayCall(Loop) /\ With(f) = {}
  /\ ready' = [ready EXCEPT ![f] = "idle"]
  /\ UNCHANGED <<tableVars, loopVars, callVars, work>>

Files == CallbackReads \/ \E f \in Fds : Arrive(f)

-----------------------------------------------------------------------------
LoopTypeOK ==
  /\ table \in [Entries -> [fd : Fds \cup {NoFd}, events : Interest, cb : Regs]]
  /\ running \in BOOLEAN /\ stop_requested \in BOOLEAN /\ asked \in BOOLEAN
  /\ lpc \in {"out", "reset", "head", "wait", "select", "batch", "invoke", "callback", "flush"}
  /\ driver \in {"none", "run", "once"}
  /\ Len(batch) <= Batch /\ lcb \in Regs
  /\ ready \in [Fds -> {"idle", "readable", "hangup"}]
  /\ work \in BOOLEAN /\ regs \in Regs /\ gone \subseteq Regs
  /\ req.fd \in Fds \cup {NoFd} /\ (apc[Loop] = "idle" => req = NoRequest)

(* "After this call the loop will not invoke the callback for that fd"     *)
(* (event_loop.h): whatever the batch in hand still holds and whatever is  *)
(* registered under the same number since.                                 *)
NoCallbackAfterUnregister == [][lpc = "invoke" /\ lpc' = "callback" => lcb \notin gone]_vars

(* A registration asks for f; its callback runs.                           *)
Asks(f) == \E e \in FindEntry(f) : table[e].events = "read"
Served(f) == lpc = "callback" /\ Head(batch) = f

(* A stop that event_loop_run has not overwritten ends it.                 *)
StopStops == stop_requested /\ running /\ lpc # "reset" ~> ~running

(* "Request the running loop to exit. Safe to call from any thread"        *)
(* (event_loop.h): a stop called while the loop is running ends it.        *)
StopIsNeverLost == asked ~> ~running
=============================================================================
