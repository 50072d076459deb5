--------------------------- MODULE EventLoopEpoll ---------------------------
(***************************************************************************)
(* The epoll backend of src/event_loop.c: the kernel's interest set, which *)
(* register, modify and unregister update outside the table's lock, and    *)
(* the eventfd that stop and wake write.                                   *)
(***************************************************************************)
EXTENDS EventLoop, Integers

CONSTANTS WakeFd,    \* the eventfd
          MaxWake    \* bound: its counter (2^64 - 2), saturating

ASSUME WakeFdAssumption == WakeFd \notin Fds \cup {NoFd}
ASSUME MaxWakeAssumption == MaxWake \in Nat \ {0}

VARIABLES interest,  \* epoll set: descriptor -> "absent" or its events
          wakefd     \* counter of the eventfd, -1 when closed

epollVars == <<vars, interest, wakefd>>
kernelVars == <<interest, wakefd>>

(* event_loop_init                                                         *)
EpollInit == Init /\ interest = [f \in Fds |-> "absent"] /\ wakefd = 0

Open == wakefd # -1

(* The loop thread goes on to the second half of a call; the call returns. *)
Enter(pc, locals) == apc' = [apc EXCEPT ![Loop] = pc] /\ req' = locals
Leave == Enter("idle", NoRequest)

(* event_loop_register: an entry under the lock, then EPOLL_CTL_ADD, which *)
(* refuses a descriptor it has (or cannot watch); then the entry is freed. *)
Register(f, ev) ==
  /\ MayCall(Loop) /\ Open /\ regs < MaxRegs
  /\ \E e \in AllocEntry :
       /\ AddEntry(e, f, ev)
       /\ Enter("add", [NoRequest EXCEPT !.fd = f, !.events = ev, !.entry = e])
  /\ UNCHANGED <<gone, loopVars, ready, work, kernelVars>>

AddInterest ==
  /\ apc[Loop] = "add"
  /\ LET f == req.fd IN
       \/ /\ interest[f] = "absent"
          /\ interest' = [interest EXCEPT ![f] = req.events]
          /\ Leave
       \/ Enter("undo", req) /\ UNCHANGED interest
  /\ UNCHANGED <<tableVars, loopVars, ready, work, wakefd>>

FreeOnError_Fault(e) == table' = table
FreeOnError(e) == table' = [table EXCEPT ![e].fd = NoFd]

UndoRegister ==
  /\ apc[Loop] = "undo"
  /\ FreeOnError(req.entry)
  /\ Leave
  /\ UNCHANGED <<regs, gone, loopVars, ready, work, kernelVars>>

(* event_loop_modify: nothing for a descriptor that is not in the table;   *)
(* EPOLL_CTL_MOD fails for one that is not in the set.                     *)
Modify(f, ev) ==
  /\ MayCall(Loop) /\ Open /\ With(f) # {}
  /\ SetEvents(f, ev)
  /\ Enter("mod", [NoRequest EXCEPT !.fd = f, !.events = ev])
  /\ UNCHANGED <<regs, gone, loopVars, ready, work, kernelVars>>

ModifiedInterest_Fault(old, ev) == old
ModifiedInterest(old, ev) == IF old = "absent" THEN old ELSE ev

ModifyInterest ==
  /\ apc[Loop] = "mod"
  /\ interest' = [interest EXCEPT ![req.fd] = ModifiedInterest(@, req.events)]
  /\ Leave
  /\ UNCHANGED <<tableVars, loopVars, ready, work, wakefd>>

(* event_loop_unregister: EPOLL_CTL_DEL, then the entry.                   *)
Unregister(f) ==
  /\ MayCall(Loop) /\ Open
  /\ interest' = [interest EXCEPT ![f] = "absent"]
  /\ Enter("clear", [NoRequest EXCEPT !.fd = f, !.ids = IdsOf(f)])
  /\ UNCHANGED <<tableVars, loopVars, ready, work, wakefd>>

Cleared_Fault(f) == table' = table
Cleared(f) == ClearEntry(f)

FinishUnregister ==
  /\ apc[Loop] = "clear"
  /\ Cleared(req.fd)
  /\ gone' = gone \cup req.ids
  /\ Leave
  /\ UNCHANGED <<regs, loopVars, ready, work, kernelVars>>

-----------------------------------------------------------------------------
(* event_loop_stop sets the flag, event_loop_wake follows a change of the  *)
(* shared queue; both then write the eventfd, from any thread.  A write    *)
(* that finds the counter saturated changes nothing and is no failure.     *)
Stop(a) ==
  /\ MayCall(a) /\ Open
  /\ stop_requested' = TRUE
  /\ asked' = (asked \/ running)
  /\ apc' = [apc EXCEPT ![a] = "kick"] /\ req' = req
  /\ UNCHANGED <<tableVars, running, lpc, driver, batch, lcb, ready, work, kernelVars>>

Post(a) ==
  /\ MayCall(a) /\ Open /\ a # Loop
  /\ work' = TRUE
  /\ apc' = [apc EXCEPT ![a] = "kick"] /\ req' = req
  /\ UNCHANGED <<tableVars, loopVars, ready, kernelVars>>

Written_Fault(n) == n
Written(n) == IF n < MaxWake THEN n + 1 ELSE n

Kick(a) ==
  /\ apc[a] = "kick"
  /\ wakefd' = Written(wakefd)
  /\ apc' = [apc EXCEPT ![a] = "idle"] /\ req' = req
  /\ UNCHANGED <<tableVars, loopVars, ready, work, interest>>

FinishCall == AddInterest \/ UndoRegister \/ ModifyInterest \/ FinishUnregister

CallFor(f) ==
  Unregister(f) \/ \E ev \in Interest : Register(f, ev) \/ Modify(f, ev)

-----------------------------------------------------------------------------
(* epoll_wait: level-triggered, hangups always.  It sleeps until something *)
(* is ready and returns everything that is, in any order, or Batch of it.  *)
Pending ==
  {f \in Fds : \/ interest[f] # "absent" /\ ready[f] = "hangup"
               \/ interest[f] = "read" /\ ready[f] = "readable"}
    \cup (IF wakefd > 0 THEN {WakeFd} ELSE {})

PollReturns(x) ==
  /\ lpc = "wait" /\ Open /\ x \in Pending
  /\ \E S \in SUBSET Pending :
       /\ x \in S
       /\ IF Cardinality(Pending) <= Batch THEN S = Pending ELSE Cardinality(S) = Batch
       /\ \E list \in SetToSeqs(S) : Take(list)
  /\ UNCHANGED kernelVars

(* A signal, or the timeout of run_once; or another failure.               *)
PollEmpty == lpc = "wait" /\ Take(<< >>) /\ UNCHANGED kernelVars
PollFails == lpc = "wait" /\ WaitFails /\ UNCHANGED kernelVars

Drain ==
  /\ lpc = "batch" /\ batch # << >> /\ Head(batch) = WakeFd
  /\ wakefd' = 0
  /\ batch' = Tail(batch)
  /\ UNCHANGED <<tableVars, running, stop_requested, lpc, driver, lcb, asked, callVars,
                 ready, work, interest>>

(* The kernel forgets a closed file.                                       *)
CloseAndReopen(f) ==
  /\ Reopen(f)
  /\ interest' = [interest EXCEPT ![f] = "absent"]
  /\ UNCHANGED wakefd

(* event_loop_deinit, when no thread is inside the API.                    *)
Deinit ==
  /\ Open /\ lpc = "out" /\ \A a \in Actors : apc[a] = "idle"
  /\ wakefd' = -1
  /\ interest' = [f \in Fds |-> "absent"]
  /\ UNCHANGED vars

Drive == Open /\ (RunBegin \/ RunOnce)

Next ==
  \/ \E a \in Actors : Kick(a) \/ Stop(a) \/ Post(a)
  \/ FinishCall
  \/ \E f \in Fds : CallFor(f)
  \/ \E x \in Fds \cup {WakeFd} : PollReturns(x)
  \/ \E f \in Fds : CloseAndReopen(f)
  \/ PollEmpty \/ PollFails \/ Drain \/ Deinit
  \/ (Drive \/ RunReset \/ RunHead \/ Dispatch \/ CallbackReturns \/ Files)
       /\ UNCHANGED kernelVars

Spec == EpollInit /\ [][Next]_epollVars

(* Threads inside the API are scheduled, a callback returns after finitely *)
(* many calls, the application keeps driving a loop it has not deinited,   *)
(* and the kernel, which moves a reported descriptor to the tail of its    *)
(* list, reports each pending one if asked often enough.                   *)
FairSpec ==
  /\ Spec
  /\ WF_epollVars(FinishCall) /\ \A a \in Actors : WF_epollVars(Kick(a))
  /\ \A x \in Fds \cup {WakeFd} : SF_epollVars(PollReturns(x))
  /\ WF_epollVars((RunReset \/ RunHead \/ Dispatch) /\ UNCHANGED kernelVars)
  /\ WF_epollVars(Drain)
  /\ SF_epollVars(CallbackReturns /\ UNCHANGED kernelVars)
  /\ SF_epollVars(Drive /\ UNCHANGED kernelVars)
-----------------------------------------------------------------------------
TypeOK ==
  /\ LoopTypeOK
  /\ interest \in [Fds -> Interest \cup {"absent"}]
  /\ wakefd \in -1 .. MaxWake
  /\ apc \in [Actors -> {"idle", "add", "undo", "mod", "clear", "kick"}]

(* Between calls the table and the kernel's set agree: a descriptor is     *)
(* watched iff exactly one entry has it, with the events of that entry.    *)
(* A failed register, a duplicate or an unregister leave nothing behind.   *)
TableMatchesEpoll ==
  /\ TypeOK
  /\ Open /\ (\A a \in Actors : apc[a] = "idle") =>
       \A f \in Fds : {table[e].events : e \in With(f)} =
                        (IF interest[f] = "absent" THEN {} ELSE {interest[f]})
                      /\ Cardinality(With(f)) <= 1

(* The loop invokes the callback: a descriptor that stays ready is served  *)
(* unless the application loses interest in it or ends the loop, in every  *)
(* batch size and whatever else is ready all the time.                     *)
ReadyIsServed ==
  \A f \in Fds : Asks(f) /\ ready[f] # "idle"
                   ~> \/ ~Asks(f) \/ ready[f] = "idle" \/ Served(f)
                      \/ stop_requested \/ ~Open

(* What is queued before a wake is flushed by a loop driven through        *)
(* run_once, although the wait of run_once need not end by itself.         *)
WorkIsFlushed == work ~> ~work \/ driver = "run" \/ ~Open
=============================================================================
