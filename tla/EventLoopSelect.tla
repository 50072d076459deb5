-------------------------- MODULE EventLoopSelect --------------------------
(***************************************************************************)
(* The select backend of src/event_loop.c: no kernel set and no wake-up,   *)
(* but a snapshot of the table for every wait and a bound on how long a    *)
(* wait can last.                                                          *)
(***************************************************************************)
EXTENDS EventLoop

VARIABLE snap         \* what the pending select watches: a sequence of
                      \* descriptors with their events

selectVars == <<vars, snap>>

(* event_loop_init                                                         *)
SelectInit == Init /\ snap = << >>

(* event_loop_register, modify and unregister are one critical section     *)
(* each; a descriptor select cannot represent is not in Fds.  Nothing      *)
(* here refuses a descriptor that is registered already; the application   *)
(* does not do that.                                                       *)
Register(f, ev) ==
  /\ MayCall(Loop) /\ regs < MaxRegs
  /\ With(f) = {}
  /\ \E e \in AllocEntry : AddEntry(e, f, ev)
  /\ UNCHANGED <<gone, loopVars, callVars, ready, work, snap>>

Modify(f, ev) ==
  /\ MayCall(Loop) /\ With(f) # {}
  /\ SetEvents(f, ev)
  /\ UNCHANGED <<regs, gone, loopVars, callVars, ready, work, snap>>

Cleared_Fault(f) == table' = table
Cleared(f) == ClearEntry(f)

Unregister(f) ==
  /\ MayCall(Loop)
  /\ Cleared(f)
  /\ gone' = gone \cup IdsOf(f)
  /\ UNCHANGED <<regs, loopVars, callVars, ready, work, snap>>

(* event_loop_stop only sets the flag; event_loop_wake does nothing, so a  *)
(* post is its change of the shared queue.                                 *)
Stop(a) ==
  /\ MayCall(a)
  /\ stop_requested' = TRUE
  /\ asked' = (asked \/ running)
  /\ UNCHANGED <<tableVars, running, lpc, driver, batch, lcb, callVars, ready, work, snap>>

Post(a) ==
  /\ MayCall(a) /\ a # Loop
  /\ work' = TRUE
  /\ UNCHANGED <<tableVars, loopVars, callVars, ready, snap>>

-----------------------------------------------------------------------------
(* event_loop_run_once: the first Batch entries in use go into the sets.   *)
Watched_Fault == {e \in Entries : table[e].fd # NoFd /\ e < Batch}
Watched_FaultFree == {e \in Entries : e <= Batch}
Watched ==
  {e \in Entries : /\ table[e].fd # NoFd
                   /\ Cardinality({d \in 1 .. e : table[d].fd # NoFd}) <= Batch}

(* Indices, counted upwards.                                               *)
InOrder(S) == {s \in SetToSeqs(S) : \A i, j \in DOMAIN s : i < j => s[i] < s[j]}

Snapshot ==
  /\ lpc = "wait" /\ lpc' = "select"
  /\ \E es \in InOrder(Watched) :
       snap' = [i \in DOMAIN es |-> [fd |-> table[es[i]].fd, events |-> table[es[i]].events]]
  /\ UNCHANGED <<tableVars, running, stop_requested, driver, batch, lcb, asked, callVars,
                 ready, work>>

(* select reports end of file and errors as readability; its exceptional   *)
(* conditions (out-of-band data) are not modelled.                         *)
Reported(f) ==
  /\ ready[f] # "idle"
  /\ \E i \in DOMAIN snap : snap[i] = [fd |-> f, events |-> "read"]

(* An infinite wait is cut to EVENT_LOOP_SELECT_WAKE_INTERVAL_MS, so the   *)
(* call ends whether or not there is something to report.                  *)
Ends_Fault == \E f \in Fds : Reported(f)
Ends == TRUE

SelectReturns ==
  /\ lpc = "select" /\ Ends
  /\ \E hits \in InOrder({i \in DOMAIN snap : Reported(snap[i].fd)}) :
       Take([i \in DOMAIN hits |-> snap[hits[i]].fd])
  /\ snap' = << >>

(* The bound of the wait is reached, or a signal came, before a descriptor *)
(* was seen ready; or select failed.                                       *)
SelectEmpty == lpc = "select" /\ Take(<< >>) /\ snap' = << >>
SelectFails == lpc = "select" /\ WaitFails /\ snap' = << >>

CallFor(f) ==
  Unregister(f) \/ \E ev \in Interest : Register(f, ev) \/ Modify(f, ev)

Drive == RunBegin \/ RunOnce

Next ==
  \/ \E a \in Actors : Stop(a) \/ Post(a)
  \/ \E f \in Fds : CallFor(f)
  \/ Snapshot \/ SelectReturns \/ SelectEmpty \/ SelectFails
  \/ (Drive \/ RunReset \/ RunHead \/ Dispatch \/ CallbackReturns \/ Files
        \/ \E f \in Fds : Reopen(f)) /\ UNCHANGED snap

Spec == SelectInit /\ [][Next]_selectVars

(* The loop thread is scheduled, a callback returns after finitely many    *)
(* calls, and the application keeps driving the loop.  The wait is         *)
(* bounded: select returns, and not always before a descriptor that stays  *)
(* ready is reported.                                                      *)
SelectReports(f) == Reported(f) /\ SelectReturns
FairSpec ==
  /\ Spec
  /\ WF_selectVars(Snapshot)
  /\ WF_selectVars(SelectReturns)
  /\ \A f \in Fds : SF_selectVars(SelectReports(f))
  /\ WF_selectVars((RunReset \/ RunHead \/ Dispatch) /\ UNCHANGED snap)
  /\ SF_selectVars(CallbackReturns /\ UNCHANGED snap)
  /\ SF_selectVars(Drive /\ UNCHANGED snap)
-----------------------------------------------------------------------------
TypeOK ==
  /\ LoopTypeOK
  /\ snap \in Seq([fd : Fds, events : Interest])
  /\ apc = [a \in Actors |-> "idle"]

(* The loop invokes the callback: a descriptor that stays ready is served  *)
(* unless the application loses interest in it or stops the loop.          *)
ReadyIsServed ==
  \A f \in Fds : Asks(f) /\ ready[f] # "idle"
                   ~> \/ ~Asks(f) \/ ready[f] = "idle" \/ Served(f) \/ stop_requested

(* What is queued before a wake is flushed by a loop driven through        *)
(* run_once: the wake is observed within the bound of a wait.              *)
WorkIsFlushed == work ~> ~work \/ driver = "run"
=============================================================================
