------------------------ MODULE EventLoopEpollProofs ------------------------
(***************************************************************************)
(* The table and the kernel's set agree between two calls because, within  *)
(* one, they differ only in the descriptor of the call: Agreement says by  *)
(* how much at each point of it.                                           *)
(***************************************************************************)
EXTENDS EventLoopEpoll, EventLoopProofs

Sources == Fds \cup {WakeFd}

KernelType ==
  /\ interest \in [Fds -> Interest \cup {"absent"}]
  /\ wakefd \in -1 .. MaxWake
  /\ apc \in [Actors -> {"idle", "add", "undo", "mod", "clear", "kick"}]

(* Nobody is inside the API of a loop that was deinitialised.              *)
ShutOK == ~Open => lpc = "out" /\ \A a \in Actors : apc[a] = "idle"

(* The loop thread's call and its locals.                                  *)
CallShape ==
  /\ apc[Loop] # "idle" => lpc \in {"out", "callback"}
  /\ apc[Loop] = "kick" => req = NoRequest
  /\ apc[Loop] \in {"add", "undo", "mod", "clear"} => req.fd \in Fds
  /\ apc[Loop] \in {"add", "undo"} => req.entry \in With(req.fd)
  /\ apc[Loop] = "add" => table[req.entry].events = req.events
  /\ apc[Loop] = "clear" => req.ids = IdsOf(req.fd)

(* The entries of S are what the kernel watches f for.                     *)
Watches(f, S) ==
  IF interest[f] = "absent" THEN S = {}
  ELSE \E e \in S : S = {e} /\ table[e].events = interest[f]

Concerns(f) == apc[Loop] \in {"add", "undo", "mod", "clear"} /\ req.fd = f

(* With the new entry of a register left out, before the new events of a   *)
(* modify have reached the kernel, when an unregister has left it.         *)
Agreement ==
  Open => \A f \in Fds :
    /\ ~Concerns(f) => Watches(f, With(f))
    /\ apc[Loop] \in {"add", "undo"} /\ req.fd = f => Watches(f, With(f) \ {req.entry})
    /\ apc[Loop] = "mod" /\ req.fd = f =>
         /\ interest[f] # "absent"
         /\ \E e \in With(f) : With(f) = {e} /\ table[e].events = req.events
    /\ apc[Loop] = "clear" /\ req.fd = f => interest[f] = "absent" /\ OneEntry(f)

EpollInv == LoopInv(Sources) /\ KernelType /\ ShutOK /\ CallShape /\ Agreement

LEMMA InitEpoll == EpollInit => EpollInv
<1> SUFFICES ASSUME EpollInit PROVE EpollInv
  OBVIOUS
<1>1. LoopInv(Sources)
  BY InitLoop DEF EpollInit
<1>2. KernelType
  BY MaxWakeAssumption DEF EpollInit, Init, KernelType
<1>3. Loop \in Actors /\ \A f \in Fds : With(f) = {} /\ interest[f] = "absent"
  BY NoFdAssumption DEF EpollInit, Init, Actors, With, FreeEntry
<1> QED BY <1>1, <1>2, <1>3
        DEF EpollInv, EpollInit, Init, ShutOK, CallShape, Agreement, Watches, Concerns, Open

(* With the table, the kernel's set and the loop thread's call unchanged.  *)
LEMMA ElsewhereStep ==
  ASSUME EpollInv, LoopInv(Sources)', KernelType', ShutOK',
         apc'[Loop] = apc[Loop] \/ {apc[Loop], apc'[Loop]} = {"idle", "kick"},
         apc'[Loop] # "idle" => lpc' \in {"out", "callback"},
         UNCHANGED <<table, interest, req>>, Open' => Open
  PROVE  EpollInv'
<1>1. apc'[Loop] \in {"add", "undo", "mod", "clear"} \/ apc[Loop] \in {"add", "undo", "mod", "clear"}
        => apc'[Loop] = apc[Loop]
  OBVIOUS
<1>2. \A f : With(f)' = With(f) /\ IdsOf(f)' = IdsOf(f) /\ (OneEntry(f)' <=> OneEntry(f))
  BY DEF With, IdsOf, OneEntry
<1>3. CallShape'
  <2>1. apc'[Loop] = "kick" => req' = NoRequest
    BY <1>1 DEF EpollInv, CallShape, LoopInv, LoopTypeOK
  <2> QED BY <1>1, <1>2, <2>1 DEF EpollInv, CallShape
<1>4. Agreement'
  BY <1>1, <1>2 DEF EpollInv, Agreement, Watches, Concerns
<1> QED BY <1>3, <1>4 DEF EpollInv
-----------------------------------------------------------------------------
(* The two halves of the loop thread's calls.                              *)

LEMMA RegisterStep ==
  ASSUME EpollInv, NEW f \in Fds, NEW ev \in Interest, Register(f, ev)
  PROVE  EpollInv'
<1> DEFINE r == [NoRequest EXCEPT !.fd = f, !.events = ev]
<1>1. PICK e \in AllocEntry :
        AddEntry(e, f, ev) /\ Enter("add", [NoRequest EXCEPT !.fd = f, !.events = ev, !.entry = e])
  BY DEF Register
<1>2. /\ Loop \in Actors /\ lpc \in {"out", "callback"} /\ apc[Loop] = "idle" /\ Open
      /\ LoopInv(Sources) /\ regs < MaxRegs
      /\ UNCHANGED <<gone, loopVars, ready, work, interest, wakefd>>
  BY DEF Register, MayCall, Actors, EpollInv, kernelVars
<1>3. /\ e \in Entries /\ table[e].fd = NoFd
      /\ table' = [table EXCEPT ![e] = [fd |-> f, events |-> ev, cb |-> regs + 1]]
      /\ TableType' /\ Registered' /\ regs' \in Regs
  BY <1>1, <1>2, AddStep
<1>4. apc' = [apc EXCEPT ![Loop] = "add"] /\ apc'[Loop] = "add" /\ KernelType'
  BY <1>1, <1>2 DEF Enter, EpollInv, KernelType
<1>5. req' = [fd |-> f, events |-> ev, entry |-> e, ids |-> {}]
  BY <1>1 DEF Enter, NoRequest
<1>6. CallOK'
  BY <1>3, <1>4, <1>5 DEF CallOK, RequestOK, Entries
<1>7. LoopInv(Sources)'
  BY <1>2, <1>3, <1>6, TableStep
<1>8. \A d \in Entries : table'[d] = IF d = e THEN [fd |-> f, events |-> ev, cb |-> regs + 1]
                                     ELSE table[d]
  BY <1>2, <1>3 DEF LoopInv, LoopTypeOK
<1>9. With(f)' = With(f) \cup {e} /\ e \notin With(f) /\ \A g \in Fds \ {f} : With(g)' = With(g)
  BY <1>3, <1>8, NoFdAssumption DEF With
<1>10. CallShape'
  <2>1. e \in Entries /\ table'[e].fd = f /\ table'[e].events = ev
    BY <1>3, <1>8
  <2> QED BY <1>2, <1>4, <1>5, <2>1 DEF CallShape, loopVars, With
<1>11. \A g \in Fds : Watches(g, With(g))
  BY <1>2 DEF EpollInv, Agreement, Concerns
<1>12. Agreement'
  <2>1. ASSUME NEW g \in Fds \ {f} PROVE Watches(g, With(g))'
    <3>1. e \notin With(g)
      BY <1>3, NoFdAssumption DEF With
    <3> QED BY <1>2, <1>8, <1>9, <1>11, <3>1 DEF Watches, With
  <2>3. With(f)' \ {req'.entry} = With(f)
    BY <1>5, <1>9
  <2>4. Watches(f, With(f) \ {req.entry})'
    BY <1>2, <1>8, <1>9, <1>11, <2>3 DEF Watches, With
  <2> QED BY <1>4, <1>5, <2>1, <2>4 DEF Agreement, Concerns
<1> QED BY <1>2, <1>4, <1>7, <1>10, <1>12 DEF EpollInv, ShutOK, Open

LEMMA ModifyStep ==
  ASSUME EpollInv, NEW f \in Fds, NEW ev \in Interest, Modify(f, ev)
  PROVE  EpollInv'
<1>1. /\ Loop \in Actors /\ lpc \in {"out", "callback"} /\ apc[Loop] = "idle" /\ Open
      /\ LoopInv(Sources) /\ With(f) # {} /\ SetEvents(f, ev)
      /\ UNCHANGED <<regs, gone, loopVars, ready, work, interest, wakefd>>
  BY DEF Modify, MayCall, Actors, EpollInv, kernelVars
<1>2. /\ \A e \in Entries :
           table'[e] = IF e \in FindEntry(f) THEN [table[e] EXCEPT !.events = ev] ELSE table[e]
      /\ \A e \in Entries : table'[e].fd = table[e].fd
      /\ TableType' /\ Registered' /\ regs' \in Regs
  BY <1>1, SetEventsStep
<1>3. apc' = [apc EXCEPT ![Loop] = "mod"] /\ apc'[Loop] = "mod" /\ KernelType'
  BY <1>1 DEF Modify, Enter, EpollInv, KernelType
<1>4. req' = [fd |-> f, events |-> ev, entry |-> 0, ids |-> {}]
  BY DEF Modify, Enter, NoRequest
<1>5. CallOK'
  BY <1>3, <1>4, SizesAssumption DEF CallOK, RequestOK
<1>6. LoopInv(Sources)'
  BY <1>1, <1>2, <1>5, TableStep
<1>7. \A g : With(g)' = With(g)
  BY <1>2 DEF With
<1>8. \A g \in Fds : Watches(g, With(g))
  BY <1>1 DEF EpollInv, Agreement, Concerns
<1>9. interest[f] # "absent"
  BY <1>1, <1>8 DEF Watches
<1>10. PICK e \in With(f) : With(f) = {e}
  BY <1>8, <1>9 DEF Watches
<1>11. e \in Entries /\ FindEntry(f) = {e} /\ table'[e].events = ev
  <2>1. FindEntry(f) = {e} /\ e \in Entries
    BY <1>10, EntryFound DEF With
  <2>2. table'[e] = [table[e] EXCEPT !.events = ev]
    BY <1>2, <2>1
  <2> QED BY <1>1, <2>1, <2>2 DEF LoopInv, LoopTypeOK
<1>12. ASSUME NEW g \in Fds \ {f} PROVE Watches(g, With(g))'
  <2>1. e \notin With(g)
    BY <1>10 DEF With
  <2>2. \A d \in With(g) : table'[d] = table[d]
    BY <1>2, <1>11, <2>1 DEF With
  <2> QED BY <1>1, <1>7, <1>8, <2>2 DEF Watches
<1>13. Agreement'
  BY <1>1, <1>3, <1>4, <1>7, <1>9, <1>10, <1>11, <1>12 DEF Agreement, Concerns
<1>14. CallShape'
  BY <1>1, <1>3, <1>4 DEF CallShape, loopVars
<1> QED BY <1>1, <1>3, <1>6, <1>13, <1>14 DEF EpollInv, ShutOK, Open

LEMMA UnregisterStep ==
  ASSUME EpollInv, NEW f \in Fds, Unregister(f)
  PROVE  EpollInv'
<1>1. /\ Loop \in Actors /\ lpc \in {"out", "callback"} /\ apc[Loop] = "idle" /\ Open
      /\ LoopInv(Sources) /\ interest' = [interest EXCEPT ![f] = "absent"]
      /\ UNCHANGED <<table, regs, gone, loopVars, ready, work, wakefd>>
  BY DEF Unregister, MayCall, Actors, EpollInv, tableVars
<1>2. apc' = [apc EXCEPT ![Loop] = "clear"] /\ apc'[Loop] = "clear" /\ KernelType'
  BY <1>1 DEF Unregister, Enter, EpollInv, KernelType
<1>3. req' = [fd |-> f, events |-> "none", entry |-> 0, ids |-> IdsOf(f)]
  BY DEF Unregister, Enter, NoRequest
<1>4. CallOK'
  BY <1>1, <1>2, <1>3, SizesAssumption
  DEF CallOK, RequestOK, IdsOf, With, LoopInv, LoopTypeOK, Interest
<1>5. TableType' /\ Registered' /\ regs' \in Regs
  BY <1>1 DEF LoopInv, LoopTypeOK, TableType, Registered
<1>6. LoopInv(Sources)'
  BY <1>1, <1>4, <1>5, TableStep
<1>7. \A g : With(g)' = With(g) /\ IdsOf(g)' = IdsOf(g) /\ OneEntry(g)' = OneEntry(g)
  BY <1>1 DEF With, IdsOf, OneEntry
<1>8. \A g \in Fds : Watches(g, With(g))
  BY <1>1 DEF EpollInv, Agreement, Concerns
<1>9. OneEntry(f)
  BY <1>8 DEF Watches, OneEntry
<1>10. interest'[f] = "absent" /\ \A g \in Fds \ {f} : interest'[g] = interest[g]
  BY <1>1 DEF EpollInv, KernelType
<1>11. Agreement'
  BY <1>1, <1>2, <1>3, <1>7, <1>8, <1>9, <1>10 DEF Agreement, Concerns, Watches
<1>12. CallShape'
  BY <1>1, <1>2, <1>3, <1>7 DEF CallShape, loopVars
<1> QED BY <1>1, <1>2, <1>6, <1>11, <1>12 DEF EpollInv, ShutOK, Open

(* The call returns to the loop thread.                                    *)
LEMMA LeaveCall ==
  ASSUME EpollInv, Leave
  PROVE  /\ apc' = [apc EXCEPT ![Loop] = "idle"] /\ apc'[Loop] = "idle"
         /\ req' = NoRequest /\ CallOK'
<1>1. Loop \in Actors /\ apc' = [apc EXCEPT ![Loop] = "idle"] /\ req' = NoRequest
  BY DEF Leave, Enter, Actors
<1>2. CallOK'
  BY <1>1, SizesAssumption DEF CallOK, RequestOK, NoRequest, Interest
<1> QED BY <1>1, <1>2 DEF EpollInv, KernelType

LEMMA AddInterestStep == EpollInv /\ AddInterest => EpollInv'
<1> SUFFICES ASSUME EpollInv, AddInterest PROVE EpollInv'
  OBVIOUS
<1> DEFINE f == req.fd
<1>1. /\ apc[Loop] = "add" /\ Loop \in Actors /\ f \in Fds /\ req.entry \in With(f)
      /\ table[req.entry].events = req.events /\ LoopInv(Sources) /\ Open
      /\ UNCHANGED <<table, regs, gone, loopVars, ready, work, wakefd>>
  BY DEF AddInterest, EpollInv, CallShape, Actors, ShutOK, tableVars
<1>2. TableType' /\ Registered' /\ regs' \in Regs /\ lpc # "invoke"
  BY <1>1 DEF LoopInv, LoopTypeOK, TableType, Registered, EpollInv, CallShape
<1>3. \A g : With(g)' = With(g)
  BY <1>1 DEF With
<1>4. CASE interest[f] = "absent" /\ interest' = [interest EXCEPT ![f] = req.events] /\ Leave
  <2>1. /\ apc' = [apc EXCEPT ![Loop] = "idle"] /\ apc'[Loop] = "idle"
        /\ req' = NoRequest /\ CallOK'
    BY <1>4, LeaveCall
  <2>2. LoopInv(Sources)'
    BY <1>1, <1>2, <2>1, TableStep
  <2>3. req.events \in Interest /\ req.events # "absent"
    BY <1>1 DEF LoopInv, RequestOK, Interest
  <2>4. KernelType'
    BY <1>1, <1>4, <2>1, <2>3 DEF EpollInv, KernelType
  <2>5. interest'[f] = req.events /\ \A g \in Fds \ {f} : interest'[g] = interest[g]
    BY <1>1, <1>4 DEF EpollInv, KernelType
  <2>6. With(f) = {req.entry}
    BY <1>1, <1>4 DEF EpollInv, Agreement, Watches
  <2>7. \A g \in Fds : Watches(g, With(g))'
    BY <1>1, <1>3, <2>3, <2>5, <2>6 DEF EpollInv, Agreement, Watches, Concerns
  <2>8. Agreement'
    BY <2>1, <2>7 DEF Agreement, Concerns
  <2> QED BY <1>1, <2>1, <2>2, <2>4, <2>8 DEF EpollInv, ShutOK, Open, CallShape
<1>5. CASE Enter("undo", req) /\ UNCHANGED interest
  <2>1. apc' = [apc EXCEPT ![Loop] = "undo"] /\ apc'[Loop] = "undo" /\ req' = req /\ KernelType'
    BY <1>1, <1>5 DEF Enter, EpollInv, KernelType
  <2>2. CallOK'
    BY <1>1, <2>1 DEF CallOK, LoopInv, RequestOK
  <2>3. LoopInv(Sources)'
    BY <1>1, <1>2, <2>2, TableStep
  <2>4. CallShape'
    BY <1>1, <1>3, <2>1 DEF EpollInv, CallShape, loopVars
  <2>5. Agreement'
    BY <1>1, <1>3, <1>5, <2>1 DEF EpollInv, Agreement, Watches, Concerns
  <2> QED BY <1>1, <2>1, <2>3, <2>4, <2>5 DEF EpollInv, ShutOK, Open
<1> QED BY <1>4, <1>5 DEF AddInterest

LEMMA UndoRegisterStep == EpollInv /\ UndoRegister => EpollInv'
<1> SUFFICES ASSUME EpollInv, UndoRegister PROVE EpollInv'
  OBVIOUS
<1>0. PICK f, e : f = req.fd /\ e = req.entry
  OBVIOUS
<1>1. /\ f = req.fd /\ e = req.entry /\ apc[Loop] = "undo" /\ f \in Fds /\ e \in With(f) /\ LoopInv(Sources) /\ Open
      /\ table' = [table EXCEPT ![e].fd = NoFd] /\ Leave
      /\ UNCHANGED <<regs, gone, loopVars, ready, work, interest, wakefd>>
  BY <1>0 DEF UndoRegister, FreeOnError, EpollInv, CallShape, ShutOK, Actors, kernelVars
<1>2. /\ apc' = [apc EXCEPT ![Loop] = "idle"] /\ apc'[Loop] = "idle"
      /\ req' = NoRequest /\ CallOK'
  BY <1>1, LeaveCall
<1>3. /\ e \in Entries /\ table'[e] = [table[e] EXCEPT !.fd = NoFd] /\ table'[e].fd = NoFd
      /\ \A d \in Entries \ {e} : table'[d] = table[d]
  BY <1>1 DEF LoopInv, LoopTypeOK, With
<1>4. TableType' /\ regs' \in Regs
  BY <1>1 DEF LoopInv, LoopTypeOK, TableType, With
<1>5. Registered'
  BY <1>1, <1>3 DEF LoopInv, Registered
<1>6. LoopInv(Sources)'
  BY <1>1, <1>2, <1>4, <1>5, TableStep DEF EpollInv, CallShape
<1>7. \A d \in Entries : table'[d].fd = IF d = e THEN NoFd ELSE table[d].fd
  BY <1>3
<1>8. With(f)' = With(f) \ {e}
  BY <1>1, <1>7, NoFdAssumption DEF With
<1>9. \A d \in With(f) \ {e} : table'[d] = table[d]
  BY <1>3 DEF With
<1>10. Watches(f, With(f))'
  BY <1>1, <1>8, <1>9 DEF EpollInv, Agreement, Watches
<1>11. ASSUME NEW g \in Fds \ {f} PROVE Watches(g, With(g))'
  <2>1. e \notin With(g)
    BY <1>1 DEF With
  <2>2. With(g)' = With(g)
    BY <1>1, <1>7, <2>1, NoFdAssumption DEF With
  <2>3. \A d \in With(g) : table'[d] = table[d]
    BY <1>3, <2>1 DEF With
  <2>4. Watches(g, With(g))
    BY <1>1 DEF EpollInv, Agreement, Concerns
  <2> QED BY <1>1, <2>2, <2>3, <2>4 DEF Watches
<1>12. \A g \in Fds : Watches(g, With(g))'
  BY <1>10, <1>11
<1> QED BY <1>1, <1>2, <1>6, <1>12
        DEF EpollInv, KernelType, ShutOK, Open, CallShape, Agreement, Concerns

LEMMA ModifyInterestStep == EpollInv /\ ModifyInterest => EpollInv'
<1> SUFFICES ASSUME EpollInv, ModifyInterest PROVE EpollInv'
  OBVIOUS
<1> DEFINE f == req.fd
<1>1. /\ apc[Loop] = "mod" /\ f \in Fds /\ LoopInv(Sources) /\ Open /\ Leave
      /\ UNCHANGED <<table, regs, gone, loopVars, ready, work, wakefd>>
      /\ interest' = [interest EXCEPT ![f] = ModifiedInterest(@, req.events)]
  BY DEF ModifyInterest, EpollInv, CallShape, ShutOK, Actors, tableVars
<1>2. /\ apc' = [apc EXCEPT ![Loop] = "idle"] /\ apc'[Loop] = "idle"
      /\ req' = NoRequest /\ CallOK'
  BY <1>1, LeaveCall
<1>3. TableType' /\ Registered' /\ regs' \in Regs
  BY <1>1 DEF LoopInv, LoopTypeOK, TableType, Registered
<1>4. LoopInv(Sources)'
  BY <1>1, <1>2, <1>3, TableStep DEF EpollInv, CallShape
<1>5. req.events \in Interest /\ req.events # "absent"
  BY <1>1 DEF LoopInv, RequestOK, Interest
<1>6. interest[f] # "absent" /\ \E e \in With(f) : With(f) = {e} /\ table[e].events = req.events
  BY <1>1 DEF EpollInv, Agreement
<1>7. interest'[f] = req.events /\ \A g \in Fds \ {f} : interest'[g] = interest[g]
  BY <1>1, <1>6 DEF EpollInv, KernelType, ModifiedInterest
<1>8. KernelType'
  BY <1>1, <1>2, <1>5, <1>6 DEF EpollInv, KernelType, ModifiedInterest
<1>9. \A g : With(g)' = With(g)
  BY <1>1 DEF With
<1>10. \A g \in Fds : Watches(g, With(g))'
  BY <1>1, <1>5, <1>6, <1>7, <1>9 DEF EpollInv, Agreement, Watches, Concerns
<1> QED BY <1>1, <1>2, <1>4, <1>8, <1>10
        DEF EpollInv, ShutOK, Open, CallShape, Agreement, Concerns

LEMMA FinishUnregisterStep == EpollInv /\ FinishUnregister => EpollInv'
<1> SUFFICES ASSUME EpollInv, FinishUnregister PROVE EpollInv'
  OBVIOUS
<1>0. PICK f : f = req.fd
  OBVIOUS
<1>1. /\ f = req.fd /\ apc[Loop] = "clear" /\ f \in Fds /\ LoopInv(Sources) /\ Open /\ Leave
      /\ ClearEntry(f) /\ gone' = gone \cup IdsOf(f)
      /\ UNCHANGED <<regs, loopVars, ready, work, interest, wakefd>>
  BY <1>0 DEF FinishUnregister, Cleared, EpollInv, CallShape, ShutOK, Actors, kernelVars
<1>2. /\ apc' = [apc EXCEPT ![Loop] = "idle"] /\ apc'[Loop] = "idle"
      /\ req' = NoRequest /\ CallOK'
  BY <1>1, LeaveCall
<1>3. interest[f] = "absent" /\ OneEntry(f)
  BY <1>1 DEF EpollInv, Agreement
<1>4. /\ \A e \in Entries :
           table'[e] = IF e \in With(f) THEN [table[e] EXCEPT !.fd = NoFd, !.cb = 0] ELSE table[e]
      /\ TableType' /\ Registered' /\ regs' \in Regs
  BY <1>1, <1>3, ClearStep
<1>5. LoopInv(Sources)'
  BY <1>1, <1>2, <1>4, TableStep DEF EpollInv, CallShape
<1>6. \A e \in With(f) : table'[e].fd = NoFd
  BY <1>1, <1>4 DEF With, LoopInv, LoopTypeOK
<1>7. \A e \in Entries \ With(f) : table'[e] = table[e] /\ table[e].fd # f
  BY <1>4 DEF With
<1>8. With(f)' = {}
  <2>1. \A e \in Entries : table'[e].fd # f
    BY <1>1, <1>6, <1>7, NoFdAssumption
  <2> QED BY <2>1 DEF With
<1>9. Watches(f, With(f))'
  BY <1>1, <1>3, <1>8 DEF Watches
<1>10. ASSUME NEW g \in Fds \ {f} PROVE Watches(g, With(g))'
  <2>1. \A e \in With(g) : e \in Entries \ With(f) /\ table'[e] = table[e]
    BY <1>7 DEF With
  <2>2. \A e \in Entries : table'[e].fd = g => table[e].fd = g
    BY <1>1, <1>6, <1>7, NoFdAssumption
  <2>3. With(g)' = With(g)
    BY <2>1, <2>2 DEF With
  <2>4. Watches(g, With(g))
    BY <1>1 DEF EpollInv, Agreement, Concerns
  <2> QED BY <1>1, <2>1, <2>3, <2>4 DEF Watches
<1>11. \A g \in Fds : Watches(g, With(g))'
  BY <1>9, <1>10
<1> QED BY <1>1, <1>2, <1>5, <1>11
        DEF EpollInv, KernelType, ShutOK, Open, CallShape, Agreement, Concerns
-----------------------------------------------------------------------------
(* Stop, wake and the loop: the table and the kernel's set stay.           *)

LEMMA StopPostStep ==
  ASSUME EpollInv, NEW a \in Actors, Stop(a) \/ Post(a)
  PROVE  EpollInv'
<1>1. /\ apc[a] = "idle"
      /\ a = Loop => lpc \in {"out", "callback"}
      /\ Open /\ apc' = [apc EXCEPT ![a] = "kick"] /\ req' = req
      /\ UNCHANGED <<table, regs, gone, interest, wakefd, lpc, driver, batch, lcb, ready>>
      /\ stop_requested' \in BOOLEAN /\ asked' \in BOOLEAN /\ work' \in BOOLEAN
      /\ running' = running /\ LoopInv(Sources)
  BY DEF Stop, Post, MayCall, EpollInv, LoopInv, LoopTypeOK, tableVars, loopVars, kernelVars
<1>2. apc' \in [Actors -> {"idle", "add", "undo", "mod", "clear", "kick"}] /\ KernelType'
  BY <1>1 DEF EpollInv, KernelType
<1>3. Loop \in Actors /\ apc'[Loop] = IF a = Loop THEN "kick" ELSE apc[Loop]
  BY <1>1 DEF EpollInv, KernelType, Actors
<1>4. LoopInv(Sources)'
  BY <1>1, <1>3 DEF LoopInv, LoopTypeOK, Registered, Dispatching, RequestOK
<1>5. ShutOK' /\ (Open' => Open)
  BY <1>1 DEF ShutOK, Open
<1>6. apc'[Loop] = apc[Loop] \/ {apc[Loop], apc'[Loop]} = {"idle", "kick"}
  <2>1. CASE a = Loop
    BY <1>1, <1>3, <2>1
  <2> QED BY <1>3, <2>1
<1>7. apc'[Loop] # "idle" => lpc' \in {"out", "callback"}
  BY <1>1, <1>3 DEF EpollInv, CallShape
<1> QED BY <1>1, <1>2, <1>4, <1>5, <1>6, <1>7, ElsewhereStep

LEMMA KickStep ==
  ASSUME EpollInv, NEW a \in Actors, Kick(a)
  PROVE  EpollInv'
<1>1. /\ apc[a] = "kick" /\ apc' = [apc EXCEPT ![a] = "idle"] /\ req' = req
      /\ UNCHANGED <<table, regs, gone, interest, loopVars, ready, work>>
      /\ wakefd' = Written(wakefd) /\ LoopInv(Sources) /\ Open
  BY DEF Kick, EpollInv, ShutOK, tableVars
<1>2. wakefd' \in 0 .. MaxWake
  BY <1>1, MaxWakeAssumption DEF EpollInv, KernelType, Open, Written
<1>3. KernelType' /\ Open'
  BY <1>1, <1>2 DEF EpollInv, KernelType, Open
<1>4. Loop \in Actors /\ apc'[Loop] = IF a = Loop THEN "idle" ELSE apc[Loop]
  BY <1>1 DEF EpollInv, KernelType, Actors
<1>5. apc'[Loop] = "idle" => req' = NoRequest
  BY <1>1, <1>4 DEF EpollInv, CallShape, LoopInv, LoopTypeOK
<1>6. LoopInv(Sources)'
  BY <1>1, <1>5 DEF LoopInv, LoopTypeOK, Registered, Dispatching, RequestOK, loopVars
<1> QED BY <1>1, <1>3, <1>4, <1>6, ElsewhereStep DEF EpollInv, CallShape, ShutOK, loopVars

(* What epoll_wait returns is no longer than the array it was given.       *)
LEMMA PendingBatch ==
  ASSUME NEW S \in SUBSET Pending, KernelType,
         IF Cardinality(Pending) <= Batch THEN S = Pending ELSE Cardinality(S) = Batch,
         NEW list \in SetToSeqs(S)
  PROVE  list \in Seq(Sources) /\ Len(list) <= Batch
<1>1. Pending \subseteq Sources /\ IsFiniteSet(Sources)
  BY FdsAssumption, FS_AddElement DEF Pending, Sources
<1>2. IsFiniteSet(S) /\ S \subseteq Sources
  BY <1>1, FS_Subset
<1>3. list \in Seq(S) /\ Len(list) = Cardinality(S)
  BY <1>2, SequenceOfSet
<1>4. Cardinality(S) <= Batch
  BY SizesAssumption
<1> QED BY <1>2, <1>3, <1>4

LEMMA PollStep ==
  ASSUME EpollInv, (\E x \in Sources : PollReturns(x)) \/ PollEmpty \/ PollFails
  PROVE  EpollInv'
<1>1. UNCHANGED kernelVars /\ lpc = "wait" /\ LoopInv(Sources)
  BY DEF PollReturns, PollEmpty, PollFails, EpollInv
<1>2. CASE \E x \in Sources : PollReturns(x)
  <2>1. PICK S \in SUBSET Pending :
          /\ IF Cardinality(Pending) <= Batch THEN S = Pending ELSE Cardinality(S) = Batch
          /\ \E list \in SetToSeqs(S) : Take(list)
    BY <1>2 DEF PollReturns
  <2>2. PICK list \in SetToSeqs(S) : Take(list)
    BY <2>1
  <2>3. list \in Seq(Sources) /\ Len(list) <= Batch
    BY <2>1, PendingBatch DEF EpollInv
  <2>4. LoopInv(Sources)'
    BY <1>1, <2>2, <2>3, TakeStep
  <2>5. UNCHANGED <<table, apc, req>>
    BY <2>2 DEF Take, tableVars, callVars
  <2> QED BY <1>1, <2>4, <2>5, ElsewhereStep
          DEF EpollInv, KernelType, kernelVars, ShutOK, Open, CallShape
<1>3. CASE PollEmpty
  <2>1. Take(<< >>) /\ << >> \in Seq(Sources) /\ Len(<< >>) <= Batch
    BY <1>3, SizesAssumption DEF PollEmpty
  <2>2. LoopInv(Sources)'
    BY <1>1, <2>1, TakeStep
  <2>3. UNCHANGED <<table, apc, req>>
    BY <2>1 DEF Take, tableVars, callVars
  <2> QED BY <1>1, <2>2, <2>3, ElsewhereStep
          DEF EpollInv, KernelType, kernelVars, ShutOK, Open, CallShape
<1>4. CASE PollFails
  <2>1. WaitFails
    BY <1>4 DEF PollFails
  <2>2. LoopInv(Sources)'
    BY <1>1, <2>1, LoopStep
  <2>3. UNCHANGED <<table, apc, req>>
    BY <2>1 DEF WaitFails, LeaveRun, tableVars, callVars
  <2> QED BY <1>1, <2>2, <2>3, ElsewhereStep
          DEF EpollInv, KernelType, kernelVars, ShutOK, Open, CallShape
<1> QED BY <1>2, <1>3, <1>4
LEMMA DrainStep == EpollInv /\ Drain => EpollInv'
<1> SUFFICES ASSUME EpollInv, Drain PROVE EpollInv'
  OBVIOUS
<1>1. /\ lpc = "batch" /\ batch # << >> /\ batch' = Tail(batch) /\ wakefd' = 0
      /\ UNCHANGED <<table, regs, gone, running, stop_requested, lpc, driver, lcb, asked,
                     apc, req, ready, work, interest>>
      /\ LoopInv(Sources) /\ Open
  BY DEF Drain, tableVars, callVars, EpollInv, ShutOK
<1>2. batch' \in Seq(Sources) /\ Len(batch') <= Len(batch) /\ Len(batch) \in Nat
  BY <1>1 DEF LoopInv, Dispatching
<1>3. LoopTypeOK'
  BY <1>1, <1>2, SizesAssumption DEF LoopInv, LoopTypeOK
<1>4. LoopInv(Sources)'
  BY <1>1, <1>2, <1>3 DEF LoopInv, Registered, Dispatching, RequestOK
<1>5. KernelType' /\ ShutOK'
  BY <1>1, MaxWakeAssumption DEF EpollInv, KernelType, ShutOK, Open
<1> QED BY <1>1, <1>4, <1>5, ElsewhereStep DEF EpollInv, CallShape

(* A number given to a new file has no entry and is not watched.           *)
LEMMA CloseAndReopenStep ==
  ASSUME EpollInv, NEW f \in Fds, CloseAndReopen(f)
  PROVE  EpollInv'
<1>1. /\ With(f) = {} /\ apc[Loop] = "idle" /\ Reopen(f)
      /\ UNCHANGED <<table, apc, req, lpc, wakefd>>
      /\ interest' = [interest EXCEPT ![f] = "absent"]
  BY DEF CloseAndReopen, Reopen, MayCall, tableVars, callVars, loopVars
<1>2. LoopInv(Sources)'
  BY <1>1, LoopStep DEF EpollInv
<1>3. CASE ~Open
  BY <1>1, <1>2, <1>3
  DEF EpollInv, KernelType, ShutOK, CallShape, Agreement, Open, With, IdsOf
<1>4. CASE Open
  <2>1. interest[f] = "absent"
    BY <1>1, <1>4 DEF EpollInv, Agreement, Concerns, Watches
  <2>2. interest' = interest
    BY <1>1, <2>1 DEF EpollInv, KernelType
  <2> QED BY <1>1, <1>2, <1>4, <2>2, ElsewhereStep
          DEF EpollInv, KernelType, ShutOK, CallShape, Open
<1> QED BY <1>3, <1>4

LEMMA DeinitStep == EpollInv /\ Deinit => EpollInv'
<1> SUFFICES ASSUME EpollInv, Deinit PROVE EpollInv'
  OBVIOUS
<1>1. /\ UNCHANGED <<table, regs, gone, loopVars, apc, req, ready, work>>
      /\ lpc = "out" /\ \A a \in Actors : apc[a] = "idle"
      /\ wakefd' = -1 /\ interest' = [f \in Fds |-> "absent"]
  BY DEF Deinit, vars, tableVars, callVars
<1>2. LoopInv(Sources)'
  BY <1>1 DEF EpollInv, LoopInv, LoopTypeOK, Registered, Dispatching, RequestOK, loopVars
<1>3. KernelType' /\ ShutOK' /\ ~Open'
  BY <1>1, MaxWakeAssumption DEF EpollInv, KernelType, ShutOK, Open, loopVars
<1>4. CallShape'
  BY <1>1 DEF EpollInv, CallShape, Actors
<1> QED BY <1>2, <1>3, <1>4 DEF EpollInv, Agreement

LEMMA DriveStep ==
  ASSUME EpollInv, UNCHANGED kernelVars,
         Drive \/ RunReset \/ RunHead \/ Dispatch \/ CallbackReturns \/ Files
  PROVE  EpollInv'
<1>1. LoopInv(Sources)'
  BY LoopStep DEF EpollInv, Drive
<1>2. UNCHANGED <<table, interest, wakefd, apc, req>>
  BY DEF kernelVars, Drive, RunBegin, RunReset, RunHead, RunOnce, LeaveRun, Dispatch, Lookup,
     Invoke, EndBatch, Flush, CallbackReturns, Files, CallbackReads, Arrive, tableVars, callVars
<1>3. KernelType' /\ (Open' <=> Open)
  BY <1>2 DEF EpollInv, KernelType, Open
<1>4. /\ lpc' = lpc \/ lpc \notin {"out", "callback"} \/ apc[Loop] = "idle"
      /\ lpc' = lpc \/ lpc # "out" \/ Open
  BY DEF Drive, RunBegin, RunReset, RunHead, RunOnce, LeaveRun, Dispatch, Lookup, Invoke,
     EndBatch, Flush, CallbackReturns, Files, CallbackReads, Arrive, loopVars
<1>5. apc'[Loop] # "idle" => lpc' \in {"out", "callback"}
  BY <1>2, <1>4 DEF EpollInv, CallShape
<1>6. ShutOK'
  BY <1>2, <1>3, <1>4 DEF EpollInv, ShutOK
<1> QED BY <1>1, <1>2, <1>3, <1>5, <1>6, ElsewhereStep

LEMMA NextEpoll == EpollInv /\ [Next]_epollVars => EpollInv'
<1> SUFFICES ASSUME EpollInv, [Next]_epollVars PROVE EpollInv'
  OBVIOUS
<1>1. CASE UNCHANGED epollVars
  <2>1. UNCHANGED <<table, regs, gone, running, stop_requested, lpc, driver, batch, lcb, asked,
                    apc, req, ready, work, interest, wakefd>>
    BY <1>1 DEF epollVars, vars, tableVars, loopVars, callVars
  <2>2. LoopInv(Sources)'
    BY <2>1 DEF EpollInv, LoopInv, LoopTypeOK, Registered, Dispatching, RequestOK
  <2>3. KernelType' /\ ShutOK' /\ (Open' => Open)
    BY <2>1 DEF EpollInv, KernelType, ShutOK, Open
  <2> QED BY <2>1, <2>2, <2>3, ElsewhereStep DEF EpollInv, CallShape
<1>2. CASE \E a \in Actors : Kick(a) \/ Stop(a) \/ Post(a)
  BY <1>2, KickStep, StopPostStep
<1>3. CASE FinishCall
  BY <1>3, AddInterestStep, UndoRegisterStep, ModifyInterestStep, FinishUnregisterStep
  DEF FinishCall
<1>4. CASE \E f \in Fds : CallFor(f)
  BY <1>4, RegisterStep, ModifyStep, UnregisterStep DEF CallFor
<1>5. CASE (\E x \in Sources : PollReturns(x)) \/ PollEmpty \/ PollFails
  BY <1>5, PollStep
<1>6. CASE (\E f \in Fds : CloseAndReopen(f)) \/ Drain \/ Deinit
  BY <1>6, CloseAndReopenStep, DrainStep, DeinitStep
<1>7. CASE (Drive \/ RunReset \/ RunHead \/ Dispatch \/ CallbackReturns \/ Files)
             /\ UNCHANGED kernelVars
  BY <1>7, DriveStep
<1> QED BY <1>1, <1>2, <1>3, <1>4, <1>5, <1>6, <1>7 DEF Next, Sources
-----------------------------------------------------------------------------
LEMMA Agree == EpollInv => TableMatchesEpoll
<1> SUFFICES ASSUME EpollInv PROVE TableMatchesEpoll
  OBVIOUS
<1>1. TypeOK
  BY DEF EpollInv, LoopInv, KernelType, TypeOK
<1>2. ASSUME Open, \A a \in Actors : apc[a] = "idle", NEW f \in Fds
      PROVE  /\ {table[e].events : e \in With(f)} =
                  (IF interest[f] = "absent" THEN {} ELSE {interest[f]})
             /\ Cardinality(With(f)) <= 1
  <2>1. Watches(f, With(f))
    BY <1>2 DEF EpollInv, Agreement, Concerns, Actors
  <2>2. CASE interest[f] = "absent"
    BY <2>1, <2>2, FS_EmptySet DEF Watches
  <2>3. CASE interest[f] # "absent"
    <3>1. PICK e \in With(f) : With(f) = {e} /\ table[e].events = interest[f]
      BY <2>1, <2>3 DEF Watches
    <3>2. Cardinality(With(f)) = 1
      BY <3>1, FS_Singleton
    <3> QED BY <2>3, <3>1, <3>2
  <2> QED BY <2>2, <2>3
<1> QED BY <1>1, <1>2 DEF TableMatchesEpoll

(* Between calls the table and the kernel's set hold the same descriptors  *)
(* with the same events, after any sequence of registers, also failed and  *)
(* repeated ones, modifies, unregisters and closes, whatever the number of *)
(* descriptors, entries and threads (event_loop_register, _modify,         *)
(* _unregister).  TypeOK is its first conjunct.                            *)
THEOREM TableIsTheKernelsSet == Spec => []TableMatchesEpoll
<1>1. EpollInit => EpollInv
  BY InitEpoll
<1>2. EpollInv /\ [Next]_epollVars => EpollInv'
  BY NextEpoll
<1>3. EpollInv => TableMatchesEpoll
  BY Agree
<1> QED BY <1>1, <1>2, <1>3, PTL DEF Spec

(* What a callback unregisters is not called again by the batch in hand,   *)
(* nor is a registration that reused the number called in its name         *)
(* (dispatch looks the entry up for each descriptor of the batch).         *)
THEOREM UnregisteredIsNotCalled == Spec => NoCallbackAfterUnregister
<1>1. EpollInit => EpollInv
  BY InitEpoll
<1>2. EpollInv /\ [Next]_epollVars => EpollInv'
  BY NextEpoll
<1>3. EpollInv /\ [Next]_epollVars
        => [lpc = "invoke" /\ lpc' = "callback" => lcb \notin gone]_vars
  BY CallbackIsLive DEF EpollInv
<1> QED BY <1>1, <1>2, <1>3, PTL DEF Spec, NoCallbackAfterUnregister
=============================================================================
