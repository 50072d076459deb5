--------------------------- MODULE EventLoopProofs ---------------------------
(***************************************************************************)
(* What both backends' proofs rest on: the table's registrations are told  *)
(* apart by their numbers, and the callback a dispatch has looked up is    *)
(* one of them.                                                            *)
(***************************************************************************)
EXTENDS EventLoop, FiniteSetTheorems, SequenceTheorems, TLAPS

(* A set of naturals that is not empty has a least element.                *)
LEMMA Least ==
  ASSUME NEW T \in SUBSET Nat, T # {}
  PROVE  Min(T) \in T /\ \A y \in T : Min(T) <= y
<1>1. PICK x \in T : \A y \in T : ~ (<<y, x>> \in OpToRel(<, Nat))
  BY NatLessThanWellFounded, WFMin
<1>2. \A y \in T : ~ (y < x)
  BY <1>1 DEF OpToRel
<1>3. \A y \in T : x <= y
  BY <1>2
<1> QED BY <1>3 DEF Min

LEMMA Greatest ==
  ASSUME NEW T \in SUBSET Nat, T # {}, NEW n \in Nat, \A x \in T : x <= n
  PROVE  \E x \in T : \A y \in T : y <= x
<1> DEFINE U == {n - x : x \in T}
<1>1. U \in SUBSET Nat /\ \A x \in T : n - x \in U
  OBVIOUS
<1>2. PICK x \in T : Min(U) = n - x
  BY <1>1, Least
<1>3. \A y \in T : n - x <= n - y
  BY <1>1, <1>2, Least
<1> QED BY <1>3

(* find_entry finds one of the descriptor's entries if there is one.       *)
LEMMA EntryFound ==
  ASSUME NEW f
  PROVE  /\ With(f) = {} => FindEntry(f) = {}
         /\ With(f) # {} => \E e \in With(f) : FindEntry(f) = {e}
<1>1. With(f) \in SUBSET Nat
  BY SizesAssumption DEF With, Entries
<1> QED BY <1>1, Least DEF FindEntry

(* A sequence of the elements of a finite set is as long as the set.       *)
LEMMA SequenceOfSet ==
  ASSUME NEW S, IsFiniteSet(S), NEW s \in SetToSeqs(S)
  PROVE  s \in Seq(S) /\ Len(s) = Cardinality(S)
<1>1. Cardinality(S) \in Nat
  BY FS_CardinalityType
<1> QED BY <1>1 DEF SetToSeqs
-----------------------------------------------------------------------------
(* Registrations that are in the table: each has a number of its own and   *)
(* was not ended.                                                          *)
Registered ==
  /\ gone \subseteq 1 .. regs
  /\ \A e \in Entries : table[e].fd # NoFd => table[e].cb \in (1 .. regs) \ gone
  /\ \A d, e \in Entries :
       table[d].fd # NoFd /\ table[e].fd # NoFd /\ table[d].cb = table[e].cb => d = e

(* The batch in hand and the callback looked up.                           *)
Dispatching(F) ==
  /\ batch \in Seq(F)
  /\ lpc \in {"invoke", "callback"} => batch # << >>
  /\ lpc = "invoke" => \E e \in Entries : table[e].fd # NoFd /\ table[e].cb = lcb

RequestOK ==
  req \in [fd : Fds \cup {NoFd}, events : Interest, entry : 0 .. MaxFds, ids : SUBSET Regs]

LoopInv(F) == LoopTypeOK /\ Registered /\ Dispatching(F) /\ RequestOK

LEMMA InitLoop == ASSUME NEW F, Init PROVE LoopInv(F)
<1>1. LoopTypeOK
  <2>1. 0 \in Regs /\ 0 <= Batch
    BY SizesAssumption DEF Regs
  <2>2. FreeEntry \in [fd : Fds \cup {NoFd}, events : Interest, cb : Regs]
    BY <2>1 DEF FreeEntry, Interest
  <2> QED BY <2>1, <2>2 DEF Init, LoopTypeOK, NoRequest
<1>2. RequestOK
  BY SizesAssumption DEF Init, RequestOK, NoRequest, Interest
<1> QED BY <1>1, <1>2 DEF Init, LoopInv, Registered, Dispatching, FreeEntry

(* A step of the loop thread that leaves the table alone.                  *)
LEMMA LoopStep ==
  ASSUME NEW F, LoopInv(F),
         RunBegin \/ RunReset \/ RunHead \/ RunOnce \/ WaitFails \/ Dispatch
           \/ CallbackReturns \/ Files \/ (\E f \in Fds : Reopen(f))
  PROVE  LoopInv(F)'
<1> USE DEF LoopInv
<1>1. UNCHANGED <<table, regs, gone, apc, req>>
  BY DEF RunBegin, RunReset, RunHead, RunOnce, WaitFails, LeaveRun, Dispatch, Lookup, Invoke,
     EndBatch, Flush, CallbackReturns, Files, CallbackReads, Arrive, Reopen, tableVars, callVars
<1>2. Registered' /\ RequestOK'
  BY <1>1 DEF Registered, RequestOK
<1>3. CASE RunBegin \/ RunReset \/ RunHead \/ RunOnce \/ WaitFails
  BY <1>1, <1>2, <1>3
  DEF RunBegin, RunReset, RunHead, RunOnce, WaitFails, LeaveRun, LoopTypeOK, Dispatching
<1>4. CASE Lookup
  <2>1. lpc = "batch" /\ batch # << >> /\ batch' \in {batch, Tail(batch)}
    BY <1>4 DEF Lookup
  <2>2. batch' \in Seq(F) /\ Len(batch') <= Len(batch) /\ Len(batch) \in Nat
    BY <2>1 DEF Dispatching
  <2>3. CASE lcb' = 0
    BY <1>1, <1>2, <1>4, <2>2, <2>3, SizesAssumption DEF Lookup, LoopTypeOK, Dispatching, Regs
  <2>4. CASE lcb' # 0
    <3>1. FindEntry(Head(batch)) # {} /\ Head(batch) \in Fds
      BY <1>4, <2>4 DEF Lookup, Callback
    <3>2. PICK e \in With(Head(batch)) : FindEntry(Head(batch)) = {e}
      BY <3>1, EntryFound
    <3>3. e \in Entries /\ table[e].fd # NoFd /\ lcb' = table[e].cb
      BY <1>4, <3>1, <3>2, NoFdAssumption DEF Lookup, Callback, With
    <3>4. lcb' \in Regs /\ batch' = batch /\ lpc' = "invoke"
      BY <1>4, <2>4, <3>3 DEF Lookup, LoopTypeOK
    <3> QED BY <1>1, <1>2, <1>4, <2>1, <3>3, <3>4 DEF Lookup, LoopTypeOK, Dispatching
  <2> QED BY <2>3, <2>4
<1>5. CASE Invoke \/ EndBatch \/ Flush
  BY <1>1, <1>2, <1>5 DEF Invoke, EndBatch, Flush, LoopTypeOK, Dispatching
<1>6. CASE CallbackReturns
  <2>1. batch # << >> /\ batch' = Tail(batch)
    BY <1>6 DEF CallbackReturns, Dispatching
  <2>2. batch' \in Seq(F) /\ Len(batch') <= Len(batch) /\ Len(batch) \in Nat
    BY <2>1 DEF Dispatching
  <2> QED BY <1>1, <1>2, <1>6, <2>2, SizesAssumption
          DEF CallbackReturns, LoopTypeOK, Dispatching, Regs
<1>7. CASE Files \/ \E f \in Fds : Reopen(f)
  <2>1. ready' \in [Fds -> {"idle", "readable", "hangup"}]
    BY <1>7 DEF Files, Arrive, CallbackReads, Reopen, LoopTypeOK
  <2>2. UNCHANGED <<loopVars, work>>
    BY <1>7 DEF Files, Arrive, CallbackReads, Reopen
  <2> QED BY <1>1, <1>2, <2>1, <2>2 DEF loopVars, LoopTypeOK, Dispatching
<1> QED BY <1>3, <1>4, <1>5, <1>6, <1>7 DEF Dispatch

(* The wait returned a batch of the right length.                          *)
LEMMA TakeStep ==
  ASSUME NEW F, LoopInv(F), NEW list \in Seq(F), Len(list) <= Batch, Take(list)
  PROVE  LoopInv(F)'
BY DEF LoopInv, Take, LoopTypeOK, Registered, Dispatching, RequestOK, tableVars, callVars
-----------------------------------------------------------------------------
(* Changes of the table.  They are made while the loop thread is not       *)
(* between a lookup and its callback.                                      *)
TableType == table \in [Entries -> [fd : Fds \cup {NoFd}, events : Interest, cb : Regs]]
CallOK == RequestOK /\ (apc[Loop] = "idle" => req = NoRequest)
OneEntry(f) == \A d, e \in With(f) : d = e

LEMMA TableStep ==
  ASSUME NEW F, LoopInv(F), lpc # "invoke", TableType', Registered', regs' \in Regs, CallOK',
         UNCHANGED <<loopVars, ready, work>>
  PROVE  LoopInv(F)'
<1>1. gone' \subseteq Regs
  BY SizesAssumption DEF Registered, Regs
<1>2. req'.fd \in Fds \cup {NoFd}
  BY DEF CallOK, RequestOK
<1> QED BY <1>1, <1>2
        DEF LoopInv, LoopTypeOK, TableType, CallOK, Dispatching, loopVars

(* alloc_entry and the new registration.                                   *)
LEMMA AddStep ==
  ASSUME NEW F, LoopInv(F), regs < MaxRegs, gone' = gone,
         NEW f \in Fds, NEW ev \in Interest, NEW e \in AllocEntry, AddEntry(e, f, ev)
  PROVE  /\ e \in Entries /\ table[e].fd = NoFd
         /\ table' = [table EXCEPT ![e] = [fd |-> f, events |-> ev, cb |-> regs + 1]]
         /\ TableType' /\ Registered' /\ regs' \in Regs
<1> USE DEF LoopInv
<1>1. e \in Entries /\ table[e].fd = NoFd
  BY EntryFound DEF AllocEntry, With
<1>2. regs \in Nat /\ regs + 1 \in Regs /\ regs' = regs + 1
  BY SizesAssumption DEF LoopTypeOK, Regs, AddEntry
<1>3. table' = [table EXCEPT ![e] = [fd |-> f, events |-> ev, cb |-> regs + 1]]
  BY DEF AddEntry
<1>4. \A d \in Entries : table'[d] = IF d = e THEN [fd |-> f, events |-> ev, cb |-> regs + 1]
                                     ELSE table[d]
  BY <1>1, <1>3 DEF LoopTypeOK
<1>5. Registered'
  BY <1>2, <1>4 DEF Registered
<1>6. TableType'
  BY <1>1, <1>2, <1>3 DEF LoopTypeOK, TableType
<1> QED BY <1>1, <1>2, <1>3, <1>5, <1>6

(* find_entry and the new events.                                          *)
LEMMA SetEventsStep ==
  ASSUME NEW F, LoopInv(F), NEW f, NEW ev \in Interest, SetEvents(f, ev),
         UNCHANGED <<regs, gone>>
  PROVE  /\ \A e \in Entries :
              table'[e] = IF e \in FindEntry(f) THEN [table[e] EXCEPT !.events = ev]
                          ELSE table[e]
         /\ \A e \in Entries : table'[e].fd = table[e].fd
         /\ TableType' /\ Registered' /\ regs' \in Regs
<1> USE DEF LoopInv
<1>1. \A e \in Entries :
        table'[e] = IF e \in FindEntry(f) THEN [table[e] EXCEPT !.events = ev] ELSE table[e]
  BY DEF SetEvents
<1>2. \A e \in Entries : table[e] \in [fd : Fds \cup {NoFd}, events : Interest, cb : Regs]
  BY DEF LoopTypeOK
<1>3. \A e \in Entries : table'[e].fd = table[e].fd /\ table'[e].cb = table[e].cb
  BY <1>1, <1>2
<1>4. TableType'
  BY <1>1, <1>2 DEF TableType, SetEvents
<1>5. Registered'
  <2> USE DEF Registered
  <2>1. gone' \subseteq 1 .. regs'
    OBVIOUS
  <2>2. \A e \in Entries : table'[e].fd # NoFd => table'[e].cb \in (1 .. regs') \ gone'
    BY <1>3
  <2>3. \A d, e \in Entries : table'[d].fd # NoFd /\ table'[e].fd # NoFd
                               /\ table'[d].cb = table'[e].cb => d = e
    BY <1>3
  <2> QED BY <2>1, <2>2, <2>3
<1> QED BY <1>1, <1>3, <1>4, <1>5 DEF LoopTypeOK

(* The registrations of a descriptor with one entry end.                   *)
LEMMA ClearStep ==
  ASSUME NEW F, LoopInv(F), NEW f \in Fds, OneEntry(f), ClearEntry(f),
         regs' = regs, gone' = gone \cup IdsOf(f)
  PROVE  /\ \A e \in Entries :
              table'[e] = IF e \in With(f) THEN [table[e] EXCEPT !.fd = NoFd, !.cb = 0]
                          ELSE table[e]
         /\ TableType' /\ Registered' /\ regs' \in Regs
<1> USE DEF LoopInv
<1>1. FindEntry(f) = With(f)
  BY EntryFound DEF OneEntry
<1>2. \A e \in Entries :
        table'[e] = IF e \in With(f) THEN [table[e] EXCEPT !.fd = NoFd, !.cb = 0] ELSE table[e]
  BY <1>1 DEF ClearEntry
<1>3. \A e \in Entries : table[e] \in [fd : Fds \cup {NoFd}, events : Interest, cb : Regs]
  BY DEF LoopTypeOK
<1>4. 0 \in Regs
  BY SizesAssumption DEF Regs
<1>5. TableType'
  BY <1>2, <1>3, <1>4 DEF TableType, ClearEntry
<1>6. \A e \in Entries : table'[e].fd # NoFd =>
        /\ e \notin With(f) /\ table'[e] = table[e]
        /\ table[e].cb \notin IdsOf(f)
  <2> SUFFICES ASSUME NEW e \in Entries, table'[e].fd # NoFd
               PROVE  e \notin With(f) /\ table'[e] = table[e] /\ table[e].cb \notin IdsOf(f)
    OBVIOUS
  <2>1. e \notin With(f) /\ table'[e] = table[e]
    BY <1>2, <1>3
  <2>2. \A d \in With(f) : d \in Entries /\ table[d].fd # NoFd
    BY NoFdAssumption DEF With
  <2> QED BY <2>1, <2>2 DEF Registered, IdsOf
<1>7. IdsOf(f) \subseteq 1 .. regs
  BY NoFdAssumption DEF IdsOf, With, Registered
<1>8. Registered'
  BY <1>6, <1>7 DEF Registered
<1> QED BY <1>2, <1>5, <1>8 DEF LoopTypeOK

(* The callback a registration was promised not to get any more.           *)
LEMMA CallbackIsLive ==
  ASSUME NEW F, LoopInv(F)
  PROVE  lpc = "invoke" => lcb \notin gone
BY DEF LoopInv, Dispatching, Registered
=============================================================================
