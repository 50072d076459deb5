------------------------ MODULE EventLoopSelectProofs ------------------------
(***************************************************************************)
(* The select backend: a wait never watches, and so never reports, more    *)
(* descriptors than its batch holds, and an unregistered callback stays    *)
(* uncalled.                                                               *)
(***************************************************************************)
EXTENDS EventLoopSelect, EventLoopProofs

(* The batch is taken from the snapshot, so the snapshot has to fit too;   *)
(* an unregister clears the one entry that find_entry returns.             *)
SnapFits == snap \in Seq([fd : Fds, events : Interest]) /\ Len(snap) <= Batch

SelectInv ==
  /\ LoopInv(Fds)
  /\ apc = [a \in Actors |-> "idle"]
  /\ SnapFits
  /\ \A f \in Fds : OneEntry(f)

LEMMA InitSelect == SelectInit => SelectInv
<1> SUFFICES ASSUME SelectInit PROVE SelectInv
  OBVIOUS
<1>1. LoopInv(Fds)
  BY InitLoop DEF SelectInit
<1>2. \A f \in Fds : With(f) = {}
  BY NoFdAssumption DEF SelectInit, Init, With, FreeEntry
<1> QED BY <1>1, <1>2, SizesAssumption DEF SelectInv, SelectInit, Init, SnapFits, OneEntry

(* The snapshot takes at most the first Batch entries in use: those up to  *)
(* the last one watched are Batch or fewer.                                *)
LEMMA WatchedFits ==
  IsFiniteSet(Watched) /\ Watched \subseteq Entries /\ Cardinality(Watched) <= Batch
<1> DEFINE Upto(e) == {d \in 1 .. e : table[d].fd # NoFd}
<1>1. Watched \subseteq Entries /\ Entries \subseteq Nat /\ IsFiniteSet(Entries)
  <2>1. Entries \subseteq Nat /\ 1 \in Int /\ MaxFds \in Int /\ Watched \subseteq Entries
    BY SizesAssumption DEF Watched, Entries
  <2>2. IsFiniteSet(1 .. MaxFds)
    BY <2>1, FS_Interval
  <2> QED BY <2>1, <2>2 DEF Entries
<1>2. IsFiniteSet(Watched)
  BY <1>1, FS_Subset
<1>3. CASE Watched = {}
  BY <1>1, <1>2, <1>3, FS_EmptySet, SizesAssumption
<1>4. CASE Watched # {}
  <2>0. Watched \subseteq Nat /\ MaxFds \in Nat /\ \A e \in Watched : e <= MaxFds
    BY <1>1, SizesAssumption DEF Entries
  <2>1. PICK e \in Watched : \A d \in Watched : d <= e
    BY <1>4, <2>0, Greatest
  <2>2. Watched \subseteq Upto(e)
    BY <1>1, <2>1 DEF Watched, Entries
  <2>3. IsFiniteSet(Upto(e))
    BY <1>1, <2>1, FS_Interval, FS_Subset
  <2>4. Cardinality(Upto(e)) <= Batch
    BY <2>1 DEF Watched
  <2>5. Cardinality(Watched) <= Cardinality(Upto(e))
    BY <2>2, <2>3, FS_Subset
  <2>6. Cardinality(Watched) \in Nat /\ Cardinality(Upto(e)) \in Nat /\ Batch \in Nat
    BY <1>2, <2>3, FS_CardinalityType, SizesAssumption
  <2> HIDE DEF Upto
  <2> QED BY <1>1, <1>2, <2>4, <2>5, <2>6
<1> QED BY <1>3, <1>4
-----------------------------------------------------------------------------
LEMMA RegisterStep ==
  ASSUME SelectInv, NEW f \in Fds, NEW ev \in Interest, Register(f, ev)
  PROVE  SelectInv'
<1>1. /\ LoopInv(Fds) /\ regs < MaxRegs /\ With(f) = {} /\ lpc # "invoke"
      /\ UNCHANGED <<gone, loopVars, apc, req, ready, work, snap>>
  BY DEF Register, SelectInv, MayCall, callVars
<1>2. PICK e \in AllocEntry : AddEntry(e, f, ev)
  BY DEF Register
<1>3. /\ e \in Entries /\ table[e].fd = NoFd
      /\ table' = [table EXCEPT ![e] = [fd |-> f, events |-> ev, cb |-> regs + 1]]
      /\ TableType' /\ Registered' /\ regs' \in Regs
  BY <1>1, <1>2, AddStep
<1>4. CallOK'
  BY <1>1 DEF CallOK, RequestOK, LoopInv, LoopTypeOK
<1>5. LoopInv(Fds)'
  BY <1>1, <1>3, <1>4, TableStep
<1>6. \A d \in Entries : table'[d].fd = IF d = e THEN f ELSE table[d].fd
  BY <1>1, <1>3 DEF LoopInv, LoopTypeOK
<1>7. ASSUME NEW g \in Fds PROVE OneEntry(g)'
  <2>1. \A c, d \in Entries : table[c].fd = g /\ table[d].fd = g => c = d
    BY DEF SelectInv, OneEntry, With
  <2>2. g = f => \A d \in Entries : table[d].fd # g
    BY <1>1 DEF With
  <2>3. \A c, d \in Entries : table'[c].fd = g /\ table'[d].fd = g => c = d
    BY <1>6, <2>1, <2>2
  <2> QED BY <2>3 DEF OneEntry, With
<1> QED BY <1>1, <1>5, <1>7 DEF SelectInv, SnapFits

LEMMA ModifyStep ==
  ASSUME SelectInv, NEW f \in Fds, NEW ev \in Interest, Modify(f, ev)
  PROVE  SelectInv'
<1>1. /\ LoopInv(Fds) /\ SetEvents(f, ev) /\ lpc # "invoke"
      /\ UNCHANGED <<regs, gone, loopVars, apc, req, ready, work, snap>>
  BY DEF Modify, SelectInv, MayCall, callVars
<1>2. /\ \A e \in Entries : table'[e].fd = table[e].fd
      /\ TableType' /\ Registered' /\ regs' \in Regs
  BY <1>1, SetEventsStep
<1>3. CallOK'
  BY <1>1 DEF CallOK, RequestOK, LoopInv, LoopTypeOK
<1>4. LoopInv(Fds)'
  BY <1>1, <1>2, <1>3, TableStep
<1>5. \A g : With(g)' = With(g)
  BY <1>2 DEF With
<1> QED BY <1>1, <1>4, <1>5 DEF SelectInv, SnapFits, OneEntry

LEMMA UnregisterStep ==
  ASSUME SelectInv, NEW f \in Fds, Unregister(f)
  PROVE  SelectInv'
<1>1. /\ LoopInv(Fds) /\ OneEntry(f) /\ ClearEntry(f) /\ lpc # "invoke"
      /\ regs' = regs /\ gone' = gone \cup IdsOf(f)
      /\ UNCHANGED <<loopVars, apc, req, ready, work, snap>>
  BY DEF Unregister, Cleared, SelectInv, MayCall, callVars
<1>2. /\ \A e \in Entries :
           table'[e] = IF e \in With(f) THEN [table[e] EXCEPT !.fd = NoFd, !.cb = 0] ELSE table[e]
      /\ TableType' /\ Registered' /\ regs' \in Regs
  BY <1>1, ClearStep
<1>3. CallOK'
  BY <1>1 DEF CallOK, RequestOK, LoopInv, LoopTypeOK
<1>4. LoopInv(Fds)'
  BY <1>1, <1>2, <1>3, TableStep
<1>5. \A e \in Entries : table'[e].fd \in {NoFd, table[e].fd}
  BY <1>1, <1>2 DEF LoopInv, LoopTypeOK
<1>6. ASSUME NEW g \in Fds PROVE OneEntry(g)'
  <2>1. \A c, d \in Entries : table[c].fd = g /\ table[d].fd = g => c = d
    BY DEF SelectInv, OneEntry, With
  <2>2. \A c, d \in Entries : table'[c].fd = g /\ table'[d].fd = g => c = d
    BY <1>5, <2>1, NoFdAssumption
  <2> QED BY <2>2 DEF OneEntry, With
<1> QED BY <1>1, <1>4, <1>6 DEF SelectInv, SnapFits

(* A step of another thread, or of the loop thread between its calls.      *)
LEMMA ElsewhereStep ==
  ASSUME SelectInv, LoopInv(Fds)', UNCHANGED <<table, apc>>, SnapFits'
  PROVE  SelectInv'
<1>1. \A f : OneEntry(f)' = OneEntry(f)
  BY DEF OneEntry, With
<1> QED BY <1>1 DEF SelectInv

LEMMA StopPostStep ==
  ASSUME SelectInv, NEW a \in Actors, Stop(a) \/ Post(a)
  PROVE  SelectInv'
<1>1. /\ UNCHANGED <<table, regs, gone, running, lpc, driver, batch, lcb, apc, req, ready, snap>>
      /\ stop_requested' \in BOOLEAN /\ asked' \in BOOLEAN /\ work' \in BOOLEAN /\ LoopInv(Fds)
  BY DEF Stop, Post, SelectInv, LoopInv, LoopTypeOK, tableVars, loopVars, callVars
<1>2. LoopInv(Fds)'
  BY <1>1 DEF LoopInv, LoopTypeOK, Registered, Dispatching, RequestOK
<1> QED BY <1>1, <1>2, ElsewhereStep DEF SelectInv, SnapFits

LEMMA SnapshotStep == SelectInv /\ Snapshot => SelectInv'
<1> SUFFICES ASSUME SelectInv, Snapshot PROVE SelectInv'
  OBVIOUS
<1>1. /\ lpc' = "select" /\ LoopInv(Fds)
      /\ UNCHANGED <<table, regs, gone, running, stop_requested, driver, batch, lcb, asked,
                     apc, req, ready, work>>
  BY DEF Snapshot, SelectInv, tableVars, callVars
<1>2. LoopInv(Fds)'
  BY <1>1 DEF LoopInv, LoopTypeOK, Registered, Dispatching, RequestOK
<1>3. PICK es \in SetToSeqs(Watched) :
        snap' = [i \in DOMAIN es |-> [fd |-> table[es[i]].fd, events |-> table[es[i]].events]]
  BY DEF Snapshot, InOrder
<1>4. es \in Seq(Watched) /\ Len(es) <= Batch
  BY WatchedFits, SequenceOfSet
<1>5. \A e \in Watched : [fd |-> table[e].fd, events |-> table[e].events]
                           \in [fd : Fds, events : Interest]
  BY <1>1 DEF Watched, LoopInv, LoopTypeOK
<1>6. \A i \in 1 .. Len(es) : es[i] \in Watched
  BY <1>4
<1>7. /\ DOMAIN es = 1 .. Len(es) /\ Len(es) \in Nat
      /\ \A i \in 1 .. Len(es) : [fd |-> table[es[i]].fd, events |-> table[es[i]].events]
                                    \in [fd : Fds, events : Interest]
  BY <1>4, <1>5, <1>6
<1>8. snap' \in Seq([fd : Fds, events : Interest]) /\ Len(snap') = Len(es)
  BY <1>3, <1>7
<1>9. SnapFits'
  BY <1>4, <1>8 DEF SnapFits
<1> QED BY <1>1, <1>2, <1>9, ElsewhereStep

LEMMA EmptySnapFits == snap' = << >> => SnapFits'
BY SizesAssumption DEF SnapFits

LEMMA SelectStep ==
  ASSUME SelectInv, SelectReturns \/ SelectEmpty \/ SelectFails
  PROVE  SelectInv'
<1>1. SnapFits' /\ LoopInv(Fds)
  BY EmptySnapFits DEF SelectReturns, SelectEmpty, SelectFails, SelectInv
<1>2. CASE SelectReturns
  <2> DEFINE S == {i \in DOMAIN snap : Reported(snap[i].fd)}
  <2>1. PICK hits \in SetToSeqs(S) : Take([i \in DOMAIN hits |-> snap[hits[i]].fd])
    BY <1>2 DEF SelectReturns, InOrder
  <2>2. /\ snap \in Seq([fd : Fds, events : Interest]) /\ Len(snap) <= Batch /\ Len(snap) \in Nat
        /\ S \subseteq 1 .. Len(snap)
    BY DEF SelectInv, SnapFits
  <2>3. IsFiniteSet(1 .. Len(snap)) /\ Cardinality(1 .. Len(snap)) = Len(snap)
    <3>1. 1 \in Int /\ Len(snap) \in Int
      BY <2>2
    <3>2. /\ IsFiniteSet(1 .. Len(snap))
          /\ Cardinality(1 .. Len(snap)) = IF 1 > Len(snap) THEN 0 ELSE Len(snap) - 1 + 1
      BY <3>1, FS_Interval
    <3> QED BY <2>2, <3>2
  <2>4. IsFiniteSet(S) /\ Cardinality(S) <= Len(snap)
    BY <2>2, <2>3, FS_Subset
  <2> HIDE DEF S
  <2>5. hits \in Seq(S) /\ Len(hits) = Cardinality(S) /\ Len(hits) \in Nat
    BY <2>4, SequenceOfSet
  <2>6. \A i \in 1 .. Len(hits) : snap[hits[i]].fd \in Fds
    <3>1. \A i \in 1 .. Len(hits) : hits[i] \in 1 .. Len(snap)
      BY <2>2, <2>5, ElementOfSeq
    <3>2. \A i \in 1 .. Len(snap) : snap[i] \in [fd : Fds, events : Interest]
      BY <2>2, ElementOfSeq
    <3> QED BY <3>1, <3>2
  <2> DEFINE list == [i \in DOMAIN hits |-> snap[hits[i]].fd]
  <2>7. list \in Seq(Fds) /\ Len(list) <= Batch
    BY <2>2, <2>4, <2>5, <2>6, SizesAssumption
  <2>8. LoopInv(Fds)'
    BY <1>1, <2>1, <2>7, TakeStep
  <2>9. UNCHANGED <<table, apc>>
    BY <2>1 DEF Take, tableVars, callVars
  <2> QED BY <1>1, <2>8, <2>9, ElsewhereStep
<1>3. CASE SelectEmpty
  <2>1. Take(<< >>) /\ << >> \in Seq(Fds) /\ Len(<< >>) <= Batch
    BY <1>3, SizesAssumption DEF SelectEmpty
  <2>2. LoopInv(Fds)'
    BY <1>1, <2>1, TakeStep
  <2>3. UNCHANGED <<table, apc>>
    BY <2>1 DEF Take, tableVars, callVars
  <2> QED BY <1>1, <2>2, <2>3, ElsewhereStep
<1>4. CASE SelectFails
  <2>1. LoopInv(Fds)'
    BY <1>1, <1>4, LoopStep DEF SelectFails
  <2>2. UNCHANGED <<table, apc>>
    BY <1>4 DEF SelectFails, WaitFails, LeaveRun, tableVars, callVars
  <2> QED BY <1>1, <2>1, <2>2, ElsewhereStep
<1> QED BY <1>2, <1>3, <1>4

LEMMA NextSelect == SelectInv /\ [Next]_selectVars => SelectInv'
<1> SUFFICES ASSUME SelectInv, [Next]_selectVars PROVE SelectInv'
  OBVIOUS
<1>1. CASE UNCHANGED selectVars
  <2>1. UNCHANGED <<table, regs, gone, running, stop_requested, lpc, driver, batch, lcb, asked,
                    apc, req, ready, work, snap>>
    BY <1>1 DEF selectVars, vars, tableVars, loopVars, callVars
  <2>2. LoopInv(Fds)'
    BY <2>1 DEF SelectInv, LoopInv, LoopTypeOK, Registered, Dispatching, RequestOK
  <2> QED BY <2>1, <2>2, ElsewhereStep DEF SelectInv, SnapFits
<1>2. CASE \E a \in Actors : Stop(a) \/ Post(a)
  BY <1>2, StopPostStep
<1>3. CASE \E f \in Fds : CallFor(f)
  BY <1>3, RegisterStep, ModifyStep, UnregisterStep DEF CallFor
<1>4. CASE Snapshot \/ SelectReturns \/ SelectEmpty \/ SelectFails
  BY <1>4, SnapshotStep, SelectStep
<1>5. CASE (Drive \/ RunReset \/ RunHead \/ Dispatch \/ CallbackReturns \/ Files
              \/ \E f \in Fds : Reopen(f)) /\ UNCHANGED snap
  <2>1. LoopInv(Fds)'
    BY <1>5, LoopStep DEF SelectInv, Drive
  <2>2. UNCHANGED <<table, apc>>
    BY <1>5 DEF Drive, RunBegin, RunReset, RunHead, RunOnce, LeaveRun, Dispatch, Lookup,
       Invoke, EndBatch, Flush, CallbackReturns, Files, CallbackReads, Arrive, Reopen,
       tableVars, callVars
  <2> QED BY <1>5, <2>1, <2>2, ElsewhereStep DEF SelectInv, SnapFits
<1> QED BY <1>1, <1>2, <1>3, <1>4, <1>5 DEF Next
-----------------------------------------------------------------------------
(* The snapshot and the batch fit their arrays: run_once copies at most    *)
(* EVENT_LOOP_BATCH entries, free ones not counted, and reports no         *)
(* descriptor it has not copied (event_loop_run_once).                     *)
THEOREM TypesOK == Spec => []TypeOK
<1>1. SelectInit => SelectInv
  BY InitSelect
<1>2. SelectInv /\ [Next]_selectVars => SelectInv'
  BY NextSelect
<1>3. SelectInv => TypeOK
  BY DEF SelectInv, LoopInv, SnapFits, TypeOK
<1> QED BY <1>1, <1>2, <1>3, PTL DEF Spec

(* As for epoll: the batch in hand is looked up descriptor by descriptor,  *)
(* so it never calls what a callback has unregistered.                     *)
THEOREM UnregisteredIsNotCalled == Spec => NoCallbackAfterUnregister
<1>1. SelectInit => SelectInv
  BY InitSelect
<1>2. SelectInv /\ [Next]_selectVars => SelectInv'
  BY NextSelect
<1>3. SelectInv /\ [Next]_selectVars
        => [lpc = "invoke" /\ lpc' = "callback" => lcb \notin gone]_vars
  BY CallbackIsLive DEF SelectInv
<1> QED BY <1>1, <1>2, <1>3, PTL DEF Spec, NoCallbackAfterUnregister
=============================================================================
