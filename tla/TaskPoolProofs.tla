--------------------------- MODULE TaskPoolProofs ---------------------------
(***************************************************************************)
(* The task pool counts its references, runs every function once and       *)
(* implements one-shot futures; and the deinit of the platform, the last   *)
(* section, waits for every task that is still to publish.                 *)
(***************************************************************************)
EXTENDS TaskPoolInv, TaskPlatform, TLAPS

LEMMA InitOwnership == Init => Ownership
  BY PoolSizeAssumption, NullAssumption
  DEF Init, Ownership, TypeOK, ReservationOK, WaitOK, HeldOK, RefCountIsHolders,
      NoSharing, NoSlotLeak, Reserving, Blocking, Holds, Alive, Slots, Results,
      Status, Terminal

LEMMA ReserveOwnership ==
  ASSUME Ownership, NEW c \in Threads, NEW j \in Jobs, Reserve(c, j)
  PROVE  Ownership'
<1> USE NullAssumption DEF Ownership, Reserve, workerVars, histVars
<1>1. TypeOK'
  BY SMTT(20) DEF TypeOK, FreshRefs, Status, Results, Slots
<1>2. ReservationOK'
  BY DEF TypeOK, ReservationOK, Reserving, Holds, Alive, FreshRefs, FirstFree, NoSlotLeak, RefCountIsHolders, HeldOK
<1>3. WaitOK'
  BY DEF TypeOK, WaitOK, Blocking
<1>4. HeldOK'
  BY DEF HeldOK, Holds, Alive
<1>5. RefCountIsHolders'
  BY DEF TypeOK, RefCountIsHolders, Refs, Holds, Alive, FreshRefs, FirstFree, HeldOK
<1>6. NoSharing'
  BY DEF NoSharing, Holds, Alive
<1>7. NoSlotLeak'
  <2>1. PICK s0 \in Slots :
          /\ in_use' = [in_use EXCEPT ![s0] = TRUE] /\ ~in_use[s0]
          /\ tslot' = [tslot EXCEPT ![c] = s0]
    BY DEF FirstFree
  <2>2. Reserving(c)' /\ tslot'[c] = s0
    BY <2>1 DEF TypeOK, Reserving
  <2>3. \A d \in Threads \ {c} : (Reserving(d)' <=> Reserving(d)) /\ tslot'[d] = tslot[d]
    BY <2>1 DEF TypeOK, Reserving
  <2>4. \A k \in Jobs : (Holds(k)' <=> Holds(k)) /\ arg'[k] = arg[k]
    BY DEF Holds, Alive
  <2>5. ~Reserving(c)
    BY DEF Reserving
  <2> SUFFICES ASSUME NEW s \in Slots
               PROVE  in_use'[s] <=> \/ \E d \in Threads : Reserving(d)' /\ tslot'[d] = s
                                     \/ \E k \in Jobs : Holds(k)' /\ arg'[k] = s
    BY DEF NoSlotLeak
  <2>6. CASE s = s0
    BY <2>1, <2>2, <2>6 DEF TypeOK
  <2>7. CASE s # s0
    <3>1. in_use'[s] = in_use[s]
      BY <2>1, <2>7 DEF TypeOK
    <3>2. (\E d \in Threads : Reserving(d)' /\ tslot'[d] = s)
            <=> (\E d \in Threads : Reserving(d) /\ tslot[d] = s)
      BY <2>2, <2>3, <2>5, <2>7
    <3> QED
      BY <3>1, <3>2, <2>4 DEF NoSlotLeak
  <2> QED
    BY <2>6, <2>7
<1> QED BY <1>1, <1>2, <1>3, <1>4, <1>5, <1>6, <1>7

LEMMA CreateOwnership ==
  ASSUME Ownership, NEW c \in Threads, Create(c)
  PROVE  Ownership'
<1> USE NullAssumption DEF Ownership
<1>1. PICK s \in Slots, k \in Jobs :
      /\ s = tslot[c] /\ k = tjob[c] /\ wpc[k] = "unborn" /\ k \notin handle
      /\ in_use[s] /\ ref_count[s] = 2
      /\ \A j \in Jobs : Holds(j) => arg[j] # s
  BY DEF Create, ReservationOK
<1>2. /\ in_use' = in_use /\ ref_count' = ref_count
      /\ wpc' = [wpc EXCEPT ![k] = "start"] /\ arg' = [arg EXCEPT ![k] = s]
      /\ handle' = handle \cup {k} /\ targs' = targs /\ tidx' = tidx
      /\ tpc' = [tpc EXCEPT ![c] = "idle"] /\ tcall' = [tcall EXCEPT ![c] = "none"]
      /\ tslot' = [tslot EXCEPT ![c] = 0] /\ tjob' = [tjob EXCEPT ![c] = NULL]
  BY <1>1 DEF Create, LeaveRun
<1>3. /\ Holds(k)' /\ arg'[k] = s /\ Refs(k)' = 2
      /\ \A j \in Jobs \ {k} :
           (Holds(j)' <=> Holds(j)) /\ arg'[j] = arg[j] /\ Refs(j)' = Refs(j)
  BY <1>1, <1>2 DEF TypeOK, Holds, Alive, Refs
<1>4. /\ ~Reserving(c)' /\ Reserving(c)
      /\ \A d \in Threads \ {c} : /\ Reserving(d)' <=> Reserving(d)
                                  /\ tslot'[d] = tslot[d] /\ tjob'[d] = tjob[d]
                                  /\ tcall'[d] = tcall[d] /\ tpc'[d] = tpc[d]
  BY <1>2 DEF TypeOK, Reserving, Create
<1>5. TypeOK'
  <2>1. function' \in [Slots -> Jobs \cup {NULL}]
    BY <1>1 DEF TypeOK, Create
  <2> QED
    BY <1>1, <1>2, <2>1, SMTT(20) DEF TypeOK, Create, histVars, Slots
<1>6. ReservationOK'
  BY <1>1, <1>2, <1>3, <1>4, SMTT(20) DEF TypeOK, ReservationOK
<1>7. WaitOK'
  BY <1>2, <1>4, SMTT(20) DEF TypeOK, WaitOK, Blocking, ReservationOK
<1>8. HeldOK'
  BY <1>1, <1>2, <1>3 DEF TypeOK, HeldOK
<1>9. RefCountIsHolders'
  BY <1>1, <1>2, <1>3 DEF RefCountIsHolders
<1>10. NoSharing'
  BY <1>1, <1>3 DEF NoSharing
<1>11. NoSlotLeak'
  <2> SUFFICES ASSUME NEW t \in Slots
               PROVE  in_use[t] <=> \/ \E d \in Threads : Reserving(d)' /\ tslot'[d] = t
                                    \/ \E i \in Jobs : Holds(i)' /\ arg'[i] = t
    BY <1>2 DEF NoSlotLeak
  <2>1. CASE t = s
    BY <1>1, <1>3, <2>1
  <2>2. CASE t # s
    <3>1. (\E d \in Threads : Reserving(d)' /\ tslot'[d] = t)
            <=> (\E d \in Threads : Reserving(d) /\ tslot[d] = t)
      BY <1>1, <1>4, <2>2
    <3>2. (\E i \in Jobs : Holds(i)' /\ arg'[i] = t)
            <=> (\E i \in Jobs : Holds(i) /\ arg[i] = t)
      BY <1>1, <1>3, <2>2 DEF Holds, Alive
    <3> QED
      BY <3>1, <3>2 DEF NoSlotLeak
  <2> QED
    BY <2>1, <2>2
<1> QED BY <1>5, <1>6, <1>7, <1>8, <1>9, <1>10, <1>11

LEMMA CreateFailsOwnership ==
  ASSUME Ownership, NEW c \in Threads, CreateFails(c)
  PROVE  Ownership'
<1> DEFINE s == tslot[c]
<1> USE NullAssumption DEF Ownership
<1>1. /\ s \in Slots /\ tjob[c] \in Jobs /\ in_use[s]
      /\ \A j \in Jobs : Holds(j) => arg[j] # s
      /\ \A d \in Threads : Reserving(d) /\ tslot[d] = s => d = c
  BY DEF CreateFails, ReservationOK
<1>2. /\ in_use' = [in_use EXCEPT ![s] = FALSE]
      /\ ref_count' = [ref_count EXCEPT ![s] = 0]
      /\ wpc' = wpc /\ arg' = arg /\ handle' = handle /\ targs' = targs /\ tidx' = tidx
      /\ tpc' = [tpc EXCEPT ![c] = "idle"] /\ tcall' = [tcall EXCEPT ![c] = "none"]
      /\ tslot' = [tslot EXCEPT ![c] = 0] /\ tjob' = [tjob EXCEPT ![c] = NULL]
  BY DEF CreateFails, LeaveRun, workerVars
<1>3. \A j \in Jobs : (Holds(j)' <=> Holds(j)) /\ Refs(j)' = Refs(j)
  BY <1>2 DEF Holds, Alive, Refs
<1>4. /\ ~Reserving(c)' /\ Reserving(c)
      /\ \A d \in Threads \ {c} : /\ Reserving(d)' <=> Reserving(d)
                                  /\ tslot'[d] = tslot[d] /\ tjob'[d] = tjob[d]
                                  /\ tcall'[d] = tcall[d] /\ tpc'[d] = tpc[d]
  BY <1>2 DEF TypeOK, Reserving, CreateFails
<1>5. TypeOK'
  <2>1. /\ function' \in [Slots -> Jobs \cup {NULL}]
        /\ status' \in [Slots -> Status]
    BY <1>1 DEF TypeOK, CreateFails, Status
  <2> QED
    BY <1>1, <1>2, <2>1 DEF TypeOK, CreateFails, workerVars, histVars, Slots
<1>6. ReservationOK'
  BY <1>1, <1>2, <1>3, <1>4 DEF TypeOK, ReservationOK
<1>7. WaitOK'
  BY <1>2, <1>4 DEF TypeOK, WaitOK, Blocking, ReservationOK
<1>8. HeldOK'
  BY <1>2, <1>3 DEF HeldOK
<1>9. RefCountIsHolders'
  BY <1>1, <1>2, <1>3 DEF TypeOK, RefCountIsHolders, HeldOK
<1>10. NoSharing'
  BY <1>2, <1>3 DEF NoSharing
<1>11. NoSlotLeak'
  <2> SUFFICES ASSUME NEW t \in Slots
               PROVE  in_use'[t] <=> \/ \E d \in Threads : Reserving(d)' /\ tslot'[d] = t
                                     \/ \E i \in Jobs : Holds(i)' /\ arg'[i] = t
    BY DEF NoSlotLeak
  <2>1. CASE t = s
    BY <1>1, <1>2, <1>3, <1>4, <2>1 DEF TypeOK
  <2>2. CASE t # s
    <3>1. (\E d \in Threads : Reserving(d)' /\ tslot'[d] = t)
            <=> (\E d \in Threads : Reserving(d) /\ tslot[d] = t)
      BY <1>4, <2>2
    <3>2. in_use'[t] = in_use[t]
      BY <1>2, <2>2 DEF TypeOK
    <3> QED
      BY <1>2, <1>3, <3>1, <3>2 DEF NoSlotLeak
  <2> QED
    BY <2>1, <2>2
<1> QED BY <1>5, <1>6, <1>7, <1>8, <1>9, <1>10, <1>11

LEMMA StartOwnership ==
  ASSUME Ownership, NEW j \in Jobs, Start(j)
  PROVE  Ownership'
<1> USE NullAssumption DEF Ownership, Start, slotVars, workerVars, callVars, histVars
<1>1. TypeOK'
  BY DEF TypeOK, Status, Terminal, Results, Slots, BroadcastTask
<1>2. ReservationOK'
  BY DEF TypeOK, ReservationOK, Reserving, Holds, Alive, HeldOK, BroadcastTask, SleepsOn
<1>3. WaitOK'
  BY DEF TypeOK, WaitOK, Blocking, BroadcastTask, SleepsOn
<1>4. HeldOK'
  BY DEF TypeOK, HeldOK, Holds, Alive
<1>5. RefCountIsHolders'
  BY DEF TypeOK, RefCountIsHolders, Refs, Holds, Alive, HeldOK
<1>6. NoSharing'
  BY DEF TypeOK, NoSharing, Holds, Alive
<1>7. NoSlotLeak'
  BY ZenonT(30) DEF TypeOK, NoSlotLeak, Reserving, Holds, Alive, HeldOK, BroadcastTask, SleepsOn
<1> QED BY <1>1, <1>2, <1>3, <1>4, <1>5, <1>6, <1>7

LEMMA RunFunctionOwnership ==
  ASSUME Ownership, NEW j \in Jobs, RunFunction(j)
  PROVE  Ownership'
<1> USE NullAssumption DEF Ownership, RunFunction, slotVars, workerVars, callVars, histVars
<1>1. TypeOK'
  <2>1. wres' \in [Jobs -> Results]
    BY DEF TypeOK
  <2>2. executed' \in [Jobs -> Nat]
    <3> DEFINE x == function[arg[j]]
    <3>1. executed' = [i \in Jobs |-> IF i = x THEN executed[x] + 1 ELSE executed[i]]
      BY Zenon DEF TypeOK
    <3>2. \A i \in Jobs : executed[i] \in Nat
      BY DEF TypeOK
    <3>3. \A i \in Jobs : (IF i = x THEN executed[x] + 1 ELSE executed[i]) \in Nat
      <4> HIDE DEF x
      <4> QED BY <3>2
    <3> QED
      BY <3>1, <3>3, Zenon
  <2> QED
    BY <2>1, <2>2 DEF TypeOK
<1>2. ReservationOK'
  BY DEF TypeOK, ReservationOK, Reserving, Holds, Alive, HeldOK
<1>3. WaitOK'
  BY DEF TypeOK, WaitOK, Blocking
<1>4. HeldOK'
  BY DEF TypeOK, HeldOK, Holds, Alive
<1>5. RefCountIsHolders'
  BY DEF TypeOK, RefCountIsHolders, Refs, Holds, Alive, HeldOK
<1>6. NoSharing'
  BY DEF TypeOK, NoSharing, Holds, Alive
<1>7. NoSlotLeak'
  BY ZenonT(30) DEF TypeOK, NoSlotLeak, Reserving, Holds, Alive, HeldOK
<1> QED BY <1>1, <1>2, <1>3, <1>4, <1>5, <1>6, <1>7

LEMMA PublishOwnership ==
  ASSUME Ownership, NEW j \in Jobs, Publish(j)
  PROVE  Ownership'
<1> USE NullAssumption DEF Ownership, Publish, slotVars, workerVars, callVars, histVars
<1>1. TypeOK'
  BY DEF TypeOK, Status, Terminal, Results, Slots, BroadcastTask, FinalStatus, HeldOK, Holds, Alive
<1>2. ReservationOK'
  BY DEF TypeOK, ReservationOK, Reserving, Holds, Alive, HeldOK, BroadcastTask, SleepsOn
<1>3. WaitOK'
  BY DEF TypeOK, WaitOK, Blocking, BroadcastTask, SleepsOn
<1>4. HeldOK'
  BY DEF TypeOK, HeldOK, Holds, Alive
<1>5. RefCountIsHolders'
  BY DEF TypeOK, RefCountIsHolders, Refs, Holds, Alive, HeldOK
<1>6. NoSharing'
  BY DEF TypeOK, NoSharing, Holds, Alive
<1>7. NoSlotLeak'
  BY ZenonT(30) DEF TypeOK, NoSlotLeak, Reserving, Holds, Alive, HeldOK, BroadcastTask, SleepsOn
<1> QED BY <1>1, <1>2, <1>3, <1>4, <1>5, <1>6, <1>7

LEMMA NotifyOwnership ==
  ASSUME Ownership, NEW j \in Jobs, Notify(j)
  PROVE  Ownership'
<1> USE NullAssumption DEF Ownership, Notify, slotVars, workerVars, callVars, histVars
<1>1. TypeOK'
  BY DEF TypeOK, Status, Terminal, Results, Slots, BroadcastCompletion
<1>2. ReservationOK'
  BY DEF TypeOK, ReservationOK, Reserving, Holds, Alive, HeldOK, BroadcastCompletion
<1>3. WaitOK'
  BY DEF TypeOK, WaitOK, Blocking, BroadcastCompletion
<1>4. HeldOK'
  BY DEF TypeOK, HeldOK, Holds, Alive
<1>5. RefCountIsHolders'
  BY DEF TypeOK, RefCountIsHolders, Refs, Holds, Alive, HeldOK
<1>6. NoSharing'
  BY DEF TypeOK, NoSharing, Holds, Alive
<1>7. NoSlotLeak'
  BY DEF TypeOK, NoSlotLeak, Reserving, Holds, Alive, HeldOK, BroadcastCompletion
<1> QED BY <1>1, <1>2, <1>3, <1>4, <1>5, <1>6, <1>7

LEMMA RunContinuationOwnership ==
  ASSUME Ownership, NEW j \in Jobs, RunContinuation(j)
  PROVE  Ownership'
<1> USE NullAssumption DEF Ownership, RunContinuation, slotVars, workerVars, callVars, histVars
<1>1. TypeOK'
  BY DEF TypeOK, Status, Terminal, Results, Slots
<1>2. ReservationOK'
  BY DEF TypeOK, ReservationOK, Reserving, Holds, Alive, HeldOK
<1>3. WaitOK'
  BY DEF TypeOK, WaitOK, Blocking
<1>4. HeldOK'
  BY DEF TypeOK, HeldOK, Holds, Alive
<1>5. RefCountIsHolders'
  BY DEF TypeOK, RefCountIsHolders, Refs, Holds, Alive, HeldOK
<1>6. NoSharing'
  BY DEF TypeOK, NoSharing, Holds, Alive
<1>7. NoSlotLeak'
  BY ZenonT(30) DEF TypeOK, NoSlotLeak, Reserving, Holds, Alive, HeldOK
<1> QED BY <1>1, <1>2, <1>3, <1>4, <1>5, <1>6, <1>7

LEMMA WorkerReleaseOwnership ==
  ASSUME Ownership, NEW j \in Jobs, WorkerRelease(j)
  PROVE  Ownership'
<1> DEFINE s == arg[j]
<1> USE DEF Ownership
<1>1. /\ s \in Slots /\ Holds(j) /\ Alive(j) /\ in_use[s]
      /\ ref_count[s] = IF j \in handle THEN 2 ELSE 1
  BY DEF WorkerRelease, Holds, Alive, HeldOK, RefCountIsHolders, Refs
<1>2. /\ wpc' = [wpc EXCEPT ![j] = "done"] /\ arg' = arg /\ handle' = handle
      /\ UNCHANGED callVars
      /\ ref_count' = [ref_count EXCEPT ![s] = IF j \in handle THEN 1 ELSE 0]
      /\ in_use' = [in_use EXCEPT ![s] = j \in handle]
  <2>1. ref_count[s] - 1 = IF j \in handle THEN 1 ELSE 0
    BY <1>1
  <2>2. (in_use[s] /\ ~LastReference(ref_count[s] - 1)) = (j \in handle)
    BY <1>1, <2>1 DEF LastReference, TypeOK
  <2> QED
    BY <2>1, <2>2, Zenon DEF WorkerRelease, DecrementRef
<1>3. /\ Holds(j)' <=> j \in handle
      /\ Refs(j)' = IF j \in handle THEN 1 ELSE 0
      /\ \A i \in Jobs \ {j} : (Holds(i)' <=> Holds(i)) /\ Refs(i)' = Refs(i)
  BY <1>2 DEF TypeOK, Holds, Alive, Refs
<1>4. \A i \in Jobs \ {j} : Holds(i) => arg[i] # s
  BY <1>1 DEF NoSharing
<1>5. \A c \in Threads : Reserving(c) => tslot[c] # s
  BY <1>1 DEF ReservationOK
<1>6. TypeOK'
  BY <1>1, <1>2 DEF TypeOK, WorkerRelease, callVars, histVars
<1>7. ReservationOK'
  BY <1>1, <1>2, <1>3, <1>5 DEF TypeOK, ReservationOK, Reserving, callVars, Alive
<1>8. WaitOK'
  BY <1>2 DEF WaitOK, Blocking, callVars
<1>9. HeldOK'
  BY <1>1, <1>2, <1>3 DEF TypeOK, HeldOK, Holds
<1>10. RefCountIsHolders'
  BY <1>1, <1>2, <1>3, <1>4 DEF TypeOK, RefCountIsHolders, HeldOK
<1>11. NoSharing'
  BY <1>1, <1>2, <1>3 DEF NoSharing
<1>12. NoSlotLeak'
  <2> SUFFICES ASSUME NEW t \in Slots
               PROVE  in_use'[t] <=> \/ \E c \in Threads : Reserving(c) /\ tslot[c] = t
                                     \/ \E i \in Jobs : Holds(i)' /\ arg[i] = t
    BY <1>2 DEF NoSlotLeak, Reserving, callVars
  <2>1. CASE t = s
    BY <1>1, <1>2, <1>3, <1>4, <1>5, <2>1 DEF TypeOK
  <2>2. CASE t # s
    <3>1. in_use'[t] = in_use[t]
      BY <1>2, <2>2 DEF TypeOK
    <3>2. (\E i \in Jobs : Holds(i)' /\ arg[i] = t)
            <=> (\E i \in Jobs : Holds(i) /\ arg[i] = t)
      BY <1>1, <1>3, <2>2
    <3> QED
      BY <3>1, <3>2 DEF NoSlotLeak
  <2> QED
    BY <2>1, <2>2
<1> QED BY <1>6, <1>7, <1>8, <1>9, <1>10, <1>11, <1>12

(* The waits and the accessors leave slots, workers and handles alone; the *)
(* reservations and the references do not see them.                        *)
LEMMA QuietOwnership ==
  ASSUME Ownership, TypeOK', WaitOK',
         UNCHANGED <<in_use, ref_count, wpc, arg, handle, tslot, tjob>>,
         \A c \in Threads : /\ Reserving(c)' <=> Reserving(c)
                            /\ tcall'[c] = "run" <=> tcall[c] = "run"
  PROVE  Ownership'
<1> USE DEF Ownership
<1>1. \A j \in Jobs : (Holds(j)' <=> Holds(j)) /\ Refs(j)' = Refs(j)
  BY DEF Holds, Alive, Refs
<1>2. ReservationOK'
  BY <1>1 DEF ReservationOK
<1>3. HeldOK' /\ RefCountIsHolders' /\ NoSharing'
  BY <1>1 DEF HeldOK, RefCountIsHolders, NoSharing
<1>4. NoSlotLeak'
  BY <1>1 DEF NoSlotLeak
<1> QED BY <1>2, <1>3, <1>4

LEMMA IsCompletedOwnership ==
  ASSUME Ownership, NEW c \in Threads, NEW j \in Jobs, IsCompleted(c, j)
  PROVE  Ownership'
<1> USE DEF IsCompleted, slotVars, workerVars, callVars, histVars
<1>1. TypeOK'
  BY DEF Ownership, TypeOK
<1>2. WaitOK'
  BY DEF Ownership, TypeOK, WaitOK, Blocking
<1> QED BY <1>1, <1>2, QuietOwnership DEF Ownership, TypeOK, Reserving

LEMMA RequestCancelOwnership ==
  ASSUME Ownership, NEW c \in Threads, NEW j \in Jobs, RequestCancel(c, j)
  PROVE  Ownership'
<1> USE DEF RequestCancel, slotVars, workerVars, callVars, histVars
<1>1. TypeOK'
  BY DEF Ownership, TypeOK, BroadcastTask
<1>2. WaitOK'
  BY DEF Ownership, TypeOK, WaitOK, Blocking, BroadcastTask, SleepsOn
<1> QED BY <1>1, <1>2, QuietOwnership DEF Ownership, TypeOK, Reserving, BroadcastTask, SleepsOn

LEMMA ContinueWithOwnership ==
  ASSUME Ownership, NEW c \in Threads, NEW j \in Jobs, ContinueWith(c, j)
  PROVE  Ownership'
<1> USE DEF ContinueWith, slotVars, workerVars, callVars, histVars
<1>1. TypeOK'
  BY DEF Ownership, TypeOK
<1>2. WaitOK'
  BY DEF Ownership, TypeOK, WaitOK, Blocking
<1> QED BY <1>1, <1>2, QuietOwnership DEF Ownership, TypeOK, Reserving

LEMMA BeginWaitOwnership ==
  ASSUME Ownership, NEW c \in Threads, BeginWait(c)
  PROVE  Ownership'
<1> USE DEF Ownership
<1>1. PICK n \in 1 .. MaxWait, kind \in {"wait", "timed", "any"} : \E list \in [1 .. n -> handle] :
        /\ targs' = [targs EXCEPT ![c] = list]
        /\ tcall' = [tcall EXCEPT ![c] = kind]
        /\ tpc' = [tpc EXCEPT ![c] = IF kind = "any" THEN "quick" ELSE "check"]
  BY DEF BeginWait
<1>2. PICK list \in [1 .. n -> handle] :
        /\ targs' = [targs EXCEPT ![c] = list]
        /\ tcall' = [tcall EXCEPT ![c] = kind]
        /\ tpc' = [tpc EXCEPT ![c] = IF kind = "any" THEN "quick" ELSE "check"]
  BY <1>1
<1>3. tidx' = [tidx EXCEPT ![c] = 1] /\ tpc[c] = "idle"
  BY DEF BeginWait
<1>4. /\ UNCHANGED <<slotVars, workerVars, tslot, tjob, handle, histVars>>
  BY DEF BeginWait
<1>5. n \in Nat \ {0} /\ list \in Seq(Jobs) /\ Len(list) = n /\ DOMAIN list = 1 .. n
  <2>1. n \in Nat \ {0}
    BY MaxWaitAssumption
  <2>2. list \in [1 .. n -> Jobs]
    BY DEF TypeOK
  <2> QED
    BY <2>1, <2>2
<1>6. TypeOK'
  BY <1>2, <1>3, <1>4, <1>5 DEF TypeOK, slotVars, workerVars, histVars
<1>7. tcall[c] = "none"
  BY <1>3, ZenonT(30) DEF TypeOK, WaitOK, Blocking, ReservationOK, Reserving
<1>8. WaitOK'
  <2> SUFFICES ASSUME NEW d \in Threads
               PROVE  /\ Blocking(d)' =>
                            /\ tpc'[d] \in {"quick", "check", "relock", "asleep"}
                            /\ tidx'[d] \in DOMAIN targs'[d]
                            /\ \A k \in DOMAIN targs'[d] : targs'[d][k] \in handle
                      /\ ~Blocking(d)' => tpc'[d] \in {"idle", "reserved"} /\ targs'[d] = << >>
    BY <1>4 DEF WaitOK
  <2>1. CASE d = c
    BY <1>2, <1>3, <1>5, <2>1 DEF TypeOK, Blocking
  <2>2. CASE d # c
    BY <1>2, <1>3, <2>2 DEF TypeOK, WaitOK, Blocking
  <2> QED BY <2>1, <2>2
<1>9. \A d \in Threads : /\ Reserving(d)' <=> Reserving(d)
                         /\ tcall'[d] = "run" <=> tcall[d] = "run"
  BY <1>2, <1>3, <1>7 DEF TypeOK, Reserving
<1>10. UNCHANGED <<in_use, ref_count, wpc, arg, handle, tslot, tjob>>
  BY <1>4 DEF slotVars, workerVars
<1> HIDE DEF Ownership
<1> QED BY <1>6, <1>8, <1>9, <1>10, QuietOwnership

LEMMA CheckDoneOwnership ==
  ASSUME Ownership, NEW c \in Threads, CheckDone(c)
  PROVE  Ownership'
<1> USE DEF Ownership
<1>1. /\ targs[c] \in Seq(Jobs) /\ tidx[c] \in 1 .. Len(targs[c])
      /\ Current(c) \in Jobs /\ Blocking(c)
  BY DEF CheckDone, TypeOK, WaitOK, Blocking, Current
<1>2. /\ UNCHANGED <<slotVars, workerVars, handle, accepted, contRuns, executed, tslot, tjob>>
      /\ told' = told \cup {Current(c)}
  BY DEF CheckDone, Return
<1>3. CASE tidx[c] < Len(targs[c])
  <2>1. tidx' = [tidx EXCEPT ![c] = @ + 1] /\ UNCHANGED <<tpc, tcall, targs>>
    BY <1>3 DEF CheckDone
  <2>2. TypeOK'
    BY <1>1, <1>2, <2>1, SMTT(20) DEF TypeOK, slotVars, workerVars
  <2>3. WaitOK'
    <3> SUFFICES ASSUME NEW d \in Threads
                 PROVE  /\ Blocking(d)' =>
                              /\ tpc'[d] \in {"quick", "check", "relock", "asleep"}
                              /\ tidx'[d] \in DOMAIN targs'[d]
                              /\ \A k \in DOMAIN targs'[d] : targs'[d][k] \in handle
                        /\ ~Blocking(d)' => tpc'[d] \in {"idle", "reserved"} /\ targs'[d] = << >>
      BY <1>2 DEF WaitOK
    <3>1. CASE d = c
      <4>1. tidx'[c] \in DOMAIN targs[c]
        BY <1>1, <1>3, <2>1 DEF TypeOK
      <4> QED BY <2>1, <3>1, <4>1 DEF WaitOK, Blocking
    <3>2. CASE d # c
      BY <2>1, <3>2 DEF TypeOK, WaitOK, Blocking
    <3> QED BY <3>1, <3>2
  <2> QED BY <1>2, <2>1, <2>2, <2>3, QuietOwnership DEF slotVars, workerVars, Reserving
<1>4. CASE ~(tidx[c] < Len(targs[c]))
  <2>1. Return(c)
    BY <1>4 DEF CheckDone
  <2>2. TypeOK'
    BY <1>1, <1>2, <2>1, SMTT(20) DEF TypeOK, slotVars, workerVars, Return
  <2>3. WaitOK'
    BY <1>2, <2>1 DEF TypeOK, WaitOK, Blocking, Return
  <2>4. \A d \in Threads : /\ Reserving(d)' <=> Reserving(d)
                           /\ tcall'[d] = "run" <=> tcall[d] = "run"
    BY <1>1, <2>1 DEF TypeOK, Reserving, Return, CheckDone, Blocking
  <2>5. UNCHANGED <<in_use, ref_count, wpc, arg, handle, tslot, tjob>>
    BY <1>2 DEF slotVars, workerVars
  <2> HIDE DEF Ownership
  <2> QED BY <2>2, <2>3, <2>4, <2>5, QuietOwnership
<1> QED BY <1>3, <1>4

LEMMA CheckSleepOwnership ==
  ASSUME Ownership, NEW c \in Threads, CheckSleep(c)
  PROVE  Ownership'
<1> USE DEF CheckSleep, slotVars, workerVars, callVars, histVars
<1>1. TypeOK'
  BY DEF Ownership, TypeOK
<1>2. WaitOK'
  BY DEF Ownership, TypeOK, WaitOK, Blocking
<1> QED BY <1>1, <1>2, QuietOwnership DEF Ownership, TypeOK, Reserving

LEMMA ExpireOwnership ==
  ASSUME Ownership, NEW c \in Threads, Expire(c)
  PROVE  Ownership'
<1> USE DEF Expire, slotVars, workerVars, callVars, histVars
<1>1. TypeOK'
  BY DEF Ownership, TypeOK, Return, Current, WaitOK, Blocking
<1>2. WaitOK'
  BY DEF Ownership, TypeOK, WaitOK, Blocking, Return
<1> QED BY <1>1, <1>2, QuietOwnership DEF Ownership, TypeOK, Reserving, Return

LEMMA SpuriousWakeOwnership ==
  ASSUME Ownership, NEW c \in Threads, SpuriousWake(c)
  PROVE  Ownership'
<1> USE DEF SpuriousWake, slotVars, workerVars, callVars, histVars
<1>1. TypeOK'
  BY DEF Ownership, TypeOK
<1>2. WaitOK'
  BY DEF Ownership, TypeOK, WaitOK, Blocking
<1> QED BY <1>1, <1>2, QuietOwnership DEF Ownership, TypeOK, Reserving

LEMMA AnyFoundOwnership ==
  ASSUME Ownership, NEW c \in Threads, AnyFound(c)
  PROVE  Ownership'
<1> USE DEF AnyFound, slotVars, workerVars, callVars, histVars
<1>1. TypeOK'
  BY SMTT(20) DEF Ownership, TypeOK, Return, Current, WaitOK, Blocking
<1>2. WaitOK'
  BY DEF Ownership, TypeOK, WaitOK, Blocking, Return
<1> QED BY <1>1, <1>2, QuietOwnership DEF Ownership, TypeOK, Reserving, Return

LEMMA AnyQuickOwnership ==
  ASSUME Ownership, NEW c \in Threads, AnyQuick(c)
  PROVE  Ownership'
<1> USE DEF Ownership
<1>1. /\ targs[c] \in Seq(Jobs) /\ tidx[c] \in 1 .. Len(targs[c]) /\ Blocking(c)
      /\ ~Reserving(c)
  BY DEF AnyQuick, TypeOK, WaitOK, Blocking, Reserving
<1>2. UNCHANGED <<slotVars, workerVars, tcall, tslot, tjob, targs, handle, histVars>>
  BY DEF AnyQuick
<1>3. PICK i \in 1 .. Len(targs[c]), p \in {"quick", "check", "asleep"} :
        tidx' = [tidx EXCEPT ![c] = i] /\ tpc' = [tpc EXCEPT ![c] = p]
  <2>1. CASE tidx[c] < Len(targs[c])
    <3>1. /\ tidx[c] + 1 \in 1 .. Len(targs[c])
          /\ tidx' = [tidx EXCEPT ![c] = tidx[c] + 1] /\ tpc' = [tpc EXCEPT ![c] = tpc[c]]
      BY <1>1, <2>1 DEF TypeOK, AnyQuick
    <3> QED BY <3>1 DEF AnyQuick
  <2>2. CASE ~(tidx[c] < Len(targs[c]))
    <3>1. /\ 1 \in 1 .. Len(targs[c])
          /\ tidx' = [tidx EXCEPT ![c] = 1] /\ tpc' = [tpc EXCEPT ![c] = "check"]
      BY <1>1, <2>2 DEF TypeOK, AnyQuick
    <3> QED BY <3>1
  <2> QED BY <2>1, <2>2
<1>4. TypeOK'
  BY <1>1, <1>2, <1>3, SMTT(20) DEF TypeOK, slotVars, workerVars, histVars
<1>5. WaitOK'
  <2> SUFFICES ASSUME NEW d \in Threads
               PROVE  /\ Blocking(d)' =>
                            /\ tpc'[d] \in {"quick", "check", "relock", "asleep"}
                            /\ tidx'[d] \in DOMAIN targs'[d]
                            /\ \A k \in DOMAIN targs'[d] : targs'[d][k] \in handle
                      /\ ~Blocking(d)' => tpc'[d] \in {"idle", "reserved"} /\ targs'[d] = << >>
    BY <1>2 DEF WaitOK
  <2>1. CASE d = c
    <3>1. tidx'[c] \in DOMAIN targs[c] /\ tpc'[c] \in {"quick", "check", "asleep"}
      BY <1>1, <1>3 DEF TypeOK
    <3> QED BY <1>2, <2>1, <3>1 DEF WaitOK, Blocking
  <2>2. CASE d # c
    BY <1>2, <1>3, <2>2 DEF TypeOK, WaitOK, Blocking
  <2> QED BY <2>1, <2>2
<1>6. \A d \in Threads : Reserving(d)' <=> Reserving(d)
  BY <1>1, <1>3 DEF TypeOK, Reserving
<1> QED BY <1>2, <1>4, <1>5, <1>6, QuietOwnership DEF slotVars, workerVars

LEMMA AnyCheckOwnership ==
  ASSUME Ownership, NEW c \in Threads, AnyCheck(c)
  PROVE  Ownership'
<1> USE DEF AnyCheck, slotVars, workerVars, callVars, histVars
<1>1. TypeOK'
  BY DEF Ownership, TypeOK
<1>2. WaitOK'
  BY DEF Ownership, TypeOK, WaitOK, Blocking
<1> QED BY <1>1, <1>2, QuietOwnership DEF Ownership, TypeOK, Reserving

LEMMA AnyRelockOwnership ==
  ASSUME Ownership, NEW c \in Threads, AnyRelock(c)
  PROVE  Ownership'
<1> USE DEF Ownership
<1>1. /\ targs[c] \in Seq(Jobs) /\ tidx[c] \in 1 .. Len(targs[c]) /\ Blocking(c)
      /\ ~Reserving(c)
  BY DEF AnyRelock, TypeOK, WaitOK, Blocking, Reserving
<1>2. UNCHANGED <<slotVars, workerVars, tcall, tslot, tjob, targs, handle, histVars>>
  BY DEF AnyRelock
<1>3. PICK i \in 1 .. Len(targs[c]), p \in {"quick", "check", "asleep"} :
        tidx' = [tidx EXCEPT ![c] = i] /\ tpc' = [tpc EXCEPT ![c] = p]
  <2>1. CASE tidx[c] < Len(targs[c])
    <3>1. /\ tidx[c] + 1 \in 1 .. Len(targs[c])
          /\ tidx' = [tidx EXCEPT ![c] = tidx[c] + 1] /\ tpc' = [tpc EXCEPT ![c] = "check"]
      BY <1>1, <2>1 DEF TypeOK, AnyRelock
    <3> QED BY <3>1
  <2>2. CASE ~(tidx[c] < Len(targs[c]))
    <3>1. /\ 1 \in 1 .. Len(targs[c])
          /\ tidx' = [tidx EXCEPT ![c] = 1] /\ tpc' = [tpc EXCEPT ![c] = "asleep"]
      BY <1>1, <2>2 DEF TypeOK, AnyRelock
    <3> QED BY <3>1
  <2> QED BY <2>1, <2>2
<1>4. TypeOK'
  BY <1>1, <1>2, <1>3, SMTT(20) DEF TypeOK, slotVars, workerVars, histVars
<1>5. WaitOK'
  <2> SUFFICES ASSUME NEW d \in Threads
               PROVE  /\ Blocking(d)' =>
                            /\ tpc'[d] \in {"quick", "check", "relock", "asleep"}
                            /\ tidx'[d] \in DOMAIN targs'[d]
                            /\ \A k \in DOMAIN targs'[d] : targs'[d][k] \in handle
                      /\ ~Blocking(d)' => tpc'[d] \in {"idle", "reserved"} /\ targs'[d] = << >>
    BY <1>2 DEF WaitOK
  <2>1. CASE d = c
    <3>1. tidx'[c] \in DOMAIN targs[c] /\ tpc'[c] \in {"quick", "check", "asleep"}
      BY <1>1, <1>3 DEF TypeOK
    <3> QED BY <1>2, <2>1, <3>1 DEF WaitOK, Blocking
  <2>2. CASE d # c
    BY <1>2, <1>3, <2>2 DEF TypeOK, WaitOK, Blocking
  <2> QED BY <2>1, <2>2
<1>6. \A d \in Threads : Reserving(d)' <=> Reserving(d)
  BY <1>1, <1>3 DEF TypeOK, Reserving
<1> QED BY <1>2, <1>4, <1>5, <1>6, QuietOwnership DEF slotVars, workerVars

LEMMA ReleaseOwnership ==
  ASSUME Ownership, NEW c \in Threads, NEW j \in Jobs, Release(c, j)
  PROVE  Ownership'
<1> DEFINE s == arg[j]
<1> USE DEF Ownership
<1>1. /\ s \in Slots /\ Holds(j) /\ j \in handle /\ in_use[s]
      /\ ref_count[s] = IF Alive(j) THEN 2 ELSE 1
  BY DEF Release, Holds, HeldOK, RefCountIsHolders, Refs
<1>2. /\ UNCHANGED <<wpc, arg>> /\ handle' = handle \ {j}
      /\ UNCHANGED callVars
      /\ ref_count' = [ref_count EXCEPT ![s] = IF Alive(j) THEN 1 ELSE 0]
      /\ in_use' = [in_use EXCEPT ![s] = Alive(j)]
  <2>1. ref_count[s] - 1 = IF Alive(j) THEN 1 ELSE 0
    BY <1>1
  <2>2. (in_use[s] /\ ~LastReference(ref_count[s] - 1)) = Alive(j)
    BY <1>1, <2>1 DEF LastReference, TypeOK, Alive
  <2> QED
    BY <2>1, <2>2, Zenon DEF Release, DecrementRef, workerVars
<1>3. /\ Holds(j)' <=> Alive(j)
      /\ Refs(j)' = IF Alive(j) THEN 1 ELSE 0
      /\ \A i \in Jobs \ {j} : (Holds(i)' <=> Holds(i)) /\ Refs(i)' = Refs(i)
  BY <1>2 DEF TypeOK, Holds, Alive, Refs
<1>4. \A i \in Jobs \ {j} : Holds(i) => arg[i] # s
  BY <1>1 DEF NoSharing
<1>5. \A d \in Threads : Reserving(d) => tslot[d] # s
  BY <1>1 DEF ReservationOK
<1>6. TypeOK'
  <2>1. ref_count' \in [Slots -> 0 .. 2] /\ in_use' \in [Slots -> BOOLEAN]
    BY <1>1, <1>2 DEF TypeOK, Alive
  <2> QED
    BY <1>2, <2>1 DEF TypeOK, Release, workerVars, callVars, histVars
<1>7. ReservationOK'
  <2>1. \A i \in Jobs : Holds(i)' => Holds(i)
    BY <1>1, <1>3
  <2> QED
    BY <1>1, <1>2, <1>5, <2>1 DEF TypeOK, ReservationOK, Reserving, callVars
<1>8. WaitOK'
  BY <1>2 DEF WaitOK, Blocking, callVars, Release, Elems, TypeOK
<1>9. HeldOK'
  BY <1>1, <1>2, <1>3 DEF TypeOK, HeldOK, Holds
<1>10. RefCountIsHolders'
  BY <1>1, <1>2, <1>3, <1>4 DEF TypeOK, RefCountIsHolders, HeldOK
<1>11. NoSharing'
  BY <1>1, <1>2, <1>3 DEF NoSharing
<1>12. NoSlotLeak'
  <2> SUFFICES ASSUME NEW t \in Slots
               PROVE  in_use'[t] <=> \/ \E d \in Threads : Reserving(d) /\ tslot[d] = t
                                     \/ \E i \in Jobs : Holds(i)' /\ arg[i] = t
    BY <1>2 DEF NoSlotLeak, Reserving, callVars
  <2>1. CASE t = s
    BY <1>1, <1>2, <1>3, <1>4, <1>5, <2>1 DEF TypeOK
  <2>2. CASE t # s
    <3>1. in_use'[t] = in_use[t]
      BY <1>2, <2>2 DEF TypeOK
    <3>2. (\E i \in Jobs : Holds(i)' /\ arg[i] = t)
            <=> (\E i \in Jobs : Holds(i) /\ arg[i] = t)
      BY <1>1, <1>3, <2>2
    <3> QED
      BY <3>1, <3>2 DEF NoSlotLeak
  <2> QED
    BY <2>1, <2>2
<1> QED BY <1>6, <1>7, <1>8, <1>9, <1>10, <1>11, <1>12

LEMMA NextOwnership == Ownership /\ [Next]_vars => Ownership'
<1> SUFFICES ASSUME Ownership, [Next]_vars PROVE Ownership'
  OBVIOUS
<1>1. ASSUME NEW j \in Jobs, Worker(j) PROVE Ownership'
  BY <1>1, StartOwnership, RunFunctionOwnership, PublishOwnership, NotifyOwnership,
     RunContinuationOwnership, WorkerReleaseOwnership DEF Worker
<1>2. ASSUME NEW c \in Threads, Proceed(c) PROVE Ownership'
  BY <1>2, CreateOwnership, CreateFailsOwnership, CheckDoneOwnership, CheckSleepOwnership,
     ExpireOwnership, AnyFoundOwnership, AnyQuickOwnership, AnyCheckOwnership,
     AnyRelockOwnership DEF Proceed
<1>3. ASSUME NEW c \in Threads, SpuriousWake(c) \/ BeginWait(c) PROVE Ownership'
  BY <1>3, SpuriousWakeOwnership, BeginWaitOwnership
<1>4. ASSUME NEW c \in Threads, NEW j \in Jobs, Call(c, j) PROVE Ownership'
  BY <1>4, ReserveOwnership, IsCompletedOwnership, RequestCancelOwnership,
     ContinueWithOwnership, ReleaseOwnership DEF Call
<1>5. CASE UNCHANGED vars
  BY <1>5 DEF vars, slotVars, workerVars, callVars, histVars, Ownership, TypeOK, ReservationOK,
     WaitOK, HeldOK, RefCountIsHolders, NoSharing, NoSlotLeak, Holds, Alive, Refs, Reserving,
     Blocking
<1> QED BY <1>1, <1>2, <1>3, <1>4, <1>5 DEF Next

(* The pool's bookkeeping is sound in every state: nothing is freed while  *)
(* it is held, shared or leaked (in_use and ref_count in task.c).          *)
THEOREM OwnershipHolds == Spec => []Ownership
  BY InitOwnership, NextOwnership, PTL DEF Spec

-----------------------------------------------------------------------------
(* Progress, given who owns what.                                          *)

LEMMA InitProgress == Init => Progress
  BY NullAssumption
  DEF Init, Progress, StatusOK, ToldOK, ContinuationOK, ExecutedOnce, Published, Reserving

(* No other held job, and no reservation, uses the slot of a held job.     *)
LEMMA OwnSlot ==
  ASSUME Ownership, NEW j \in Jobs, Holds(j)
  PROVE  /\ arg[j] \in Slots
         /\ \A i \in Jobs : Holds(i) /\ i # j => arg[i] \in Slots /\ arg[i] # arg[j]
         /\ \A c \in Threads : Reserving(c) => tslot[c] \in Slots /\ tslot[c] # arg[j]
  BY DEF Ownership, HeldOK, NoSharing, ReservationOK

LEMMA StartProgress ==
  ASSUME Ownership, Progress, NEW j \in Jobs, Start(j)
  PROVE  Progress'
<1> USE NullAssumption DEF Progress, Start, slotVars, workerVars, callVars, histVars
<1>t. TypeOK
  BY DEF Ownership
<1>o. /\ arg[j] \in Slots
      /\ \A i \in Jobs : Holds(i) /\ i # j => arg[i] \in Slots /\ arg[i] # arg[j]
      /\ \A d \in Threads : Reserving(d) => tslot[d] \in Slots /\ tslot[d] # arg[j]
  BY OwnSlot DEF Holds, Alive
<1>1. StatusOK'
  BY <1>t, <1>o DEF TypeOK, StatusOK, Published, Holds, Alive, FinalStatus, Terminal, IsTerminal, Results
<1>2. ToldOK'
  BY <1>t, <1>o DEF TypeOK, ToldOK, Published
<1>3. ContinuationOK'
  BY <1>t, <1>o DEF TypeOK, ContinuationOK, Reserving, Alive, Holds, BroadcastTask, BroadcastCompletion, SleepsOn
<1>4. ExecutedOnce'
  BY <1>t, <1>o DEF TypeOK, ExecutedOnce
<1> QED BY <1>1, <1>2, <1>3, <1>4

LEMMA RunFunctionProgress ==
  ASSUME Ownership, Progress, NEW j \in Jobs, RunFunction(j)
  PROVE  Progress'
<1> USE NullAssumption DEF Progress, RunFunction, slotVars, workerVars, callVars, histVars
<1>t. TypeOK
  BY DEF Ownership
<1>o. /\ arg[j] \in Slots
      /\ \A i \in Jobs : Holds(i) /\ i # j => arg[i] \in Slots /\ arg[i] # arg[j]
      /\ \A d \in Threads : Reserving(d) => tslot[d] \in Slots /\ tslot[d] # arg[j]
  BY OwnSlot DEF Holds, Alive
<1>1. StatusOK'
  BY <1>t, <1>o DEF TypeOK, StatusOK, Published, Holds, Alive, FinalStatus, Terminal, IsTerminal, Results
<1>2. ToldOK'
  BY <1>t, <1>o DEF TypeOK, ToldOK, Published
<1>3. ContinuationOK'
  BY <1>t, <1>o DEF TypeOK, ContinuationOK, Reserving, Alive, Holds, BroadcastTask, BroadcastCompletion, SleepsOn
<1>4. ExecutedOnce'
  <2>1. function[arg[j]] = j
    BY DEF StatusOK
  <2> QED
    BY <1>t, <2>1 DEF TypeOK, ExecutedOnce
<1> QED BY <1>1, <1>2, <1>3, <1>4

LEMMA PublishProgress ==
  ASSUME Ownership, Progress, NEW j \in Jobs, Publish(j)
  PROVE  Progress'
<1> USE NullAssumption DEF Progress, Publish, slotVars, workerVars, callVars, histVars
<1>t. TypeOK
  BY DEF Ownership
<1>o. /\ arg[j] \in Slots
      /\ \A i \in Jobs : Holds(i) /\ i # j => arg[i] \in Slots /\ arg[i] # arg[j]
      /\ \A d \in Threads : Reserving(d) => tslot[d] \in Slots /\ tslot[d] # arg[j]
  BY OwnSlot DEF Holds, Alive
<1>1. StatusOK'
  BY <1>t, <1>o DEF TypeOK, StatusOK, Published, Holds, Alive, FinalStatus, Terminal, IsTerminal, Results
<1>2. ToldOK'
  BY <1>t, <1>o DEF TypeOK, ToldOK, Published
<1>3. ContinuationOK'
  BY <1>t, <1>o DEF TypeOK, ContinuationOK, Reserving, Alive, Holds, BroadcastTask, BroadcastCompletion, SleepsOn
<1>4. ExecutedOnce'
  BY <1>t, <1>o DEF TypeOK, ExecutedOnce
<1> QED BY <1>1, <1>2, <1>3, <1>4

LEMMA NotifyProgress ==
  ASSUME Ownership, Progress, NEW j \in Jobs, Notify(j)
  PROVE  Progress'
<1> USE NullAssumption DEF Progress, Notify, slotVars, workerVars, callVars, histVars
<1>t. TypeOK
  BY DEF Ownership
<1>o. /\ arg[j] \in Slots
      /\ \A i \in Jobs : Holds(i) /\ i # j => arg[i] \in Slots /\ arg[i] # arg[j]
      /\ \A d \in Threads : Reserving(d) => tslot[d] \in Slots /\ tslot[d] # arg[j]
  BY OwnSlot DEF Holds, Alive
<1>1. StatusOK'
  BY <1>t, <1>o DEF TypeOK, StatusOK, Published, Holds, Alive, FinalStatus, Terminal, IsTerminal, Results
<1>2. ToldOK'
  BY <1>t, <1>o DEF TypeOK, ToldOK, Published
<1>3. ContinuationOK'
  BY <1>t, <1>o DEF TypeOK, ContinuationOK, Reserving, Alive, Holds, BroadcastTask, BroadcastCompletion, SleepsOn
<1>4. ExecutedOnce'
  BY <1>t, <1>o DEF TypeOK, ExecutedOnce
<1> QED BY <1>1, <1>2, <1>3, <1>4

LEMMA RunContinuationProgress ==
  ASSUME Ownership, Progress, NEW j \in Jobs, RunContinuation(j)
  PROVE  Progress'
<1> USE NullAssumption DEF Progress, RunContinuation, slotVars, workerVars, callVars, histVars
<1>t. TypeOK
  BY DEF Ownership
<1>o. /\ arg[j] \in Slots
      /\ \A i \in Jobs : Holds(i) /\ i # j => arg[i] \in Slots /\ arg[i] # arg[j]
      /\ \A d \in Threads : Reserving(d) => tslot[d] \in Slots /\ tslot[d] # arg[j]
  BY OwnSlot DEF Holds, Alive
<1>1. StatusOK'
  BY <1>t, <1>o DEF TypeOK, StatusOK, Published, Holds, Alive, FinalStatus, Terminal, IsTerminal, Results
<1>2. ToldOK'
  BY <1>t, <1>o DEF TypeOK, ToldOK, Published
<1>3. ContinuationOK'
  BY <1>t, <1>o DEF TypeOK, ContinuationOK, Reserving, Alive, Holds, BroadcastTask, BroadcastCompletion, SleepsOn
<1>4. ExecutedOnce'
  BY <1>t, <1>o DEF TypeOK, ExecutedOnce
<1> QED BY <1>1, <1>2, <1>3, <1>4

LEMMA WorkerReleaseProgress ==
  ASSUME Ownership, Progress, NEW j \in Jobs, WorkerRelease(j)
  PROVE  Progress'
<1> USE NullAssumption DEF Progress, WorkerRelease, slotVars, workerVars, callVars, histVars
<1>t. TypeOK
  BY DEF Ownership
<1>o. /\ arg[j] \in Slots
      /\ \A i \in Jobs : Holds(i) /\ i # j => arg[i] \in Slots /\ arg[i] # arg[j]
      /\ \A d \in Threads : Reserving(d) => tslot[d] \in Slots /\ tslot[d] # arg[j]
  BY OwnSlot DEF Holds, Alive
<1>1. StatusOK'
  BY <1>t, <1>o DEF TypeOK, StatusOK, Published, Holds, Alive, FinalStatus, Terminal, IsTerminal, Results
<1>2. ToldOK'
  BY <1>t, <1>o DEF TypeOK, ToldOK, Published
<1>3. ContinuationOK'
  BY <1>t, <1>o DEF TypeOK, ContinuationOK, Reserving, Alive, Holds, BroadcastTask, BroadcastCompletion, SleepsOn
<1>4. ExecutedOnce'
  BY <1>t, <1>o DEF TypeOK, ExecutedOnce
<1> QED BY <1>1, <1>2, <1>3, <1>4

LEMMA RequestCancelProgress ==
  ASSUME Ownership, Progress, NEW c \in Threads, NEW j \in Jobs, RequestCancel(c, j)
  PROVE  Progress'
<1> USE NullAssumption DEF Progress, RequestCancel, slotVars, workerVars, callVars, histVars
<1>t. TypeOK
  BY DEF Ownership
<1>o. /\ arg[j] \in Slots
      /\ \A i \in Jobs : Holds(i) /\ i # j => arg[i] \in Slots /\ arg[i] # arg[j]
      /\ \A d \in Threads : Reserving(d) => tslot[d] \in Slots /\ tslot[d] # arg[j]
  BY OwnSlot DEF Holds, Alive
<1>1. StatusOK'
  BY <1>t, <1>o DEF TypeOK, StatusOK, Published, Holds, Alive
<1>2. ToldOK'
  BY <1>t, <1>o DEF TypeOK, ToldOK, Published
<1>3. ContinuationOK'
  BY <1>t, <1>o DEF TypeOK, ContinuationOK, Reserving, Alive, Holds, BroadcastTask, SleepsOn, AcceptsContinuation, IsTerminal, Terminal, StatusOK, Published
<1>4. ExecutedOnce'
  BY <1>t, <1>o DEF TypeOK, ExecutedOnce
<1> QED BY <1>1, <1>2, <1>3, <1>4

LEMMA ContinueWithProgress ==
  ASSUME Ownership, Progress, NEW c \in Threads, NEW j \in Jobs, ContinueWith(c, j)
  PROVE  Progress'
<1> USE NullAssumption DEF Progress, ContinueWith, slotVars, workerVars, callVars, histVars
<1>t. TypeOK
  BY DEF Ownership
<1>o. /\ arg[j] \in Slots
      /\ \A i \in Jobs : Holds(i) /\ i # j => arg[i] \in Slots /\ arg[i] # arg[j]
      /\ \A d \in Threads : Reserving(d) => tslot[d] \in Slots /\ tslot[d] # arg[j]
  BY OwnSlot DEF Holds, Alive
<1>1. StatusOK'
  BY <1>t, <1>o DEF TypeOK, StatusOK, Published, Holds, Alive
<1>2. ToldOK'
  BY <1>t, <1>o DEF TypeOK, ToldOK, Published
<1>3. ContinuationOK'
  <2>1. wpc[j] \in {"start", "run", "publish"}
    <3>1. wpc[j] # "unborn"
      BY DEF Ownership, HeldOK
    <3>2. ~Published(j)
      BY DEF StatusOK, AcceptsContinuation, Holds
    <3> QED
      BY <1>t, <3>1, <3>2 DEF TypeOK, Published
  <2> QED
    BY <1>t, <1>o, <2>1 DEF TypeOK, ContinuationOK, Reserving, Alive, Holds
<1>4. ExecutedOnce'
  BY <1>t, <1>o DEF TypeOK, ExecutedOnce
<1> QED BY <1>1, <1>2, <1>3, <1>4

LEMMA ReleaseProgress ==
  ASSUME Ownership, Progress, NEW c \in Threads, NEW j \in Jobs, Release(c, j)
  PROVE  Progress'
<1> USE NullAssumption DEF Progress, Release, slotVars, workerVars, callVars, histVars
<1>t. TypeOK
  BY DEF Ownership
<1>o. /\ arg[j] \in Slots
      /\ \A i \in Jobs : Holds(i) /\ i # j => arg[i] \in Slots /\ arg[i] # arg[j]
      /\ \A d \in Threads : Reserving(d) => tslot[d] \in Slots /\ tslot[d] # arg[j]
  BY OwnSlot DEF Holds, Alive
<1>1. StatusOK'
  BY <1>t, <1>o DEF TypeOK, StatusOK, Published, Holds, Alive
<1>2. ToldOK'
  BY <1>t, <1>o DEF TypeOK, ToldOK, Published
<1>3. ContinuationOK'
  BY <1>t, <1>o DEF TypeOK, ContinuationOK, Reserving, Alive, Holds, BroadcastTask, SleepsOn, AcceptsContinuation, IsTerminal, Terminal, StatusOK, Published
<1>4. ExecutedOnce'
  BY <1>t, <1>o DEF TypeOK, ExecutedOnce
<1> QED BY <1>1, <1>2, <1>3, <1>4

LEMMA ReserveProgress ==
  ASSUME Ownership, Progress, NEW c \in Threads, NEW j \in Jobs, Reserve(c, j)
  PROVE  Progress'
<1> USE NullAssumption DEF Progress, Reserve, workerVars, histVars
<1>t. TypeOK
  BY DEF Ownership
<1>1. PICK s \in Slots :
        /\ ~in_use[s]
        /\ cancel_requested' = [cancel_requested EXCEPT ![s] = FALSE]
        /\ result' = [result EXCEPT ![s] = "ok"]
        /\ status' = [status EXCEPT ![s] = "pending"]
        /\ continuation' = [continuation EXCEPT ![s] = NULL]
        /\ function' = [function EXCEPT ![s] = NULL]
        /\ tslot' = [tslot EXCEPT ![c] = s]
  BY DEF FirstFree
<1>2. /\ \A i \in Jobs : Holds(i) => arg[i] \in Slots /\ arg[i] # s
      /\ \A d \in Threads : Reserving(d) => tslot[d] \in Slots /\ tslot[d] # s
  BY <1>1 DEF Ownership, HeldOK, RefCountIsHolders, ReservationOK
<1>3. StatusOK'
  BY <1>t, <1>1, <1>2 DEF TypeOK, StatusOK, Published, Holds, Alive
<1>4. ToldOK'
  BY DEF ToldOK, Published
<1>5. ContinuationOK'
  BY <1>t, <1>1, <1>2 DEF TypeOK, ContinuationOK, Reserving, Alive, Holds
<1>6. ExecutedOnce'
  BY DEF ExecutedOnce
<1> QED BY <1>3, <1>4, <1>5, <1>6

LEMMA CreateProgress ==
  ASSUME Ownership, Progress, NEW c \in Threads, Create(c)
  PROVE  Progress'
<1> USE NullAssumption DEF Progress, Create, LeaveRun, histVars
<1>t. TypeOK
  BY DEF Ownership
<1>1. PICK s \in Slots, k \in Jobs :
        /\ s = tslot[c] /\ k = tjob[c] /\ wpc[k] = "unborn" /\ ~Holds(k)
        /\ \A i \in Jobs : Holds(i) => arg[i] \in Slots /\ arg[i] # s
        /\ \A d \in Threads : Reserving(d) /\ d # c => tslot[d] # s
  BY DEF Ownership, ReservationOK, HeldOK, Holds, Alive
<1>2. StatusOK'
  BY <1>t, <1>1 DEF TypeOK, StatusOK, ContinuationOK, Published, Holds, Alive
<1>3. ToldOK'
  BY <1>t, <1>1 DEF TypeOK, ToldOK, Published
<1>4. ContinuationOK'
  BY <1>t, <1>1 DEF TypeOK, ContinuationOK, Reserving, Alive, Holds
<1>5. ExecutedOnce'
  BY <1>t, <1>1 DEF TypeOK, ExecutedOnce
<1> QED BY <1>2, <1>3, <1>4, <1>5

LEMMA CreateFailsProgress ==
  ASSUME Ownership, Progress, NEW c \in Threads, CreateFails(c)
  PROVE  Progress'
<1> USE NullAssumption DEF Progress, CreateFails, LeaveRun, workerVars, histVars
<1>t. TypeOK
  BY DEF Ownership
<1>1. PICK s \in Slots :
        /\ s = tslot[c]
        /\ \A i \in Jobs : Holds(i) => arg[i] \in Slots /\ arg[i] # s
        /\ \A d \in Threads : Reserving(d) /\ d # c => tslot[d] # s
  BY DEF Ownership, ReservationOK, HeldOK
<1>2. StatusOK'
  BY <1>t, <1>1 DEF TypeOK, StatusOK, Published, Holds, Alive
<1>3. ToldOK'
  BY DEF ToldOK, Published
<1>4. ContinuationOK'
  BY <1>t, <1>1 DEF TypeOK, ContinuationOK, Reserving, Alive, Holds
<1>5. ExecutedOnce'
  BY DEF ExecutedOnce
<1> QED BY <1>2, <1>3, <1>4, <1>5

(* What a wait or an accessor tells is read from a terminal status.        *)
LEMMA TellProgress ==
  ASSUME Ownership, Progress, NEW j \in handle, IsTerminal(status[arg[j]]),
         told' \in {told, told \cup {j}},
         UNCHANGED <<slotVars, workerVars, handle, accepted, contRuns, executed, tslot>>,
         \A c \in Threads : Reserving(c)' <=> Reserving(c)
  PROVE  Progress'
<1> USE DEF Progress, slotVars, workerVars
<1>1. j \in Jobs /\ Published(j)
  <2>1. j \in Jobs /\ wpc[j] # "unborn"
    BY DEF Ownership, TypeOK, HeldOK
  <2>2. wpc[j] \notin {"start", "run", "publish"}
    BY <2>1 DEF StatusOK, IsTerminal, Terminal
  <2> QED
    BY <2>1, <2>2 DEF Ownership, TypeOK, Published
<1>2. StatusOK'
  BY DEF StatusOK, Published, Holds, Alive
<1>3. ToldOK'
  BY <1>1 DEF ToldOK, Published
<1>4. ContinuationOK' /\ ExecutedOnce'
  BY DEF ContinuationOK, ExecutedOnce
<1> QED BY <1>2, <1>3, <1>4

(* Steps that leave everything but the threads' own state alone.           *)
LEMMA QuietProgress ==
  ASSUME Progress, UNCHANGED <<slotVars, workerVars, handle, histVars, tslot>>,
         \A c \in Threads : Reserving(c)' <=> Reserving(c)
  PROVE  Progress'
  BY DEF Progress, slotVars, workerVars, histVars, StatusOK, ToldOK, ContinuationOK,
         ExecutedOnce, Published, Holds, Alive

LEMMA WaitProgress ==
  ASSUME Ownership, Progress, NEW c \in Threads,
         \/ CheckSleep(c) \/ SpuriousWake(c) \/ AnyQuick(c) \/ AnyCheck(c)
         \/ AnyRelock(c) \/ BeginWait(c)
  PROVE  Progress'
<1>1. UNCHANGED <<slotVars, workerVars, handle, histVars, tslot>>
  BY DEF CheckSleep, SpuriousWake, AnyQuick, AnyCheck, AnyRelock, BeginWait
<1>2. /\ \A d \in Threads : d # c => tpc'[d] = tpc[d]
      /\ ~Reserving(c) /\ ~Reserving(c)'
  BY DEF CheckSleep, SpuriousWake, AnyQuick, AnyCheck, AnyRelock, BeginWait, Reserving,
         Ownership, TypeOK
<1>3. \A d \in Threads : Reserving(d)' <=> Reserving(d)
  BY <1>2 DEF Reserving
<1> QED BY <1>1, <1>3, QuietProgress

LEMMA DoneProgress ==
  ASSUME Ownership, Progress, NEW c \in Threads,
         CheckDone(c) \/ Expire(c) \/ AnyFound(c)
  PROVE  Progress'
<1>1. Current(c) \in handle
  BY DEF CheckDone, Expire, AnyFound, Current, Ownership, WaitOK, Blocking
<1>2. /\ UNCHANGED <<slotVars, workerVars, handle, accepted, contRuns, executed, tslot>>
      /\ \/ told' = told
         \/ told' = told \cup {Current(c)} /\ IsTerminal(status[arg[Current(c)]])
  <2>1. CASE CheckDone(c)
    BY <2>1 DEF CheckDone, CurrentDone, Return
  <2>2. CASE Expire(c)
    BY <2>2 DEF Expire, CurrentDone, Return
  <2>3. CASE AnyFound(c)
    BY <2>3 DEF AnyFound, CurrentDone, Return
  <2> QED BY <2>1, <2>2, <2>3
<1>3. /\ \A d \in Threads : d # c => tpc'[d] = tpc[d]
      /\ ~Reserving(c) /\ ~Reserving(c)'
  BY DEF CheckDone, Expire, AnyFound, Return, Reserving, Ownership, TypeOK
<1>4. \A d \in Threads : Reserving(d)' <=> Reserving(d)
  BY <1>3 DEF Reserving
<1>5. CASE told' = told
  BY <1>2, <1>4, <1>5, QuietProgress DEF histVars
<1>6. CASE told' = told \cup {Current(c)} /\ IsTerminal(status[arg[Current(c)]])
  BY <1>1, <1>2, <1>4, <1>6, TellProgress
<1> QED BY <1>2, <1>5, <1>6

LEMMA IsCompletedProgress ==
  ASSUME Ownership, Progress, NEW c \in Threads, NEW j \in Jobs, IsCompleted(c, j)
  PROVE  Progress'
<1>1. j \in handle /\ IsTerminal(status[arg[j]]) /\ told' = told \cup {j}
  BY DEF IsCompleted
<1>2. /\ UNCHANGED <<slotVars, workerVars, handle, accepted, contRuns, executed, tslot>>
      /\ \A d \in Threads : Reserving(d)' <=> Reserving(d)
  BY DEF IsCompleted, callVars, Reserving
<1> QED BY <1>1, <1>2, TellProgress

LEMMA NextIInv == IInv /\ [Next]_vars => IInv'
<1> SUFFICES ASSUME Ownership, Progress, [Next]_vars PROVE Ownership' /\ Progress'
  BY DEF IInv
<1>1. Ownership'
  BY NextOwnership
<1>2. ASSUME NEW j \in Jobs, Worker(j) PROVE Progress'
  BY <1>2, StartProgress, RunFunctionProgress, PublishProgress, NotifyProgress,
     RunContinuationProgress, WorkerReleaseProgress DEF Worker
<1>3. ASSUME NEW c \in Threads, Proceed(c) PROVE Progress'
  BY <1>3, CreateProgress, CreateFailsProgress, DoneProgress, WaitProgress DEF Proceed
<1>4. ASSUME NEW c \in Threads, SpuriousWake(c) \/ BeginWait(c) PROVE Progress'
  BY <1>4, WaitProgress
<1>5. ASSUME NEW c \in Threads, NEW j \in Jobs, Call(c, j) PROVE Progress'
  BY <1>5, ReserveProgress, IsCompletedProgress, RequestCancelProgress,
     ContinueWithProgress, ReleaseProgress DEF Call
<1>6. ASSUME UNCHANGED vars PROVE Progress'
  BY <1>6, QuietProgress DEF vars, callVars, Reserving
<1>7. Progress'
  BY <1>2, <1>3, <1>4, <1>5, <1>6 DEF Next
<1> QED BY <1>1, <1>7

(* The inductive invariant: ownership and progress of every job.           *)
THEOREM IInvHolds == Spec => []IInv
<1>1. Init => IInv
  BY InitOwnership, InitProgress DEF IInv
<1> QED BY <1>1, NextIInv, PTL DEF Spec

-----------------------------------------------------------------------------
(* What follows from the inductive invariant.                              *)

(* Reference counting: task_decrement_ref never frees a slot that its      *)
(* caller or its worker still holds, and frees it when neither does.       *)
THEOREM ReferencesAreCounted == Spec => [](TypeOK /\ RefCountIsHolders /\ NoSlotLeak)
  BY IInvHolds, PTL DEF IInv, Ownership

(* Isolation: no two held jobs share a task_t (reserve_task).              *)
THEOREM JobsDoNotShare == Spec => []NoSharing
  BY IInvHolds, PTL DEF IInv, Ownership

(* Each worker runs the function its task_run was given, once.             *)
THEOREM FunctionsRunOnce == Spec => []ExecutedOnce
  BY IInvHolds, PTL DEF IInv, Progress

(* A caller that was told of completion reads its own task's outcome.      *)
THEOREM OutcomeIsOwnHolds == Spec => []OutcomeIsOwn
<1>1. IInv => OutcomeIsOwn
  <2> SUFFICES ASSUME IInv, NEW j \in told \cap handle
               PROVE  LET s == arg[j] IN
                      /\ IsTerminal(status[s]) /\ result[s] = wres[j]
                      /\ status[s] = "ran_to_completion" => result[s] = "ok"
                      /\ status[s] = "faulted" => result[s] = "error"
                      /\ status[s] = "canceled" => result[s] = "cancelled" \/ cancel_requested[s]
    BY DEF OutcomeIsOwn
  <2>1. j \in Jobs /\ Published(j) /\ Holds(j)
    BY DEF IInv, Ownership, TypeOK, Progress, ToldOK, Holds
  <2> QED
    BY <2>1 DEF IInv, Progress, StatusOK
<1> QED BY <1>1, IInvHolds, PTL

(* A continuation runs at most once, and if it was accepted it has run     *)
(* when its worker ends.                                                   *)
THEOREM ContinuationOnceHolds == Spec => []ContinuationOnce
<1>1. IInv => ContinuationOnce
  BY DEF IInv, Progress, ContinuationOK, ContinuationOnce, Ownership, TypeOK
<1> QED BY <1>1, IInvHolds, PTL

(* In use, with a terminal status: only the held and published job of the  *)
(* slot is there, and no action writes its status or result.               *)
LEMMA TerminalStep ==
  ASSUME IInv, [Next]_vars, NEW s \in Slots,
         in_use[s], in_use'[s], IsTerminal(status[s])
  PROVE  status'[s] = status[s] /\ result'[s] = result[s]
<1> USE DEF Terminal, IsTerminal
<1>t. TypeOK /\ Ownership /\ Progress
  BY DEF IInv, Ownership
<1>1. ASSUME NEW j \in Jobs, wpc[j] \in {"start", "run", "publish"} PROVE arg[j] # s
  BY <1>1, <1>t DEF Progress, StatusOK
<1>2. ASSUME NEW c \in Threads, Reserving(c) PROVE tslot[c] # s
  BY <1>2, <1>t DEF Progress, ContinuationOK
<1>3. ASSUME NEW j \in Jobs, Worker(j) PROVE status'[s] = status[s] /\ result'[s] = result[s]
  <2>1. CASE Start(j) \/ Publish(j)
    BY <1>1, <1>t, <2>1 DEF Start, Publish, TypeOK
  <2>2. CASE RunFunction(j) \/ Notify(j) \/ RunContinuation(j) \/ WorkerRelease(j)
    BY <2>2 DEF RunFunction, Notify, RunContinuation, WorkerRelease, slotVars
  <2> QED BY <1>3, <2>1, <2>2 DEF Worker
<1>4. ASSUME NEW c \in Threads, Proceed(c) PROVE status'[s] = status[s] /\ result'[s] = result[s]
  <2>1. CASE CreateFails(c)
    BY <1>2, <1>t, <2>1 DEF CreateFails, TypeOK
  <2>2. CASE Create(c) \/ CheckDone(c) \/ CheckSleep(c) \/ Expire(c)
    BY <2>2 DEF Create, CheckDone, CheckSleep, Expire, slotVars
  <2>3. CASE AnyFound(c) \/ AnyQuick(c) \/ AnyCheck(c) \/ AnyRelock(c)
    BY <2>3 DEF AnyFound, AnyQuick, AnyCheck, AnyRelock, slotVars
  <2> QED BY <1>4, <2>1, <2>2, <2>3 DEF Proceed
<1>5. ASSUME NEW c \in Threads, SpuriousWake(c) \/ BeginWait(c)
      PROVE  status'[s] = status[s] /\ result'[s] = result[s]
  BY <1>5 DEF SpuriousWake, BeginWait, slotVars
<1>6. ASSUME NEW c \in Threads, NEW j \in Jobs, Call(c, j)
      PROVE  status'[s] = status[s] /\ result'[s] = result[s]
  <2>1. CASE Reserve(c, j)
    BY <1>t, <2>1 DEF Reserve, FirstFree, TypeOK
  <2>2. CASE IsCompleted(c, j) \/ RequestCancel(c, j) \/ ContinueWith(c, j) \/ Release(c, j)
    BY <2>2 DEF IsCompleted, RequestCancel, ContinueWith, Release, slotVars
  <2> QED BY <1>6, <2>1, <2>2 DEF Call
<1>7. ASSUME UNCHANGED vars PROVE status'[s] = status[s] /\ result'[s] = result[s]
  BY <1>7 DEF vars, slotVars
<1> QED BY <1>3, <1>4, <1>5, <1>6, <1>7 DEF Next

(* A published outcome is final for as long as the slot is in use: no call *)
(* on the handle, no late cancellation and no other worker changes it.     *)
THEOREM TerminalIsFinalHolds == Spec => TerminalIsFinal
<1>1. IInv /\ [Next]_vars =>
        [\A s \in Slots :
           in_use[s] /\ in_use'[s] /\ IsTerminal(status[s])
             => status'[s] = status[s] /\ result'[s] = result[s]]_vars
  BY TerminalStep
<1> QED BY <1>1, IInvHolds, PTL DEF Spec, TerminalIsFinal

-----------------------------------------------------------------------------
(* The pool implements the abstract futures.                               *)

LEMMA InitFuture == Init => F!Init
  BY NullAssumption
  DEF Init, F!Init, Phase, Outcome, Holds, Alive, Terminal

(* The phase and outcome of a job depend on no more than this.             *)
LEMMA SameView ==
  ASSUME NEW i \in Jobs,
         wpc'[i] = "unborn" <=> wpc[i] = "unborn",
         Holds(i)' <=> Holds(i),
         Holds(i) => /\ status'[arg'[i]] = status[arg[i]]
                     /\ result'[arg'[i]] = result[arg[i]]
  PROVE  Phase'[i] = Phase[i] /\ Outcome'[i] = Outcome[i]
  BY DEF Phase, Outcome, Terminal, Holds, Alive

(* A step that shows no difference for any job is a stutter.               *)
LEMMA Stutter ==
  ASSUME \A i \in Jobs : Phase'[i] = Phase[i] /\ Outcome'[i] = Outcome[i],
         UNCHANGED <<accepted, contRuns>>
  PROVE  UNCHANGED F!vars
<1>1. Phase' = Phase
  BY DEF Phase
<1>2. Outcome' = Outcome
  BY DEF Outcome
<1> QED BY <1>1, <1>2 DEF F!vars

(* A step of job j: it alone changes, to phase p with outcome r.           *)
LEMMA OneChanges ==
  ASSUME NEW j \in Jobs, NEW p, NEW r, Phase'[j] = p, Outcome'[j] = r,
         \A i \in Jobs \ {j} : Phase'[i] = Phase[i] /\ Outcome'[i] = Outcome[i]
  PROVE  Phase' = [Phase EXCEPT ![j] = p] /\ Outcome' = [Outcome EXCEPT ![j] = r]
<1>1. Phase' = [Phase EXCEPT ![j] = p]
  BY DEF Phase
<1>2. Outcome' = [Outcome EXCEPT ![j] = r]
  BY DEF Outcome
<1> QED BY <1>1, <1>2

LEMMA StartFuture ==
  ASSUME IInv, NEW j \in Jobs, Start(j)
  PROVE  F!Start(j)
<1>1. TypeOK /\ Alive(j) /\ arg[j] \in Slots /\ status[arg[j]] = "pending"
  BY DEF Start, Alive, IInv, Ownership, HeldOK, Holds, Progress, StatusOK
<1>2. \A i \in Jobs : Holds(i) /\ i # j => arg[i] \in Slots /\ arg[i] # arg[j]
  BY <1>1, OwnSlot DEF Holds, IInv
<1>3. \A i \in Jobs \ {j} : Phase'[i] = Phase[i] /\ Outcome'[i] = Outcome[i]
  BY <1>1, <1>2, SameView DEF Start, TypeOK, Holds, Alive
<1>4. /\ Phase[j] = "pending" /\ Outcome[j] = NULL
      /\ Phase'[j] = "running" /\ Outcome'[j] = NULL
  BY <1>1 DEF Start, TypeOK, Phase, Outcome, Holds, Alive, Terminal
<1>5. Outcome = [Outcome EXCEPT ![j] = NULL]
  BY <1>4 DEF Outcome
<1> QED BY <1>3, <1>4, <1>5, OneChanges DEF F!Start, Start, histVars

LEMMA CreateFuture ==
  ASSUME IInv, NEW c \in Threads, Create(c)
  PROVE  \E j \in Jobs : F!Submit(j)
<1>1. PICK s \in Slots, k \in Jobs :
        /\ s = tslot[c] /\ k = tjob[c] /\ wpc[k] = "unborn"
        /\ status[s] = "pending" /\ TypeOK
  BY DEF Create, IInv, Ownership, ReservationOK, Progress, ContinuationOK
<1>2. /\ wpc' = [wpc EXCEPT ![k] = "start"] /\ arg' = [arg EXCEPT ![k] = s]
      /\ handle' = handle \cup {k} /\ UNCHANGED <<status, result, accepted, contRuns>>
  BY <1>1 DEF Create, histVars
<1>3. \A i \in Jobs \ {k} : Phase'[i] = Phase[i] /\ Outcome'[i] = Outcome[i]
  BY <1>1, <1>2, SameView DEF TypeOK, Holds, Alive
<1>4. /\ Phase[k] = "none" /\ Outcome[k] = NULL
      /\ Phase'[k] = "pending" /\ Outcome'[k] = NULL
  BY <1>1, <1>2 DEF TypeOK, Phase, Outcome, Holds, Alive, Terminal
<1>5. Outcome = [Outcome EXCEPT ![k] = NULL]
  BY <1>4 DEF Outcome
<1>6. F!Submit(k)
  BY <1>2, <1>3, <1>4, <1>5, OneChanges DEF F!Submit
<1> QED BY <1>6

LEMMA ContinueWithFuture ==
  ASSUME IInv, NEW c \in Threads, NEW j \in Jobs, ContinueWith(c, j)
  PROVE  F!Attach(j) \/ UNCHANGED F!vars
<1>1. /\ TypeOK /\ j \in handle /\ wpc[j] # "unborn"
      /\ continuation[arg[j]] = NULL /\ ~IsTerminal(status[arg[j]])
  BY DEF ContinueWith, AcceptsContinuation, IInv, Ownership, HeldOK
<1>2. wpc[j] \in {"start", "run", "publish"}
  <2>1. ~Published(j)
    BY <1>1 DEF IInv, Progress, StatusOK, Holds
  <2> QED
    BY <1>1, <2>1 DEF TypeOK, Published
<1>3. Phase[j] \in {"pending", "running"} /\ ~accepted[j]
  BY <1>1, <1>2, NullAssumption
  DEF IInv, Progress, StatusOK, ContinuationOK, Phase, Holds, TypeOK
<1>4. /\ UNCHANGED <<wpc, arg, handle, status, result, contRuns>>
      /\ accepted' = [accepted EXCEPT ![j] = TRUE]
  BY DEF ContinueWith, workerVars
<1>5. Phase' = Phase /\ Outcome' = Outcome
  BY <1>4 DEF Phase, Outcome, Holds, Alive
<1> QED BY <1>3, <1>4, <1>5 DEF F!Attach

LEMMA PublishFuture ==
  ASSUME IInv, NEW j \in Jobs, Publish(j)
  PROVE  F!Complete(j)
<1> DEFINE st == FinalStatus(wres[j], cancel_requested[arg[j]])
<1>1. TypeOK /\ Alive(j) /\ arg[j] \in Slots /\ status[arg[j]] = "running"
  BY DEF Publish, Alive, IInv, Ownership, HeldOK, Holds, Progress, StatusOK
<1>2. \A i \in Jobs : Holds(i) /\ i # j => arg[i] \in Slots /\ arg[i] # arg[j]
  BY <1>1, OwnSlot DEF Holds, IInv
<1>3. /\ wres[j] \in Results /\ st \in F!Final
      /\ st = "ran_to_completion" => wres[j] = "ok"
      /\ st = "faulted" => wres[j] = "error"
  BY <1>1 DEF TypeOK, FinalStatus, F!Final, Results
<1>4. /\ status' = [status EXCEPT ![arg[j]] = st]
      /\ result' = [result EXCEPT ![arg[j]] = wres[j]]
      /\ wpc' = [wpc EXCEPT ![j] = "notify"]
      /\ wpc[j] = "publish" /\ UNCHANGED <<arg, handle, accepted, contRuns>>
  BY DEF Publish, histVars
<1> HIDE DEF st
<1>5. \A i \in Jobs \ {j} : Phase'[i] = Phase[i] /\ Outcome'[i] = Outcome[i]
  BY <1>1, <1>2, <1>4, SameView DEF TypeOK, Holds, Alive
<1>6. Phase[j] = "running" /\ Phase'[j] = st /\ Outcome'[j] = wres[j]
  BY <1>1, <1>3, <1>4 DEF TypeOK, Phase, Outcome, Holds, Alive, F!Final, Terminal
<1>7. /\ Phase' = [Phase EXCEPT ![j] = st]
      /\ Outcome' = [Outcome EXCEPT ![j] = wres[j]]
  BY <1>5, <1>6, OneChanges
<1> QED BY <1>3, <1>4, <1>6, <1>7 DEF F!Complete

LEMMA RunContinuationFuture ==
  ASSUME IInv, NEW j \in Jobs, RunContinuation(j)
  PROVE  F!Continue(j) \/ UNCHANGED F!vars
<1>1. /\ TypeOK /\ wpc[j] = "continue" /\ contRuns[j] = 0
      /\ wcont[j] = IF accepted[j] THEN j ELSE NULL
      /\ status[arg[j]] \in Terminal
  BY DEF RunContinuation, IInv, Ownership, Progress, ContinuationOK, StatusOK, Published,
         Holds, Alive, IsTerminal
<1>2. /\ wpc' = [wpc EXCEPT ![j] = "decref"]
      /\ UNCHANGED <<arg, handle, status, result, accepted>>
  BY DEF RunContinuation, slotVars
<1>3. \A i \in Jobs : Phase'[i] = Phase[i] /\ Outcome'[i] = Outcome[i]
  BY <1>1, <1>2, SameView DEF TypeOK, Holds, Alive
<1>4. Phase' = Phase /\ Outcome' = Outcome
  BY <1>3 DEF Phase, Outcome
<1>5. CASE accepted[j]
  <2>1. contRuns' = [contRuns EXCEPT ![j] = 1]
    BY <1>1, <1>5, NullAssumption DEF RunContinuation, TypeOK
  <2>2. Phase[j] \in F!Final
    BY <1>1 DEF Phase, Holds, Alive, F!Final, Terminal
  <2> QED BY <1>1, <1>2, <1>4, <1>5, <2>1, <2>2 DEF F!Continue
<1>6. CASE ~accepted[j]
  <2>1. contRuns' = contRuns
    BY <1>1, <1>6 DEF RunContinuation
  <2> QED BY <1>2, <1>4, <2>1 DEF F!vars
<1> QED BY <1>5, <1>6

(* The release of the last reference is the end of the future, the release *)
(* of the other one shows nothing.                                         *)
LEMMA ForgetFuture ==
  ASSUME IInv, NEW j \in Jobs, Published(j), Holds(j),
         accepted[j] => contRuns[j] = 1 \/ Holds(j)',
         wpc'[j] # "unborn",
         UNCHANGED <<arg, status, result, accepted, contRuns>>,
         \A i \in Jobs \ {j} : (Holds(i)' <=> Holds(i)) /\ wpc'[i] = wpc[i]
  PROVE  F!Forget(j) \/ UNCHANGED F!vars
<1>1. \A i \in Jobs \ {j} : Phase'[i] = Phase[i] /\ Outcome'[i] = Outcome[i]
  BY SameView
<1>2. wpc[j] # "unborn" /\ status[arg[j]] \in Terminal
  BY DEF Published, IInv, Progress, StatusOK, IsTerminal
<1>3. CASE Holds(j)'
  <2>1. Phase'[j] = Phase[j] /\ Outcome'[j] = Outcome[j]
    BY <1>2, <1>3, SameView
  <2>2. \A i \in Jobs : Phase'[i] = Phase[i] /\ Outcome'[i] = Outcome[i]
    BY <1>1, <2>1
  <2> QED BY <2>2, Stutter
<1>4. CASE ~Holds(j)'
  <2>1. Phase[j] \in F!Final /\ Phase'[j] = "gone" /\ Outcome'[j] = NULL
    BY <1>2, <1>4 DEF Phase, Outcome, Terminal, F!Final
  <2>2. /\ Phase' = [Phase EXCEPT ![j] = "gone"]
        /\ Outcome' = [Outcome EXCEPT ![j] = NULL]
    BY <1>1, <2>1, OneChanges
  <2> QED BY <1>4, <2>1, <2>2 DEF F!Forget
<1> QED BY <1>3, <1>4

LEMMA WorkerReleaseFuture ==
  ASSUME IInv, NEW j \in Jobs, WorkerRelease(j)
  PROVE  F!Forget(j) \/ UNCHANGED F!vars
<1>1. TypeOK /\ wpc[j] = "decref" /\ (accepted[j] => contRuns[j] = 1)
  BY DEF WorkerRelease, IInv, Ownership, Progress, ContinuationOK
<1>2. /\ wpc' = [wpc EXCEPT ![j] = "done"]
      /\ UNCHANGED <<arg, handle, status, result, accepted, contRuns>>
  BY DEF WorkerRelease, histVars
<1>3. Published(j) /\ Holds(j) /\ wpc'[j] # "unborn"
  BY <1>1, <1>2 DEF TypeOK, Published, Holds, Alive
<1>4. \A i \in Jobs \ {j} : (Holds(i)' <=> Holds(i)) /\ wpc'[i] = wpc[i]
  BY <1>1, <1>2 DEF TypeOK, Holds, Alive
<1> QED BY <1>1, <1>2, <1>3, <1>4, ForgetFuture

LEMMA ReleaseFuture ==
  ASSUME IInv, NEW c \in Threads, NEW j \in Jobs, Release(c, j)
  PROVE  F!Forget(j) \/ UNCHANGED F!vars
<1>1. TypeOK /\ j \in handle /\ Holds(j) /\ wpc[j] # "unborn"
  BY DEF Release, Holds, IInv, Ownership, HeldOK
<1>2. /\ handle' = handle \ {j}
      /\ UNCHANGED <<wpc, arg, status, result, accepted, contRuns>>
  BY DEF Release, workerVars, histVars
<1>3. \A i \in Jobs \ {j} : (Holds(i)' <=> Holds(i)) /\ wpc'[i] = wpc[i]
  BY <1>2 DEF Holds, Alive
<1>4. CASE Alive(j)
  <2>1. Holds(j)'
    BY <1>2, <1>4 DEF Holds, Alive
  <2>2. \A i \in Jobs : Phase'[i] = Phase[i] /\ Outcome'[i] = Outcome[i]
    BY <1>1, <1>2, <1>3, <2>1, SameView
  <2> QED BY <1>2, <2>2, Stutter
<1>5. CASE ~Alive(j)
  <2>1. Published(j) /\ (accepted[j] => contRuns[j] = 1)
    BY <1>1, <1>5 DEF Alive, Published, IInv, Progress, ContinuationOK
  <2> QED BY <1>1, <1>2, <1>3, <2>1, ForgetFuture
<1> QED BY <1>4, <1>5

(* The steps below change nothing that a handle shows.                     *)
LEMMA ReserveFuture ==
  ASSUME IInv, NEW c \in Threads, NEW j \in Jobs, Reserve(c, j)
  PROVE  UNCHANGED F!vars
<1>1. PICK s \in Slots : /\ ~in_use[s]
                         /\ status' = [status EXCEPT ![s] = "pending"]
                         /\ result' = [result EXCEPT ![s] = "ok"]
  BY DEF Reserve, FirstFree
<1>2. TypeOK /\ \A i \in Jobs : Holds(i) => arg[i] \in Slots /\ arg[i] # s
  BY <1>1 DEF IInv, Ownership, HeldOK, RefCountIsHolders
<1>3. UNCHANGED <<wpc, arg, handle, accepted, contRuns>>
  BY DEF Reserve, workerVars, histVars
<1>4. \A i \in Jobs : Phase'[i] = Phase[i] /\ Outcome'[i] = Outcome[i]
  BY <1>1, <1>2, <1>3, SameView DEF TypeOK, Holds, Alive
<1> QED BY <1>3, <1>4, Stutter

LEMMA CreateFailsFuture ==
  ASSUME IInv, NEW c \in Threads, CreateFails(c)
  PROVE  UNCHANGED F!vars
<1>1. TypeOK /\ \A i \in Jobs : Holds(i) => arg[i] \in Slots /\ arg[i] # tslot[c]
  BY DEF CreateFails, IInv, Ownership, HeldOK, ReservationOK
<1>2. /\ status' = [status EXCEPT ![tslot[c]] = "idle"]
      /\ UNCHANGED <<result, wpc, arg, handle, accepted, contRuns>>
  BY DEF CreateFails, workerVars, histVars
<1>3. \A i \in Jobs : Phase'[i] = Phase[i] /\ Outcome'[i] = Outcome[i]
  BY <1>1, <1>2, SameView DEF TypeOK, Holds, Alive
<1> QED BY <1>2, <1>3, Stutter

LEMMA WorkerFuture ==
  ASSUME IInv, NEW j \in Jobs, RunFunction(j) \/ Notify(j)
  PROVE  UNCHANGED F!vars
<1>1. TypeOK /\ UNCHANGED <<status, result, arg, handle, accepted, contRuns>>
  BY DEF RunFunction, Notify, slotVars, histVars, IInv, Ownership
<1>2. /\ wpc[j] \in {"run", "notify"}
      /\ \/ wpc' = [wpc EXCEPT ![j] = "publish"] \/ wpc' = [wpc EXCEPT ![j] = "continue"]
  BY DEF RunFunction, Notify
<1>3. \A i \in Jobs : Phase'[i] = Phase[i] /\ Outcome'[i] = Outcome[i]
  BY <1>1, <1>2, SameView DEF TypeOK, Holds, Alive
<1> QED BY <1>1, <1>3, Stutter

LEMMA CallerFuture ==
  ASSUME UNCHANGED <<status, result, workerVars, handle, accepted, contRuns>>
  PROVE  UNCHANGED F!vars
<1>1. \A i \in Jobs : Phase'[i] = Phase[i] /\ Outcome'[i] = Outcome[i]
  BY SameView DEF Holds, Alive, workerVars
<1> QED BY <1>1, Stutter

LEMMA NextFuture == IInv /\ [Next]_vars => [F!Next]_F!vars
<1> SUFFICES ASSUME IInv, [Next]_vars PROVE F!Next \/ UNCHANGED F!vars
  OBVIOUS
<1>1. ASSUME NEW j \in Jobs, Worker(j) PROVE F!Next \/ UNCHANGED F!vars
  BY <1>1, StartFuture, PublishFuture, RunContinuationFuture, WorkerReleaseFuture, WorkerFuture
  DEF Worker, F!Next
<1>2. ASSUME NEW c \in Threads, Proceed(c) PROVE F!Next \/ UNCHANGED F!vars
  <2>1. CASE Create(c)
    BY <2>1, CreateFuture DEF F!Next
  <2>2. CASE CreateFails(c)
    BY <2>2, CreateFailsFuture
  <2>3. CASE \/ CheckDone(c) \/ CheckSleep(c) \/ Expire(c) \/ AnyFound(c)
             \/ AnyQuick(c) \/ AnyCheck(c) \/ AnyRelock(c)
    <3>1. UNCHANGED <<status, result, workerVars, handle, accepted, contRuns>>
      BY <2>3 DEF CheckDone, CheckSleep, Expire, AnyFound, AnyQuick, AnyCheck, AnyRelock,
                  slotVars, histVars
    <3> QED BY <3>1, CallerFuture
  <2> QED BY <1>2, <2>1, <2>2, <2>3 DEF Proceed
<1>3. ASSUME NEW c \in Threads, SpuriousWake(c) \/ BeginWait(c) PROVE UNCHANGED F!vars
  <2>1. UNCHANGED <<status, result, workerVars, handle, accepted, contRuns>>
    BY <1>3 DEF SpuriousWake, BeginWait, slotVars, histVars
  <2> QED BY <2>1, CallerFuture
<1>4. ASSUME NEW c \in Threads, NEW j \in Jobs, Call(c, j) PROVE F!Next \/ UNCHANGED F!vars
  <2>1. CASE IsCompleted(c, j) \/ RequestCancel(c, j)
    <3>1. UNCHANGED <<status, result, workerVars, handle, accepted, contRuns>>
      BY <2>1 DEF IsCompleted, RequestCancel, slotVars, histVars
    <3> QED BY <3>1, CallerFuture
  <2>2. CASE Reserve(c, j)
    BY <2>2, ReserveFuture
  <2>3. CASE ContinueWith(c, j) \/ Release(c, j)
    BY <2>3, ContinueWithFuture, ReleaseFuture DEF F!Next
  <2> QED BY <1>4, <2>1, <2>2, <2>3 DEF Call
<1>5. ASSUME UNCHANGED vars PROVE UNCHANGED F!vars
  <2>1. UNCHANGED <<status, result, workerVars, handle, accepted, contRuns>>
    BY <1>5 DEF vars, slotVars, histVars
  <2> QED BY <2>1, CallerFuture
<1> QED BY <1>1, <1>2, <1>3, <1>4, <1>5 DEF Next

(* The pool of slots, reference counts and workers implements independent  *)
(* one-shot futures, whatever the number of slots, threads and jobs.       *)
THEOREM PoolImplementsFutures == Spec => ImplementsFuture
  BY InitFuture, NextFuture, IInvHolds, PTL DEF Spec, F!Spec, ImplementsFuture
-----------------------------------------------------------------------------
(***************************************************************************)
(* The scan of task_platform_deinit has passed every task that is still to *)
(* publish: what it has seen settled stays settled although it drops the   *)
(* pool mutex between two slots, because no slot is reserved any more.     *)
(***************************************************************************)

Unfinished(j) == wpc[j] \in {"start", "run", "publish"}
Closing == dpc \in {"scan", "look", "sleep"}

(* Where the scan is, and that the unfinished tasks are all ahead of it.   *)
ScanOK ==
  /\ dpc \in {"up", "scan", "look", "sleep", "down"}
  /\ didx \in Slots \cup {0}
  /\ dpc = "scan" => \A j \in Jobs : Unfinished(j) => arg[j] > didx
  /\ dpc = "look" => \A j \in Jobs : Unfinished(j) => arg[j] >= didx

NoReservation == Closing => \A c \in Threads : ~Reserving(c)

(* The pool's own invariant holds until its slots are destroyed.           *)
PlatformInv ==
  /\ dpc # "down" => IInv
  /\ ScanOK
  /\ DeinitWaitsForTasks /\ NoSharing

(* Inside the deinit no task is started.                                   *)
QuietInv == PlatformInv /\ NoReservation

LEMMA PoolStepIsNext == PoolStep => Next
  BY DEF PoolStep, Next

(* A worker that is not finished holds a slot with a status that is not    *)
(* terminal.                                                               *)
LEMMA UnfinishedSlot ==
  ASSUME IInv, NEW j \in Jobs, Unfinished(j)
  PROVE  arg[j] \in Slots /\ in_use[arg[j]] /\ ~IsTerminal(status[arg[j]])
<1>1. Holds(j)
  BY DEF Unfinished, Holds, Alive
<1>2. arg[j] \in Slots /\ in_use[arg[j]]
  BY <1>1 DEF IInv, Ownership, HeldOK, RefCountIsHolders
<1>3. status[arg[j]] \in {"pending", "running"}
  BY DEF IInv, Progress, StatusOK, Unfinished
<1> QED BY <1>2, <1>3 DEF IsTerminal, Terminal

(* A step of the pool makes a task unfinished only by Create.              *)
LEMMA UnfinishedStays ==
  ASSUME IInv, PoolStep, \A c \in Threads : ~Reserving(c)
  PROVE  \A j \in Jobs : Unfinished(j)' => Unfinished(j) /\ arg'[j] = arg[j]
<1> USE DEF Unfinished, IInv, Ownership, TypeOK
<1>1. ASSUME NEW k \in Jobs, Worker(k)
      PROVE  \A j \in Jobs : Unfinished(j)' => Unfinished(j) /\ arg'[j] = arg[j]
  BY <1>1 DEF Worker, Start, RunFunction, Publish, Notify, RunContinuation, WorkerRelease
<1>2. ASSUME NEW c \in Threads, Proceed(c) \/ SpuriousWake(c) \/ BeginWait(c)
      PROVE  wpc' = wpc /\ arg' = arg
  BY <1>2 DEF Proceed, Create, CreateFails, CheckDone, CheckSleep, Expire, AnyFound,
     AnyQuick, AnyCheck, AnyRelock, SpuriousWake, BeginWait, workerVars
<1>3. ASSUME NEW c \in Threads, NEW k \in Jobs, Call(c, k)
      PROVE  wpc' = wpc /\ arg' = arg
  BY <1>3 DEF Call, Reserve, IsCompleted, RequestCancel, ContinueWith, Release, workerVars
<1> QED BY <1>1, <1>2, <1>3 DEF PoolStep

(* Only Reserve makes a reservation.                                       *)
LEMMA ReservationsAreCalls ==
  ASSUME IInv, NestedRuns = FALSE, dpc # "up", PoolStep, \A c \in Threads : ~Reserving(c)
  PROVE  \A c \in Threads : ~Reserving(c)'
<1> USE DEF Reserving, IInv, Ownership, TypeOK
<1>1. ASSUME NEW k \in Jobs, Worker(k) PROVE \A c \in Threads : ~Reserving(c)'
  BY <1>1 DEF Worker, Start, RunFunction, Publish, Notify, RunContinuation, WorkerRelease,
     BroadcastTask, BroadcastCompletion, callVars
<1>2. ASSUME NEW d \in Threads, Proceed(d) \/ SpuriousWake(d) \/ BeginWait(d)
      PROVE  \A c \in Threads : ~Reserving(c)'
  BY <1>2 DEF Proceed, Create, CreateFails, CheckDone, CheckSleep, Expire, AnyFound,
     AnyQuick, AnyCheck, AnyRelock, SpuriousWake, BeginWait, Return
<1>3. ASSUME NEW d \in Threads, NEW k \in Jobs, Call(d, k),
             tpc'[d] = "reserved" => MayRun
      PROVE  \A c \in Threads : ~Reserving(c)'
  BY <1>3 DEF Call, Reserve, IsCompleted, RequestCancel, ContinueWith, Release, callVars,
     BroadcastTask, MayRun
<1> QED BY <1>1, <1>2, <1>3 DEF PoolStep
-----------------------------------------------------------------------------
LEMMA InitPlatform == PlatformInit => QuietInv
<1> SUFFICES ASSUME PlatformInit PROVE QuietInv
  OBVIOUS
<1>1. IInv
  BY InitOwnership, InitProgress DEF PlatformInit, IInv
<1>2. ScanOK /\ DeinitWaitsForTasks /\ NoReservation
  BY DEF PlatformInit, ScanOK, DeinitWaitsForTasks, NoReservation, Closing
<1> QED BY <1>1, <1>2 DEF QuietInv, PlatformInv, IInv, Ownership

LEMMA PoolStepQuiet == QuietInv /\ NestedRuns = FALSE /\ PoolStep => QuietInv'
<1> SUFFICES ASSUME QuietInv, NestedRuns = FALSE, PoolStep PROVE QuietInv'
  OBVIOUS
<1>1. dpc # "down" /\ dpc' = dpc /\ didx' = didx /\ IInv
  BY DEF PoolStep, platformVars, QuietInv, PlatformInv
<1>2. IInv'
  BY <1>1, PoolStepIsNext, NextIInv
<1>3. NoReservation'
  BY <1>1, ReservationsAreCalls DEF QuietInv, NoReservation, Closing
<1>4. Closing => \A j \in Jobs : Unfinished(j)' => Unfinished(j) /\ arg'[j] = arg[j]
  BY <1>1, UnfinishedStays DEF QuietInv, NoReservation
<1>5. ScanOK'
  BY <1>1, <1>4 DEF QuietInv, PlatformInv, ScanOK, Closing
<1> QED BY <1>1, <1>2, <1>3, <1>5
        DEF QuietInv, PlatformInv, DeinitWaitsForTasks, IInv, Ownership

LEMMA DeinitBeginQuiet == QuietInv /\ DeinitBegin => QuietInv'
<1> SUFFICES ASSUME QuietInv, DeinitBegin PROVE QuietInv'
  OBVIOUS
<1> USE DEF DeinitBegin
<1>1. IInv /\ UNCHANGED vars
  BY DEF QuietInv, PlatformInv
<1>2. IInv' /\ NoSharing'
  BY <1>1, NextIInv DEF IInv, Ownership
<1>3. \A j \in Jobs : Unfinished(j)' => arg'[j] > 0
  BY <1>1, UnfinishedSlot, PoolSizeAssumption DEF vars, workerVars, Unfinished, Slots
<1> QED BY <1>1, <1>2, <1>3
        DEF QuietInv, PlatformInv, ScanOK, DeinitWaitsForTasks, NoReservation, Closing,
            Reserving, vars, callVars

LEMMA DestroyQuiet ==
  ASSUME QuietInv, dpc = "scan", \A t \in Slots : t > didx => ~in_use[t], Destroy
  PROVE  QuietInv'
<1>1. IInv /\ NoSharing
  BY DEF QuietInv, PlatformInv
<1>2. \A j \in Jobs : ~Unfinished(j)
  BY <1>1, UnfinishedSlot DEF QuietInv, PlatformInv, ScanOK
<1> QED BY <1>1, <1>2
        DEF Destroy, QuietInv, PlatformInv, ScanOK, DeinitWaitsForTasks, NoReservation, Closing,
            Unfinished, workerVars, NoSharing, Holds, Alive

LEMMA ScanQuiet ==
  ASSUME QuietInv, dpc = "scan", NEW s \in Slots, s > didx, dpc' = "look", didx' = s,
         \A t \in Slots : didx < t /\ t < s => ~in_use[t],
         UNCHANGED <<vars, g_platform_initialized>>
  PROVE  QuietInv'
<1>1. IInv
  BY DEF QuietInv, PlatformInv
<1>2. IInv' /\ NoSharing'
  BY <1>1, NextIInv DEF IInv, Ownership
<1>3. \A j \in Jobs : Unfinished(j) => arg[j] >= s
  BY <1>1, UnfinishedSlot, PoolSizeAssumption DEF QuietInv, PlatformInv, ScanOK, Slots
<1> QED BY <1>2, <1>3
        DEF QuietInv, PlatformInv, ScanOK, DeinitWaitsForTasks, NoReservation, Closing,
            Reserving, vars, callVars, workerVars, Unfinished

LEMMA LookQuiet == QuietInv /\ DeinitLook => QuietInv'
<1> SUFFICES ASSUME QuietInv, DeinitLook PROVE QuietInv'
  OBVIOUS
<1> USE DEF DeinitLook
<1>1. IInv /\ UNCHANGED vars
  BY DEF QuietInv, PlatformInv
<1>2. IInv' /\ NoSharing'
  BY <1>1, NextIInv DEF IInv, Ownership
<1>3. Settled(didx) => \A j \in Jobs : Unfinished(j) => arg[j] > didx
  BY <1>1, UnfinishedSlot, PoolSizeAssumption DEF QuietInv, PlatformInv, ScanOK, Settled, Slots
<1> QED BY <1>1, <1>2, <1>3
        DEF QuietInv, PlatformInv, ScanOK, DeinitWaitsForTasks, NoReservation, Closing,
            Reserving, vars, callVars, workerVars, Unfinished

LEMMA SleepQuiet == QuietInv /\ DeinitSleep => QuietInv'
<1> SUFFICES ASSUME QuietInv, DeinitSleep PROVE QuietInv'
  OBVIOUS
<1> USE DEF DeinitSleep
<1>1. IInv /\ UNCHANGED vars
  BY DEF QuietInv, PlatformInv
<1>2. IInv' /\ NoSharing'
  BY <1>1, NextIInv DEF IInv, Ownership
<1>3. \A j \in Jobs : Unfinished(j) => arg[j] > 0
  BY <1>1, UnfinishedSlot, PoolSizeAssumption DEF Slots
<1> QED BY <1>1, <1>2, <1>3
        DEF QuietInv, PlatformInv, ScanOK, DeinitWaitsForTasks, NoReservation, Closing,
            Reserving, vars, callVars, workerVars, Unfinished

LEMMA NextQuiet == QuietInv /\ NestedRuns = FALSE /\ [PlatformNext]_allVars => QuietInv'
<1> SUFFICES ASSUME QuietInv, NestedRuns = FALSE, [PlatformNext]_allVars PROVE QuietInv'
  OBVIOUS
<1>1. CASE DeinitScan
  BY <1>1, ScanQuiet, DestroyQuiet DEF DeinitScan
<1>2. CASE UNCHANGED allVars
  <2>1. UNCHANGED vars /\ UNCHANGED platformVars
    BY <1>2 DEF allVars
  <2>2. IInv => IInv'
    BY <2>1, NextIInv
  <2> QED BY <2>1, <2>2
          DEF QuietInv, PlatformInv, ScanOK, DeinitWaitsForTasks, NoReservation, Closing, NoSharing,
              Holds, Alive, Reserving, vars, callVars, workerVars, Unfinished, platformVars
<1> QED BY <1>1, <1>2, PoolStepQuiet, DeinitBeginQuiet, LookQuiet, SleepQuiet
        DEF PlatformNext, Deinit

(* When the pool's mutexes are destroyed no task function is running or    *)
(* about to run, for any number of slots, threads and jobs, provided that  *)
(* task functions do not start tasks during the deinit.                    *)
THEOREM DeinitWaits ==
  ASSUME NestedRuns = FALSE
  PROVE  PlatformSpec => [](DeinitWaitsForTasks /\ NoSharing)
<1>1. QuietInv => DeinitWaitsForTasks /\ NoSharing
  BY DEF QuietInv, PlatformInv
<1>2. QuietInv /\ [PlatformNext]_allVars => QuietInv'
  BY NextQuiet
<1> QED BY <1>1, <1>2, InitPlatform, PTL DEF PlatformSpec
=============================================================================
