----------------------- MODULE CompletionSourceProofs -----------------------
EXTENDS CompletionSource, TLAPS

(* A source is completed exactly when some set_result won.                 *)
Inv == /\ TypeOK
       /\ WaitersSeeWinner
       /\ ~completed => wins = 0

LEMMA InitInv == Init => Inv
  BY NoValueAssumption DEF Init, Inv, TypeOK, WaitersSeeWinner

LEMMA NextInv == Inv /\ [Next]_vars => Inv'
<1> SUFFICES ASSUME Inv, [Next]_vars PROVE Inv'
  OBVIOUS
<1> USE NoValueAssumption DEF Inv, TypeOK, WaitersSeeWinner
<1>1. ASSUME NEW c \in Threads, NEW v \in Values, SetResult(c, v) PROVE Inv'
  BY <1>1 DEF SetResult, MaySet, Broadcast
<1>2. ASSUME NEW c \in Threads, BeginWait(c) PROVE Inv'
  BY <1>2 DEF BeginWait
<1>3. ASSUME NEW c \in Threads, WaitDone(c) PROVE Inv'
  BY <1>3 DEF WaitDone
<1>4. ASSUME NEW c \in Threads, WaitSleep(c) \/ SpuriousWake(c) PROVE Inv'
  BY <1>4 DEF WaitSleep, SpuriousWake
<1>5. ASSUME NEW c \in Threads, Expire(c) PROVE Inv'
  BY <1>5 DEF Expire, ReadsOut
<1>6. CASE UNCHANGED vars
  BY <1>6 DEF vars
<1> QED BY <1>1, <1>2, <1>3, <1>4, <1>5, <1>6 DEF Next, Proceed

(* Every wait of every thread returns the one published value.             *)
THEOREM WaitersAgree == Spec => [](TypeOK /\ WaitersSeeWinner)
<1>1. Inv => TypeOK /\ WaitersSeeWinner
  BY DEF Inv
<1> QED BY <1>1, InitInv, NextInv, PTL DEF Spec

(* The mutex, the flag and the condition variable implement a write-once   *)
(* cell, for any number of producers and waiters.                          *)
THEOREM SourceImplementsPromise == Spec => ImplementsPromise
<1>1. Init => P!Init
  BY DEF Init, P!Init
<1>2. Inv /\ [Next]_vars => [P!Next]_P!vars
  <2> SUFFICES ASSUME Inv, [Next]_vars PROVE P!Next \/ UNCHANGED P!vars
    OBVIOUS
  <2> USE NoValueAssumption DEF Inv, TypeOK
  <2>1. ASSUME NEW c \in Threads, NEW v \in Values, SetResult(c, v) PROVE P!Next
    BY <2>1 DEF SetResult, MaySet, P!Next, P!Publish
  <2>2. ASSUME NEW c \in Threads, WaitDone(c) PROVE P!Next
    BY <2>2 DEF WaitDone, P!Next, P!Observe
  <2>3. ASSUME NEW c \in Threads, Expire(c) PROVE P!Next \/ UNCHANGED P!vars
    <3>1. CASE completed
      BY <2>3, <3>1 DEF Expire, ReadsOut, P!Next, P!Observe
    <3>2. CASE ~completed
      BY <2>3, <3>2 DEF Expire, ReadsOut, P!vars
    <3> QED BY <3>1, <3>2
  <2>4. ASSUME NEW c \in Threads, BeginWait(c) \/ WaitSleep(c) \/ SpuriousWake(c)
        PROVE  UNCHANGED P!vars
    BY <2>4 DEF BeginWait, WaitSleep, SpuriousWake, P!vars
  <2>5. ASSUME UNCHANGED vars PROVE UNCHANGED P!vars
    BY <2>5 DEF vars, P!vars
  <2> QED BY <2>1, <2>2, <2>3, <2>4, <2>5 DEF Next, Proceed
<1> QED BY <1>1, <1>2, InitInv, NextInv, PTL DEF Spec, P!Spec, ImplementsPromise
=============================================================================
