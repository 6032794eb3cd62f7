--------------------------- MODULE ReportGateProofs ---------------------------
(***************************************************************************)
(* Proofs about ReportGate: for any number of threads and reports, a       *)
(* raised flag always has a thread that will clear it.                     *)
(***************************************************************************)
EXTENDS ReportGate, TLAPS

(* A thread with a request has been asked for a report. *)
Asked == \A t \in Threads : pc[t] # "idle" => report[t] \in Reports

(* The inductive invariant: flags are raised for reports that were asked   *)
(* for, and each has a thread that will clear it.                          *)
GateInv == TypeOK /\ Asked /\ NoStuckFlag

LEMMA GateInit == Init => GateInv
  BY DEF Init, GateInv, TypeOK, Asked, NoStuckFlag, Pcs


(* Every step keeps the types and the requests. *)
LEMMA GateTypes == TypeOK /\ Asked /\ [Next]_vars => TypeOK' /\ Asked'
<1> SUFFICES ASSUME TypeOK, Asked, [Next]_vars PROVE TypeOK' /\ Asked'
  OBVIOUS
<1> USE GateAssumption DEF TypeOK, Pcs, Asked
<1>1. CASE UNCHANGED vars
  BY <1>1 DEF vars
<1>2. ASSUME NEW t \in Threads, NEW r \in Reports, Call(t, r)
      PROVE  TypeOK' /\ Asked'
  BY <1>2 DEF Call, Goto
<1>3. ASSUME NEW t \in Threads, Step(t)
      PROVE  TypeOK' /\ Asked'
  <2>1. CASE Refuse(t) \/ RefuseCaught(t) \/ RefuseCrashes(t)
    BY <2>1 DEF Refuse, RefuseCaught, RefuseCrashes, Goto
  <2>2. CASE Admit(t) \/ Set(t) \/ Work(t)
    BY <2>2 DEF Admit, Set, Work, Goto
  <2>3. CASE Take(t) \/ Test(t) \/ Clear(t)
    BY <2>3 DEF Take, Test, Clear, Goto
  <2> QED BY <1>3, <2>1, <2>2, <2>3 DEF Step
<1> QED BY <1>1, <1>2, <1>3 DEF Next

(* Every step keeps a thread responsible for every raised flag. *)
LEMMA GateStep == GateInv /\ [Next]_vars => GateInv'
<1> SUFFICES ASSUME GateInv, [Next]_vars PROVE GateInv'
  OBVIOUS
<1>0. TypeOK /\ TypeOK' /\ Asked'
  BY GateTypes DEF GateInv
<1>1. CASE UNCHANGED vars
  BY <1>1 DEF vars, GateInv, TypeOK, Asked, NoStuckFlag, WillClear
<1>2. ASSUME NEW t \in Threads, NEW r \in Reports, Call(t, r)
      PROVE  NoStuckFlag'
  <2> SUFFICES ASSUME NEW q \in area' PROVE \E u \in Threads : WillClear(u, q)'
    BY DEF NoStuckFlag
  <2>1. PICK u \in Threads : WillClear(u, q)
    BY <1>2 DEF Call, GateInv, NoStuckFlag
  <2>2. u # t
    BY <1>2, <2>1 DEF Call, WillClear
  <2>3. WillClear(u, q)'
    BY <1>0, <1>2, <2>1, <2>2 DEF Call, Goto, WillClear, TypeOK
  <2> QED BY <2>3
<1>3. ASSUME NEW t \in Threads, Step(t)
      PROVE  NoStuckFlag'
  <2> SUFFICES ASSUME NEW q \in area' PROVE \E u \in Threads : WillClear(u, q)'
    BY DEF NoStuckFlag
  <2>1. CASE Refuse(t) \/ RefuseCaught(t) \/ Admit(t)
    <3>1. PICK u \in Threads : WillClear(u, q)
      BY <2>1 DEF Refuse, RefuseCaught, Admit, GateInv, NoStuckFlag
    <3>2. u # t
      BY <2>1, <3>1 DEF Refuse, RefuseCaught, Admit, WillClear
    <3>3. WillClear(u, q)'
      BY <1>0, <2>1, <3>1, <3>2
         DEF Refuse, RefuseCaught, Admit, Goto, WillClear, TypeOK
    <3> QED BY <3>3
  <2>2. CASE RefuseCrashes(t)
    BY <2>2 DEF RefuseCrashes
  <2>3. CASE Set(t)
    <3>1. CASE q = report[t]
      <4>1. WillClear(t, q)'
        BY <1>0, <2>3, <3>1 DEF Set, Goto, WillClear, TypeOK
      <4> QED BY <4>1
    <3>2. CASE q # report[t]
      <4>1. PICK u \in Threads : WillClear(u, q)
        BY <2>3, <3>2 DEF Set, GateInv, NoStuckFlag
      <4>2. u # t
        BY <2>3, <4>1 DEF Set, WillClear
      <4>3. WillClear(u, q)'
        BY <1>0, <2>3, <4>1, <4>2 DEF Set, Goto, WillClear, TypeOK
      <4> QED BY <4>3
    <3> QED BY <3>1, <3>2
  <2>4. CASE Work(t) \/ Take(t) \/ Test(t)
    <3>1. PICK u \in Threads : WillClear(u, q)
      BY <2>4 DEF Work, Take, Test, GateInv, NoStuckFlag
    <3>2. q \in area
      BY <2>4 DEF Work, Take, Test
    <3>3. WillClear(u, q)'
      BY <1>0, <2>4, <3>1, <3>2 DEF Work, Take, Test, Goto, WillClear, TypeOK
    <3> QED BY <3>3
  <2>5. CASE Clear(t)
    <3>1. q \in area /\ q # taken[t]
      BY <2>5 DEF Clear
    <3>2. PICK u \in Threads : WillClear(u, q)
      BY <3>1 DEF GateInv, NoStuckFlag
    <3>3. u # t
      BY <2>5, <3>1, <3>2 DEF Clear, WillClear
    <3>4. WillClear(u, q)'
      BY <1>0, <2>5, <3>2, <3>3 DEF Clear, Goto, WillClear, TypeOK
    <3> QED BY <3>4
  <2> QED BY <1>3, <2>1, <2>2, <2>3, <2>4, <2>5 DEF Step
<1> QED BY <1>0, <1>1, <1>2, <1>3 DEF Next, GateInv

(* The variables keep their types. *)
THEOREM GateTypeCorrect == Spec => []TypeOK
<1>1. GateInv => TypeOK
  BY DEF GateInv
<1> QED BY GateInit, GateStep, <1>1, PTL DEF Spec

(* However many threads test, set and clear the flags without a lock, a    *)
(* flag of do_reports_area that is 1 has a thread that will clear it.      *)
THEOREM FlagsAreOwned == Spec => []NoStuckFlag
<1>1. GateInv => NoStuckFlag
  BY DEF GateInv
<1> QED BY GateInit, GateStep, <1>1, PTL DEF Spec

=============================================================================
