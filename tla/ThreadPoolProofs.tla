--------------------------- MODULE ThreadPoolProofs ---------------------------
(***************************************************************************)
(* Proofs about ThreadPool, for a pool of any size and any set of          *)
(* addresses: the inductive invariant PoolInv, the safety properties it    *)
(* implies, and the safety part of the refinement of ConnectionService.    *)
(***************************************************************************)
EXTENDS ThreadPool, TLAPS

InHand == {"check", "signal", "unlock"}

(* A critical section is held by its thread exactly while it works, and by *)
(* the main thread exactly while that has the entry in hand.               *)
Locks ==
  \A w \in Threads :
    /\ crit[w] = "thread" <=> wpc[w] \in HoldingPc
    /\ crit[w] = "dispatcher" <=> dpc \in InHand /\ dnext = w

(* What the main thread has in hand. *)
HandOver ==
  /\ dpc \in InHand => dnext \in Threads
  /\ dpc \in {"scan", "check"} => dsoap \in heap

(* A FINISHED thread sleeps, or is about to release its lock. *)
Resting ==
  \A w \in Threads :
    /\ status[w] = "FINISHED" => wpc[w] \in {"wait", "unlock"}
    /\ wpc[w] = "unlock" => status[w] = "FINISHED"
    /\ dpc = "signal" /\ dnext = w => ~event[w]

(* The job of a thread is allocated, and it is what the thread serves. *)
Jobs ==
  \A w \in Threads :
    /\ status[w] = "WORKING" /\ wpc[w] # "finish" => msoap[w] \in heap
    /\ wpc[w] \in {"serve", "delete"} => wsoap[w] = msoap[w]

Control == TypeOK /\ Locks /\ HandOver /\ Resting /\ NoLostWakeup

PoolInv == Control /\ Jobs /\ ExclusiveJobs /\ NoLostConnection

-----------------------------------------------------------------------------
LEMMA PoolInit == Init => PoolInv
<1> SUFFICES ASSUME Init PROVE PoolInv
  OBVIOUS
<1> USE PoolAssumption DEF Init, Threads
<1>1. TypeOK
  BY DEF TypeOK, DispatcherPc, ThreadPc
<1>2. Locks /\ HandOver /\ Resting /\ NoLostWakeup
  BY DEF Locks, HandOver, Resting, NoLostWakeup, InHand, HoldingPc
<1>3. Jobs /\ ExclusiveJobs /\ NoLostConnection
  BY DEF Jobs, ExclusiveJobs, NoLostConnection, Job, Undelivered
<1> QED BY <1>1, <1>2, <1>3 DEF PoolInv, Control

-----------------------------------------------------------------------------
(* Every step keeps the types.  HandOver tells that the main thread never  *)
(* moves past the end of the map.                                          *)
LEMMA PoolTypes == TypeOK /\ HandOver /\ [Next]_vars => TypeOK'
<1> SUFFICES ASSUME TypeOK, HandOver, [Next]_vars PROVE TypeOK'
  OBVIOUS
<1> USE PoolAssumption
    DEF TypeOK, HandOver, InHand, Threads, DispatcherPc, ThreadPc,
        dispatcherVars, ifaceVars, threadVars
<1>1. CASE UNCHANGED vars
  BY <1>1 DEF vars
<1>2. ASSUME NEW c \in Soaps, Accept(c) PROVE TypeOK'
  BY <1>2 DEF Accept
<1>3. CASE Dispatch
  <2>1. CASE TrylockOk \/ TrylockBusy \/ ScanAgain
    BY <2>1 DEF TrylockOk, TrylockBusy, ScanAgain
  <2>2. CASE CheckWorking
    BY <2>2 DEF CheckWorking
  <2>4. CASE CheckFinished
    BY <2>4 DEF CheckFinished
  <2>3. CASE SignalEvent \/ Unlock
    BY <2>3 DEF SignalEvent, Unlock
  <2> QED BY <1>3, <2>1, <2>2, <2>3, <2>4 DEF Dispatch
<1>4. ASSUME NEW w \in Threads, ThreadStep(w) PROVE TypeOK'
  <2>1. CASE WaitForObject(w) \/ Lock(w)
    BY <2>1 DEF WaitForObject, Lock
  <2>2. CASE Take(w) \/ Serve(w)
    BY <2>2 DEF Take, Serve
  <2>3. CASE Delete(w)
    BY <2>3 DEF Delete
  <2>4. CASE Finish(w) \/ Release(w)
    BY <2>4 DEF Finish, Release
  <2> QED BY <1>4, <2>1, <2>2, <2>3, <2>4 DEF ThreadStep
<1> QED BY <1>1, <1>2, <1>3, <1>4 DEF Next

-----------------------------------------------------------------------------
(* Every step keeps who holds which lock, who sleeps and who is signalled. *)
LEMMA PoolControl == PoolInv /\ [Next]_vars => Control'
<1> SUFFICES ASSUME PoolInv, [Next]_vars PROVE Control'
  OBVIOUS
<1>0. TypeOK /\ TypeOK' /\ Locks /\ HandOver /\ Resting /\ NoLostWakeup /\ Jobs
      /\ ExclusiveJobs
  BY PoolTypes DEF PoolInv, Control
<1> SUFFICES Locks' /\ HandOver' /\ Resting' /\ NoLostWakeup'
  BY <1>0 DEF Control
<1> DEFINE Rest == Locks /\ HandOver /\ Resting /\ NoLostWakeup
<1> USE PoolAssumption DEF TypeOK, Locks, HandOver, Resting, NoLostWakeup,
        InHand, HoldingPc, dispatcherVars, ifaceVars, threadVars
<1>1. CASE UNCHANGED vars
  BY <1>0, <1>1 DEF vars
<1>2. ASSUME NEW c \in Soaps, Accept(c) PROVE Rest'
  BY <1>0, <1>2 DEF Accept
<1>3. CASE TrylockOk
  BY <1>0, <1>3 DEF TrylockOk
<1>4. CASE TrylockBusy \/ ScanAgain
  BY <1>0, <1>4 DEF TrylockBusy, ScanAgain
<1>5. CASE CheckWorking
  BY <1>0, <1>5 DEF CheckWorking
<1>6. CASE CheckFinished
  BY <1>0, <1>6 DEF CheckFinished
<1>7. CASE SignalEvent
  BY <1>0, <1>7 DEF SignalEvent
<1>8. CASE Unlock
  BY <1>0, <1>8 DEF Unlock
<1>9. ASSUME NEW w \in Threads, ThreadStep(w) PROVE Rest'
  <2>1. CASE WaitForObject(w)
    BY <1>0, <2>1 DEF WaitForObject
  <2>2. CASE Lock(w)
    BY <1>0, <2>2 DEF Lock
  <2>3. CASE Take(w) \/ Serve(w)
    BY <1>0, <2>3 DEF Take, Serve
  <2>4. CASE Delete(w)
    <3>0. status[w] = "WORKING" /\ wpc[w] = "delete"
      BY <1>0, <2>4 DEF Delete
    <3>1. Job(w) = wsoap[w] /\ Job(w) # NoSoap
      BY <1>0, <3>0 DEF Jobs, Job
    <3>2. dpc \in {"scan", "check"} => dsoap # wsoap[w]
      BY <1>0, <3>1 DEF ExclusiveJobs, Undelivered
    <3> QED BY <1>0, <2>4, <3>2 DEF Delete
  <2>5. CASE Finish(w)
    BY <1>0, <2>5 DEF Finish
  <2>6. CASE Release(w)
    BY <1>0, <2>6 DEF Release
  <2> QED BY <1>9, <2>1, <2>2, <2>3, <2>4, <2>5, <2>6 DEF ThreadStep
<1> QED BY <1>0, <1>1, <1>2, <1>3, <1>4, <1>5, <1>6, <1>7, <1>8, <1>9
           DEF Next, Dispatch

-----------------------------------------------------------------------------
(* Every step keeps the jobs allocated, apart from each other, and complete. *)
LEMMA PoolJobs ==
  PoolInv /\ [Next]_vars => Jobs' /\ ExclusiveJobs' /\ NoLostConnection'
<1> SUFFICES ASSUME PoolInv, [Next]_vars
             PROVE  Jobs' /\ ExclusiveJobs' /\ NoLostConnection'
  OBVIOUS
<1>0. TypeOK /\ TypeOK' /\ Locks /\ HandOver /\ Resting /\ NoLostWakeup /\ Jobs
      /\ ExclusiveJobs /\ NoLostConnection
  BY PoolTypes DEF PoolInv, Control
<1>a. \A w \in Threads : Job(w) # NoSoap => Job(w) \in heap /\ Job(w) = msoap[w]
  BY <1>0 DEF Jobs, Job
<1> DEFINE Goal == Jobs /\ ExclusiveJobs /\ NoLostConnection
           Same == \A v \in Threads : Job(v)' = Job(v)
<1> USE PoolAssumption DEF dispatcherVars, ifaceVars, threadVars
<1>b. ASSUME Same, heap' = heap, Undelivered' = Undelivered
      PROVE  ExclusiveJobs' /\ NoLostConnection'
  BY <1>0, <1>b DEF ExclusiveJobs, NoLostConnection
<1>1. ASSUME UNCHANGED vars PROVE Goal'
  <2>1. Same /\ heap' = heap /\ Undelivered' = Undelivered
    BY <1>1 DEF vars, Job, Undelivered
  <2>2. Jobs'
    BY <1>0, <1>1 DEF vars, Jobs
  <2> QED BY <1>b, <2>1, <2>2
<1>2. ASSUME NEW c \in Soaps, Accept(c) PROVE Goal'
  <2>1. Same /\ heap' = heap \cup {c} /\ Undelivered' = c /\ Undelivered = NoSoap
    BY <1>2 DEF Accept, Job, Undelivered
  <2>2. Jobs'
    BY <1>0, <1>2 DEF Accept, Jobs, TypeOK
  <2>3. ExclusiveJobs'
    BY <1>0, <1>2, <1>a, <2>1 DEF ExclusiveJobs, Accept, TypeOK
  <2>4. NoLostConnection'
    <3> SUFFICES ASSUME NEW d \in heap'
                 PROVE  d = Undelivered' \/ \E w \in Threads : d = Job(w)'
      BY DEF NoLostConnection
    <3>1. CASE d = c
      BY <2>1, <3>1
    <3>2. CASE d # c
      <4>1. d \in heap /\ d # NoSoap
        BY <1>0, <2>1, <3>2 DEF TypeOK
      <4>2. PICK w \in Threads : d = Job(w)
        BY <1>0, <2>1, <4>1 DEF NoLostConnection
      <4> QED BY <2>1, <4>2
    <3> QED BY <3>1, <3>2
  <2> QED BY <2>2, <2>3, <2>4
<1>3. ASSUME TrylockOk \/ TrylockBusy \/ ScanAgain \/ CheckWorking \/ SignalEvent
             \/ Unlock
      PROVE  Goal'
  <2>1. Same /\ heap' = heap /\ Undelivered' = Undelivered
    BY <1>3 DEF TrylockOk, TrylockBusy, ScanAgain, CheckWorking, SignalEvent,
                Unlock, Job, Undelivered
  <2>2. Jobs'
    BY <1>0, <1>3 DEF TrylockOk, TrylockBusy, ScanAgain, CheckWorking,
                      SignalEvent, Unlock, Jobs
  <2> QED BY <1>b, <2>1, <2>2
<1>4. ASSUME CheckFinished, NEW w \in Threads, w = dnext PROVE Goal'
  <2>1. wpc[w] = "wait" /\ dsoap \in heap /\ dsoap # NoSoap
    BY <1>0, <1>4 DEF CheckFinished, Locks, HandOver, Resting, InHand, HoldingPc,
                      TypeOK
  <2>2. /\ Job(w)' = dsoap /\ Job(w) = NoSoap
        /\ \A v \in Threads \ {w} : Job(v)' = Job(v)
        /\ heap' = heap /\ Undelivered' = NoSoap /\ Undelivered = dsoap
    BY <1>0, <1>4, <2>1 DEF CheckFinished, Job, Undelivered, TypeOK
  <2>3. Jobs'
    BY <1>0, <1>4, <2>1 DEF CheckFinished, Jobs, TypeOK
  <2>4. ExclusiveJobs'
    BY <1>0, <2>1, <2>2 DEF ExclusiveJobs
  <2>5. NoLostConnection'
    BY <1>0, <2>1, <2>2 DEF NoLostConnection, TypeOK
  <2> QED BY <2>3, <2>4, <2>5
<1>4a. ASSUME CheckFinished PROVE Goal'
  BY <1>0, <1>4, <1>4a DEF CheckFinished, HandOver, InHand
<1>5. ASSUME NEW w \in Threads, WaitForObject(w) \/ Lock(w) \/ Take(w) \/ Serve(w)
                                \/ Release(w)
      PROVE  Goal'
  <2>1. Same /\ heap' = heap /\ Undelivered' = Undelivered
    BY <1>0, <1>5 DEF WaitForObject, Lock, Take, Serve, Release, Job,
                      Undelivered, TypeOK
  <2>2. Jobs'
    BY <1>0, <1>5 DEF WaitForObject, Lock, Take, Serve, Release, Jobs, Resting,
                      TypeOK
  <2> QED BY <1>b, <2>1, <2>2
<1>6. ASSUME NEW w \in Threads, Finish(w) PROVE Goal'
  <2>1. Same /\ heap' = heap /\ Undelivered' = Undelivered
    BY <1>0, <1>6 DEF Finish, Job, Undelivered, TypeOK
  <2>2. Jobs'
    BY <1>0, <1>6 DEF Finish, Jobs, TypeOK
  <2> QED BY <1>b, <2>1, <2>2
<1>7. ASSUME NEW w \in Threads, Delete(w) PROVE Goal'
  <2>1. /\ status[w] = "WORKING" /\ wsoap[w] = msoap[w] /\ msoap[w] \in heap
        /\ Job(w) = msoap[w] /\ Job(w) # NoSoap
    BY <1>0, <1>7 DEF Delete, Resting, Jobs, Job, TypeOK
  <2>2. /\ Job(w)' = NoSoap
        /\ \A v \in Threads \ {w} : Job(v)' = Job(v)
        /\ heap' = heap \ {Job(w)} /\ Undelivered' = Undelivered
    BY <1>0, <1>7, <2>1 DEF Delete, Job, Undelivered, TypeOK
  <2>3. Jobs'
    <3>1. \A v \in Threads \ {w} : status[v] = "WORKING" /\ wpc[v] # "finish"
             => msoap[v] \in heap /\ msoap[v] # Job(w)
      BY <1>0, <2>1 DEF Jobs, ExclusiveJobs, Job
    <3> QED BY <1>0, <1>7, <2>2, <3>1 DEF Delete, Jobs, TypeOK
  <2>4. ExclusiveJobs'
    BY <1>0, <2>2 DEF ExclusiveJobs
  <2>5. NoLostConnection'
    BY <1>0, <2>1, <2>2 DEF NoLostConnection
  <2> QED BY <2>3, <2>4, <2>5
<1> QED BY <1>1, <1>2, <1>3, <1>4a, <1>5, <1>6, <1>7
           DEF Next, Dispatch, ThreadStep

LEMMA PoolStep == PoolInv /\ [Next]_vars => PoolInv'
  BY PoolControl, PoolJobs DEF PoolInv

LEMMA PoolInvariant == Spec => []PoolInv
  BY PoolInit, PoolStep, PTL DEF Spec

-----------------------------------------------------------------------------
(* The pool only ever reaches states of the declared types: the scan never *)
(* leaves the map of threads.                                              *)
THEOREM PoolTypeCorrect == Spec => []TypeOK
<1>1. PoolInv => TypeOK
  BY DEF PoolInv, Control
<1> QED BY PoolInvariant, <1>1, PTL

(* No thread serves or deletes a soap object that is not allocated.  What  *)
(* m_soap still points to is harmless: a thread that takes a job is        *)
(* WORKING, and the job of a WORKING thread is allocated.                  *)
THEOREM NothingUsedAfterDelete == Spec => []NoUseAfterDelete
<1>1. PoolInv => NoUseAfterDelete
  <2> SUFFICES ASSUME PoolInv, NEW w \in Threads
               PROVE  /\ wpc[w] = "take" => msoap[w] \in heap
                      /\ wpc[w] \in {"serve", "delete"} => wsoap[w] \in heap
    BY DEF NoUseAfterDelete
  <2>1. wpc[w] \in {"take", "serve", "delete"} => status[w] = "WORKING"
    BY DEF PoolInv, Control, Resting, TypeOK
  <2> QED BY <2>1 DEF PoolInv, Jobs
<1> QED BY PoolInvariant, <1>1, PTL

(* No connection is ever served by two threads, or served while the main   *)
(* thread still holds it.                                                  *)
THEOREM JobsAreExclusive == Spec => []ExclusiveJobs
<1>1. PoolInv => ExclusiveJobs
  BY DEF PoolInv
<1> QED BY PoolInvariant, <1>1, PTL

(* No accepted connection is forgotten.                                    *)
THEOREM NoConnectionIsLost == Spec => []NoLostConnection
<1>1. PoolInv => NoLostConnection
  BY DEF PoolInv
<1> QED BY PoolInvariant, <1>1, PTL

(* A thread with a job that sleeps is signalled, and no signal is stale.   *)
THEOREM NoWakeupIsLost == Spec => []NoLostWakeup
<1>1. PoolInv => NoLostWakeup
  BY DEF PoolInv, Control
<1> QED BY PoolInvariant, <1>1, PTL

-----------------------------------------------------------------------------
(* The refinement: accept() is Accept, SetSoap/SetStatus is Assign, delete *)
(* is Close, and nothing else is seen by a client.                         *)
LEMMA ServiceInit == Init => Service!Init
<1> SUFFICES ASSUME Init PROVE Service!Init
  OBVIOUS
<1> QED BY DEF Init, Service!Init, Undelivered, Job, Threads

(* A step that changes no job and not the waiting connection is a stutter. *)
LEMMA ServiceStutter ==
  ASSUME \A v \in Threads : Job(v)' = Job(v), Undelivered' = Undelivered
  PROVE  UNCHANGED Service!vars
BY DEF Service!vars

(* A step that changes the job of one thread is an update of the slots.    *)
LEMMA ServiceUpdate ==
  ASSUME NEW w \in Threads, NEW j, Job(w)' = j,
         \A v \in Threads \ {w} : Job(v)' = Job(v)
  PROVE  [v \in Threads |-> Job(v)]' = [[v \in Threads |-> Job(v)] EXCEPT ![w] = j]
<1> DEFINE old == [v \in Threads |-> Job(v)]
           new == [v \in Threads |-> Job(v)']
           upd == [old EXCEPT ![w] = j]
<1>1. \A v \in Threads : new[v] = upd[v]
  <2> SUFFICES ASSUME NEW v \in Threads PROVE new[v] = upd[v]
    OBVIOUS
  <2>1. CASE v = w
    BY <2>1
  <2>2. CASE v # w
    BY <2>2
  <2> QED BY <2>1, <2>2
<1>2. new = [v \in Threads |-> new[v]] /\ upd = [v \in Threads |-> upd[v]]
  OBVIOUS
<1>3. new = upd
  BY <1>1, <1>2
<1> QED BY <1>3

LEMMA ServiceStep == PoolInv /\ [Next]_vars => [Service!Next]_(Service!vars)
<1> SUFFICES ASSUME PoolInv, [Next]_vars
             PROVE  Service!Next \/ UNCHANGED Service!vars
  OBVIOUS
<1>0. TypeOK /\ Locks /\ HandOver /\ Resting /\ Jobs /\ ExclusiveJobs
  BY DEF PoolInv, Control
<1> USE PoolAssumption DEF dispatcherVars, ifaceVars, threadVars
<1>1. CASE UNCHANGED vars
  BY <1>1, ServiceStutter DEF vars, Job, Undelivered
<1>2. ASSUME NEW c \in Soaps, Accept(c) PROVE Service!Next
  <2>1. /\ \A v \in Threads : Job(v)' = Job(v)
        /\ Undelivered' = c /\ Undelivered = NoSoap
    BY <1>2 DEF Accept, Job, Undelivered
  <2>2. \A v \in Threads : Job(v) # c
    BY <1>0, <1>2 DEF Accept, Jobs, Job
  <2>3. Service!Accept(c)
    BY <2>1, <2>2 DEF Service!Accept, Service!InService
  <2> QED BY <2>3 DEF Service!Next
<1>3. ASSUME TrylockOk \/ TrylockBusy \/ ScanAgain \/ CheckWorking \/ SignalEvent
             \/ Unlock
      PROVE  UNCHANGED Service!vars
  BY <1>3, ServiceStutter
     DEF TrylockOk, TrylockBusy, ScanAgain, CheckWorking, SignalEvent, Unlock, Job,
         Undelivered
<1>4. ASSUME CheckFinished PROVE Service!Next
  <2> DEFINE n == dnext
  <2>0. n \in Threads /\ dnext' = n
    BY <1>0, <1>4 DEF CheckFinished, HandOver, InHand
  <2> HIDE DEF n
  <2>1. /\ wpc[n] = "wait" /\ dsoap # NoSoap
        /\ msoap' = [msoap EXCEPT ![n] = dsoap]
        /\ status' = [status EXCEPT ![n] = "WORKING"]
        /\ status[n] = "FINISHED"
    BY <1>0, <1>4, <2>0
       DEF CheckFinished, Locks, HandOver, Resting, InHand, HoldingPc, TypeOK, n
  <2>2. PICK w \in Threads : w = n
    BY <2>0
  <2>3. /\ Job(w)' = dsoap /\ Job(w) = NoSoap
        /\ \A v \in Threads \ {w} : Job(v)' = Job(v)
        /\ Undelivered' = NoSoap /\ Undelivered = dsoap
    BY <1>0, <1>4, <2>1, <2>2 DEF CheckFinished, Job, Undelivered, TypeOK
  <2>4. Service!Assign(w)
    BY <2>1, <2>3, ServiceUpdate DEF Service!Assign
  <2> QED BY <2>4 DEF Service!Next
<1>5. ASSUME NEW w \in Threads, WaitForObject(w) \/ Lock(w) \/ Take(w) \/ Serve(w)
                                \/ Finish(w) \/ Release(w)
      PROVE  UNCHANGED Service!vars
  BY <1>0, <1>5, ServiceStutter
     DEF WaitForObject, Lock, Take, Serve, Finish, Release, Job, Undelivered, TypeOK
<1>6. ASSUME NEW w \in Threads, Delete(w) PROVE Service!Next
  <2>1. Job(w) # NoSoap
    BY <1>0, <1>6 DEF Delete, Resting, Jobs, Job, TypeOK
  <2>2. /\ Job(w)' = NoSoap
        /\ \A v \in Threads \ {w} : Job(v)' = Job(v)
        /\ Undelivered' = Undelivered
    BY <1>0, <1>6 DEF Delete, Job, Undelivered, TypeOK
  <2>3. Service!Close(w)
    BY <2>1, <2>2, ServiceUpdate DEF Service!Close
  <2> QED BY <2>3 DEF Service!Next
<1> QED BY <1>1, <1>2, <1>3, <1>4, <1>5, <1>6 DEF Next, Dispatch, ThreadStep

(* The pool implements the connection service (its safety part; the        *)
(* fairness of ServiceSpec is checked by the run).                         *)
THEOREM PoolImplementsService == Spec => Service!Spec
<1> QED BY PoolInvariant, ServiceInit, ServiceStep, PTL DEF Spec, Service!Spec

=============================================================================
