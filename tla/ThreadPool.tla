------------------------------ MODULE ThreadPool ------------------------------
(***************************************************************************)
(* The thread pool of csa_web: CSA_WEB_mainLoop (csa_web_main.cpp) accepts *)
(* a connection and copies it into a fresh soap object,                    *)
(* ThMngr_c::ProcessSoapConnection (csa_web_thmanager.cpp) scans the pool  *)
(* for a FINISHED thread and hands the object over through the thread's    *)
(* InteractWithManager_c, and WebNlaServeThread_c::MyMainFunction          *)
(* (csa_web_online_srv_th.cpp) serves and deletes it.                      *)
(*                                                                         *)
(* What a SOAP operation does while it is served is the subject of         *)
(* ReportGate and SupervisorSessions; here it is one step.                 *)
(* WaitForObject(m_event, MAX_TIMEOUT) is taken to wait without limit and  *)
(* m_event to be an auto-reset event: both belong to the Bsw library,      *)
(* which is not in the repository.                                         *)
(***************************************************************************)
EXTENDS Naturals

CONSTANTS NumThreads,  \* size of the pool (10 in ThMngr_c::Init)
          Soaps,       \* addresses a soap object can be allocated at
          NoSoap       \* the null pointer

ASSUME PoolAssumption ==
  /\ NumThreads \in Nat \ {0}
  /\ NoSoap \notin Soaps

Threads == 1..NumThreads

VARIABLES
  dpc,     \* where the accepting (main) thread is
  dsoap,   \* the soap object ProcessSoapConnection was called with
  dnext,   \* the entry of m_threads_map it looks at, NumThreads+1 at the end
  heap,    \* the soap objects that are allocated
  crit,    \* who holds InteractWithManager_c::m_crit of a thread
  status,  \* InteractWithManager_c::m_status
  msoap,   \* InteractWithManager_c::m_soap, never reset by the code
  event,   \* whether a thread's m_event is signalled
  wpc,     \* where a pool thread is in MyMainFunction
  wsoap    \* its local SoapPtr

dispatcherVars == <<dpc, dsoap, dnext>>
ifaceVars      == <<crit, status, msoap>>
threadVars     == <<wpc, wsoap>>
vars == <<dpc, dsoap, dnext, heap, crit, status, msoap, event, wpc, wsoap>>

DispatcherPc == {"accept", "scan", "check", "signal", "unlock"}
ThreadPc     == {"wait", "lock", "take", "serve", "delete", "finish", "unlock"}
HoldingPc    == {"take", "serve", "delete", "finish", "unlock"}

TypeOK ==
  /\ dpc \in DispatcherPc
  /\ dsoap \in Soaps \cup {NoSoap}
  /\ dnext \in 1..(NumThreads + 1)
  /\ heap \in SUBSET Soaps
  /\ crit \in [Threads -> {"free", "dispatcher", "thread"}]
  /\ status \in [Threads -> {"WORKING", "FINISHED"}]
  /\ msoap \in [Threads -> Soaps \cup {NoSoap}]
  /\ event \in [Threads -> BOOLEAN]
  /\ wpc \in [Threads -> ThreadPc]
  /\ wsoap \in [Threads -> Soaps \cup {NoSoap}]

Init ==
  /\ dpc = "accept"
  /\ dsoap = NoSoap
  /\ dnext = 1
  /\ heap = {}
  /\ crit = [w \in Threads |-> "free"]
  /\ status = [w \in Threads |-> "FINISHED"]
  /\ msoap \in [Threads -> Soaps \cup {NoSoap}]  \* not set by the constructor
  /\ event = [w \in Threads |-> FALSE]
  /\ wpc = [w \in Threads |-> "wait"]
  /\ wsoap = [w \in Threads |-> NoSoap]

-----------------------------------------------------------------------------
(* Faulty variants of single actions, for mutation: each is what a likely  *)
(* mistake in the code would do, and some property of the run rejects it.  *)

(* The scan is restarted without ResetGetNext(). *)
FaultyScanAgain ==
  /\ dpc = "scan"
  /\ dnext \notin Threads
  /\ dnext' = dnext + 1
  /\ UNCHANGED <<dpc, dsoap, heap, ifaceVars, event, threadVars>>

(* One pass over the busy pool and the connection is given up. *)
ImpatientScan ==
  /\ dpc = "scan"
  /\ dnext \notin Threads
  /\ dsoap' = NoSoap
  /\ dpc' = "accept"
  /\ UNCHANGED <<dnext, heap, ifaceVars, event, threadVars>>

(* The status is left FINISHED when the job is handed over. *)
FaultyHandOver ==
  /\ dpc = "check"
  /\ status[dnext] = "FINISHED"
  /\ msoap' = [msoap EXCEPT ![dnext] = dsoap]
  /\ dpc' = "signal"
  /\ UNCHANGED <<dsoap, dnext, heap, crit, status, event, threadVars>>

(* The thread is not woken up. *)
FaultySignal ==
  /\ dpc = "signal"
  /\ dpc' = "unlock"
  /\ UNCHANGED <<dsoap, dnext, heap, ifaceVars, event, threadVars>>

(* The scan is not left after the hand-over: the next thread gets it too. *)
FaultyUnlock ==
  /\ dpc = "unlock"
  /\ crit' = [crit EXCEPT ![dnext] = "free"]
  /\ dnext' = dnext + 1
  /\ dpc' = "scan"
  /\ UNCHANGED <<dsoap, heap, status, msoap, event, threadVars>>

(* The wait ends although nothing was signalled. *)
SpuriousWakeup(w) ==
  /\ wpc[w] = "wait"
  /\ event' = [event EXCEPT ![w] = FALSE]
  /\ wpc' = [wpc EXCEPT ![w] = "lock"]
  /\ UNCHANGED <<dispatcherVars, heap, ifaceVars, wsoap>>

(* The thread goes back to waiting without SetStatus(FINISHED). *)
FaultyFinish(w) ==
  /\ wpc[w] = "finish"
  /\ wpc' = [wpc EXCEPT ![w] = "unlock"]
  /\ UNCHANGED <<dispatcherVars, heap, ifaceVars, event, wsoap>>

-----------------------------------------------------------------------------
(* The accepting thread.                                                   *)

(* accept() returned a connection; copy() allocates its soap object at any *)
(* address that is free, possibly one that was deleted before.             *)
Accept(c) ==
  /\ dpc = "accept"
  /\ c \notin heap
  /\ heap' = heap \cup {c}
  /\ dsoap' = c
  /\ dnext' = 1
  /\ dpc' = "scan"
  /\ UNCHANGED <<ifaceVars, event, threadVars>>

(* Trylock on the next entry of the map succeeds ... *)
TrylockOk ==
  /\ dpc = "scan"
  /\ dnext \in Threads
  /\ crit[dnext] = "free"
  /\ crit' = [crit EXCEPT ![dnext] = "dispatcher"]
  /\ dpc' = "check"
  /\ UNCHANGED <<dsoap, dnext, heap, status, msoap, event, threadVars>>

(* ... or fails, and the scan goes on with the next entry. *)
TrylockBusy ==
  /\ dpc = "scan"
  /\ dnext \in Threads
  /\ crit[dnext] # "free"
  /\ dnext' = dnext + 1
  /\ UNCHANGED <<dpc, dsoap, heap, ifaceVars, event, threadVars>>

(* A full pass found no thread: Sleep(50) and scan again. *)
ScanAgain ==
  /\ dpc = "scan"
  /\ dnext \notin Threads
  /\ dnext' = 1
  /\ UNCHANGED <<dpc, dsoap, heap, ifaceVars, event, threadVars>>

(* The thread has been given a job it has not locked for yet. *)
CheckWorking ==
  /\ dpc = "check"
  /\ status[dnext] # "FINISHED"
  /\ crit' = [crit EXCEPT ![dnext] = "free"]
  /\ dnext' = dnext + 1
  /\ dpc' = "scan"
  /\ UNCHANGED <<dsoap, heap, status, msoap, event, threadVars>>

(* A FINISHED thread gets the job: SetSoap and SetStatus ... *)
CheckFinished ==
  /\ dpc = "check"
  /\ status[dnext] = "FINISHED"
  /\ msoap' = [msoap EXCEPT ![dnext] = dsoap]
  /\ status' = [status EXCEPT ![dnext] = "WORKING"]
  /\ dpc' = "signal"
  /\ UNCHANGED <<dsoap, dnext, heap, crit, event, threadVars>>

(* ... then SignalEvent, still under the lock ... *)
SignalEvent ==
  /\ dpc = "signal"
  /\ event' = [event EXCEPT ![dnext] = TRUE]
  /\ dpc' = "unlock"
  /\ UNCHANGED <<dsoap, dnext, heap, ifaceVars, threadVars>>

(* ... and Unlock and return to accept(). *)
Unlock ==
  /\ dpc = "unlock"
  /\ crit' = [crit EXCEPT ![dnext] = "free"]
  /\ dsoap' = NoSoap
  /\ dpc' = "accept"
  /\ UNCHANGED <<dnext, heap, status, msoap, event, threadVars>>

Dispatch ==
  \/ TrylockOk \/ TrylockBusy \/ ScanAgain
  \/ CheckWorking \/ CheckFinished \/ SignalEvent \/ Unlock

-----------------------------------------------------------------------------
(* A pool thread.                                                          *)

WaitForObject(w) ==
  /\ wpc[w] = "wait"
  /\ event[w]
  /\ event' = [event EXCEPT ![w] = FALSE]
  /\ wpc' = [wpc EXCEPT ![w] = "lock"]
  /\ UNCHANGED <<dispatcherVars, heap, ifaceVars, wsoap>>

Lock(w) ==
  /\ wpc[w] = "lock"
  /\ crit[w] = "free"
  /\ crit' = [crit EXCEPT ![w] = "thread"]
  /\ wpc' = [wpc EXCEPT ![w] = "take"]
  /\ UNCHANGED <<dispatcherVars, heap, status, msoap, event, wsoap>>

(* SoapPtr = GetSoap(), initialisation of the object. *)
Take(w) ==
  /\ wpc[w] = "take"
  /\ wsoap' = [wsoap EXCEPT ![w] = msoap[w]]
  /\ wpc' = [wpc EXCEPT ![w] = "serve"]
  /\ UNCHANGED <<dispatcherVars, heap, ifaceVars, event>>

(* serve() returns or throws; either way the job ends. *)
Serve(w) ==
  /\ wpc[w] = "serve"
  /\ wpc' = [wpc EXCEPT ![w] = "delete"]
  /\ UNCHANGED <<dispatcherVars, heap, ifaceVars, event, wsoap>>

(* CleanAll() closes the socket, delete frees the object. *)
Delete(w) ==
  /\ wpc[w] = "delete"
  /\ heap' = heap \ {wsoap[w]}
  /\ wsoap' = [wsoap EXCEPT ![w] = NoSoap]
  /\ wpc' = [wpc EXCEPT ![w] = "finish"]
  /\ UNCHANGED <<dispatcherVars, ifaceVars, event>>

Finish(w) ==
  /\ wpc[w] = "finish"
  /\ status' = [status EXCEPT ![w] = "FINISHED"]
  /\ wpc' = [wpc EXCEPT ![w] = "unlock"]
  /\ UNCHANGED <<dispatcherVars, heap, crit, msoap, event, wsoap>>

Release(w) ==
  /\ wpc[w] = "unlock"
  /\ crit' = [crit EXCEPT ![w] = "free"]
  /\ wpc' = [wpc EXCEPT ![w] = "wait"]
  /\ UNCHANGED <<dispatcherVars, heap, status, msoap, event, wsoap>>

ThreadStep(w) ==
  \/ WaitForObject(w) \/ Lock(w) \/ Take(w) \/ Serve(w)
  \/ Delete(w) \/ Finish(w) \/ Release(w)

Next ==
  \/ \E c \in Soaps : Accept(c)
  \/ Dispatch
  \/ \E w \in Threads : ThreadStep(w)

Spec == Init /\ [][Next]_vars

(* The threads run, and serve() ends. Lock() blocks: a thread that waits   *)
(* for its critical section gets it when it keeps being released, which is *)
(* strong fairness; the dispatcher sleeps 50 ms between two scans without  *)
(* holding it. Nothing obliges a client to connect.                        *)
Fairness ==
  /\ WF_vars(Dispatch)
  /\ \A w \in Threads : WF_vars(ThreadStep(w)) /\ SF_vars(Lock(w))

FairSpec == Spec /\ Fairness

-----------------------------------------------------------------------------
(* The soap object a thread is responsible for: from SetSoap until delete. *)
Job(w) == IF status[w] = "WORKING" /\ wpc[w] # "finish" THEN msoap[w] ELSE NoSoap

(* The soap object that has been accepted and not yet handed over. *)
Undelivered == IF dpc \in {"scan", "check"} THEN dsoap ELSE NoSoap

(* A thread never serves or deletes a soap object that is not allocated:   *)
(* m_soap keeps a dangling pointer after each job, and only the event      *)
(* protocol keeps a thread from picking it up a second time.               *)
NoUseAfterDelete ==
  \A w \in Threads :
    /\ wpc[w] = "take" => msoap[w] \in heap
    /\ wpc[w] \in {"serve", "delete"} => wsoap[w] \in heap

(* Two threads never work on one connection, and none works on the         *)
(* connection the main thread is still trying to hand over, even when the  *)
(* address of a deleted object is allocated again.                         *)
ExclusiveJobs ==
  \A w \in Threads :
    Job(w) # NoSoap =>
      /\ Job(w) # Undelivered
      /\ \A v \in Threads \ {w} : Job(v) # Job(w)

(* No accepted connection is forgotten: an allocated soap object is being  *)
(* handed over or is the job of a thread.                                  *)
NoLostConnection ==
  \A c \in heap : c = Undelivered \/ \E w \in Threads : c = Job(w)

(* A thread that was given a job and sleeps has been signalled or is about *)
(* to be (no lost wake-up), and no signal outlives its job.                *)
NoLostWakeup ==
  \A w \in Threads :
    (status[w] = "WORKING" /\ wpc[w] = "wait")
      <=> (event[w] \/ (dpc = "signal" /\ dnext = w))

(* Every accepted connection is answered and closed. *)
ConnectionsClosed == \A c \in Soaps : c \in heap ~> c \notin heap

(* The pool implements the connection service, fairness included. *)
Service == INSTANCE ConnectionService
             WITH Slots <- Threads,
                  waiting <- Undelivered,
                  slot <- [w \in Threads |-> Job(w)]

ServiceSpec == Service!FairSpec

=============================================================================
