------------------------------ MODULE ReportGate ------------------------------
(***************************************************************************)
(* The gate in front of the expensive reports of csa_web: a flag per       *)
(* report code in the global array do_reports_area, which GroupList,       *)
(* AgentsList, BriefAgents, BriefVoiceDNIS, IvrPortGroupList and           *)
(* IvrAppList (csa_web_serverMT.cpp) test and set, and which the pool      *)
(* thread clears after the request (csa_web_online_srv_th.cpp).  The array *)
(* is read and written without a lock.                                     *)
(*                                                                         *)
(* What a report does once it is admitted is one step here.                *)
(***************************************************************************)
EXTENDS Naturals

CONSTANTS
  Threads,     \* pool threads
  Reports,     \* the report codes that are gated
  NoReport,    \* report code 0
  LateHeader   \* reports that refuse before they have set the reply's header

ASSUME GateAssumption ==
  /\ NoReport \notin Reports
  /\ LateHeader \subseteq Reports

VARIABLES
  area,    \* do_reports_area: the codes whose flag is 1
  pc,      \* where a thread is between accepting a request and the next
  report,  \* the report its request asks for
  code,    \* m_ReportCode of its soap object
  taken,   \* its local reportCode
  reply    \* the answer to its request

vars == <<area, pc, report, code, taken, reply>>

Pcs == {"idle", "check", "set", "work", "end", "test", "clear"}

TypeOK ==
  /\ area \subseteq Reports
  /\ pc \in [Threads -> Pcs]
  /\ report \in [Threads -> Reports \cup {NoReport}]
  /\ code \in [Threads -> Reports \cup {NoReport}]
  /\ taken \in [Threads -> Reports \cup {NoReport}]
  /\ reply \in [Threads -> {"none", "busy", "report", "lost"}]

(* ThMngr_c::Init clears the array. *)
Init ==
  /\ area = {}
  /\ pc = [t \in Threads |-> "idle"]
  /\ report = [t \in Threads |-> NoReport]
  /\ code = [t \in Threads |-> NoReport]
  /\ taken = [t \in Threads |-> NoReport]
  /\ reply = [t \in Threads |-> "none"]

Goto(t, there) == pc' = [pc EXCEPT ![t] = there]

-----------------------------------------------------------------------------
(* Faulty variants, for mutation.                                          *)

(* The flag is raised, m_ReportCode is not set. *)
SetWithoutCode(t) ==
  /\ pc[t] = "set"
  /\ area' = area \cup {report[t]}
  /\ Goto(t, "work")
  /\ UNCHANGED <<report, code, taken, reply>>

(* The flag is indexed with m_ReportCode, which is not set yet. *)
SetByCode(t) ==
  /\ pc[t] = "set"
  /\ area' = area \cup {code[t]}
  /\ code' = [code EXCEPT ![t] = report[t]]
  /\ Goto(t, "work")
  /\ UNCHANGED <<report, taken, reply>>

(* reportCode is read after m_ReportCode has been reset. *)
TakeTooLate(t) ==
  /\ pc[t] = "end"
  /\ taken' = [taken EXCEPT ![t] = NoReport]
  /\ code' = [code EXCEPT ![t] = NoReport]
  /\ Goto(t, "test")
  /\ UNCHANGED <<area, report, reply>>

-----------------------------------------------------------------------------
(* A request for report r has been given to thread t, with a new soap      *)
(* object whose m_ReportCode is 0.                                         *)
Call(t, r) ==
  /\ pc[t] = "idle"
  /\ report' = [report EXCEPT ![t] = r]
  /\ reply' = [reply EXCEPT ![t] = "none"]
  /\ Goto(t, "check")
  /\ UNCHANGED <<area, code, taken>>

(* The flag is 1: errorCause 400, MT SERVER BUSY ... *)
Refuse(t) ==
  /\ pc[t] = "check"
  /\ report[t] \in area \ LateHeader
  /\ reply' = [reply EXCEPT ![t] = "busy"]
  /\ Goto(t, "end")
  /\ UNCHANGED <<area, report, code, taken>>

(* ... but AgentsList has not set responseInfoHeader yet: it writes the    *)
(* errorCause through a null pointer, which ends in the catch of the pool  *)
(* thread if the platform throws ...                                       *)
RefuseCaught(t) ==
  /\ pc[t] = "check"
  /\ report[t] \in area \cap LateHeader
  /\ reply' = [reply EXCEPT ![t] = "lost"]
  /\ Goto(t, "end")
  /\ UNCHANGED <<area, report, code, taken>>

(* ... and ends the process if it does not; it starts again from Init. *)
RefuseCrashes(t) ==
  /\ pc[t] = "check"
  /\ report[t] \in area \cap LateHeader
  /\ area' = {}
  /\ pc' = [u \in Threads |-> "idle"]
  /\ report' = [u \in Threads |-> NoReport]
  /\ code' = [u \in Threads |-> NoReport]
  /\ taken' = [u \in Threads |-> NoReport]
  /\ reply' = [u \in Threads |-> "lost"]

(* The flag is 0 ... *)
Admit(t) ==
  /\ pc[t] = "check"
  /\ report[t] \notin area
  /\ Goto(t, "set")
  /\ UNCHANGED <<area, report, code, taken, reply>>

(* ... and is set to 1 in another step. *)
Set(t) ==
  /\ pc[t] = "set"
  /\ area' = area \cup {report[t]}
  /\ code' = [code EXCEPT ![t] = report[t]]
  /\ Goto(t, "work")
  /\ UNCHANGED <<report, taken, reply>>

(* The report is answered, refused with 500 or 700, or throws. *)
Work(t) ==
  /\ pc[t] = "work"
  /\ reply' = [reply EXCEPT ![t] = "report"]
  /\ Goto(t, "end")
  /\ UNCHANGED <<area, report, code, taken>>

(* reportCode = m_ReportCode; the soap object is deleted. *)
Take(t) ==
  /\ pc[t] = "end"
  /\ taken' = [taken EXCEPT ![t] = code[t]]
  /\ code' = [code EXCEPT ![t] = NoReport]
  /\ Goto(t, "test")
  /\ UNCHANGED <<area, report, reply>>

(* reportCode != 0 && do_reports_area[reportCode] == 1 *)
Test(t) ==
  /\ pc[t] = "test"
  /\ Goto(t, IF taken[t] \in area THEN "clear" ELSE "idle")
  /\ UNCHANGED <<area, report, code, taken, reply>>

Clear(t) ==
  /\ pc[t] = "clear"
  /\ area' = area \ {taken[t]}
  /\ Goto(t, "idle")
  /\ UNCHANGED <<report, code, taken, reply>>

Step(t) ==
  \/ Refuse(t) \/ RefuseCaught(t) \/ RefuseCrashes(t) \/ Admit(t) \/ Set(t)
  \/ Work(t) \/ Take(t) \/ Test(t) \/ Clear(t)

Next == \E t \in Threads : (\E r \in Reports : Call(t, r)) \/ Step(t)

Spec == Init /\ [][Next]_vars

(* The pool threads run; serve() returns or throws. *)
FairSpec == Spec /\ \A t \in Threads : WF_vars(Step(t))

-----------------------------------------------------------------------------
(* Thread t was admitted to report r and will still look at its flag. *)
WillClear(t, r) ==
  \/ pc[t] \in {"work", "end"} /\ code[t] = r
  \/ pc[t] \in {"test", "clear"} /\ taken[t] = r

(* A flag that is 1 always has a thread that was admitted to the report    *)
(* and will clear it, however the unlocked tests, sets and clears of the   *)
(* threads interleave: a refused request finds the report "already         *)
(* process[ed] in another thread" (csa_web_serverMT.cpp:483), and no       *)
(* report is refused for ever.                                             *)
NoStuckFlag == \A r \in area : \E t \in Threads : WillClear(t, r)

(* A flag that is 1 is cleared. *)
FlagCleared == \A r \in Reports : r \in area ~> r \notin area

-----------------------------------------------------------------------------
(* What comments of the code say and the code does not do.                 *)

(* A report that is in process in one thread is not started in another:    *)
(* "already process brief agent report in another thread" and              *)
(* "MT SERVER BUSY" (csa_web_serverMT.cpp:483-486).                        *)
OneThreadPerReport ==
  \A t, u \in Threads :
    pc[t] = "work" /\ pc[u] = "work" /\ report[t] = report[u] => t = u

=============================================================================
