----------------------------- MODULE EntityTables -----------------------------
(***************************************************************************)
(* The tables of groups, agents and limits that all pool threads share     *)
(* (csa_web_groups.cpp, csa_web_agents.cpp, csa_web_limits.cpp), and the   *)
(* requests of csa_web_serverMT.cpp that load, walk and read them under    *)
(* the tables' locks (csa_web_lock.cpp).                                   *)
(*                                                                         *)
(* The requests differ in which lock they take, what they load, and what   *)
(* they then do with the table; Handlers says that of each, and the        *)
(* actions are common to all.  The data of a row are left out: only which  *)
(* groups and agents a table or a reply holds is kept.  One colour lookup  *)
(* stands for the several of a row.  Which requests may run at once is the *)
(* subject of ReportGate, whose gate does not exclude anything for         *)
(* certain; here any two requests overlap.                                 *)
(***************************************************************************)
EXTENDS Naturals

CONSTANTS
  Requests,    \* the pool threads, each serving one request at a time
  Free,        \* nobody holds the lock
  Users,       \* supervisors
  Permitted,   \* groups a user has through grp_sup, directly or by a super group
  AllGroups,   \* users of sup_level <= 3, who see every group
  GroupIds,    \* groups that may be in the database
  StableGroups,\* groups that are in it throughout
  AgentIds,    \* agents that may be in the database
  MaxId,       \* the largest id of a group or an agent
  Kinds,       \* the requests that clients make
  Named,       \* the sets of groups they name, or an agent is logged in to
  MaxChanges   \* bound: changes of the database

Ids == GroupIds \cup AgentIds
End == MaxId + 1  \* tab.end()

VARIABLES
  db,        \* the active groups and agents of the database
  changes,   \* how often it has changed
  lock,      \* who holds the lock of each table
  groupstab, \* keys of Groups_tab::tab
  agentstab, \* keys of Agents_tab::tab
  it,        \* the iterator member of either table
  limits,    \* groups that have a vector in Limits_tab
  pc,        \* what a request does next
  kind,      \* which request it is
  user,      \* on whose behalf
  asked,     \* the ids it names
  todo,      \* those it has not come to yet
  rows,      \* result sets of its selects
  cause,     \* errorCause of the reply
  reply      \* groups in the reply of a request that has loaded them

tables  == <<lock, groupstab, agentstab, it, limits>>
request == <<pc, kind, user, asked, todo, rows, cause, reply>>
vars == <<db, changes, tables, request>>

-----------------------------------------------------------------------------
(* What each request does: whether it verifies a ticket, whose lock it     *)
(* takes, what it loads and how it goes on.                                *)

Tables == {"groups", "agents", "limits"}

(* A report of the groups asked for. *)
GroupReport == [ticket |-> TRUE, lock |-> "groups", load |-> "none", work |-> "verify"]
GroupDetailFullInfo == GroupReport
GroupQueInfo        == GroupReport
GroupAgentsInfo     == GroupReport
GroupAbndInfo       == GroupReport
GroupShiftInfo      == GroupReport
GroupIntOvfInfo     == GroupReport
GroupGeneralInfo    == GroupReport
GroupPeriodInfo     == GroupReport
GroupHourlyInfo     == GroupReport
GroupDailyBriefInfo == GroupReport
GroupDailyDetailedInfo == GroupReport

(* The groups of the user; it loads the agents as well. *)
GroupList == [ticket |-> TRUE, lock |-> "groups", load |-> "own", work |-> "load_agents"]

AgentsList  == [ticket |-> FALSE, lock |-> "agents", load |-> "agents", work |-> "first"]
BriefAgents == [ticket |-> FALSE, lock |-> "agents", load |-> "none", work |-> "first"]

(* Agents logged in to the group asked for, if that is a group. *)
LoginManagerAgentsPerGroup ==
  [ticket |-> TRUE, lock |-> "groups", load |-> "all", work |-> "find"]

(* Names of the groups an agent is logged in to. *)
LoginManagerGroupsPerAgent ==
  [ticket |-> TRUE, lock |-> "groups", load |-> "own", work |-> "find"]

LoginManagerAvailableAgentsForGroup ==
  [ticket |-> TRUE, lock |-> "agents", load |-> "none", work |-> "first"]

(* Walks the groups without their lock. *)
LoginManagerAvailableGroupsForAgent ==
  [ticket |-> TRUE, lock |-> "none", load |-> "none", work |-> "first"]

(* Only what a login does to the limits. *)
UserLogin == [ticket |-> FALSE, lock |-> "none", load |-> "none", work |-> "reload_all"]

Handlers ==
  [GroupDetailFullInfo |-> GroupDetailFullInfo,
   GroupQueInfo |-> GroupQueInfo,
   GroupAgentsInfo |-> GroupAgentsInfo,
   GroupAbndInfo |-> GroupAbndInfo,
   GroupShiftInfo |-> GroupShiftInfo,
   GroupIntOvfInfo |-> GroupIntOvfInfo,
   GroupGeneralInfo |-> GroupGeneralInfo,
   GroupPeriodInfo |-> GroupPeriodInfo,
   GroupHourlyInfo |-> GroupHourlyInfo,
   GroupDailyBriefInfo |-> GroupDailyBriefInfo,
   GroupDailyDetailedInfo |-> GroupDailyDetailedInfo,
   GroupList |-> GroupList,
   AgentsList |-> AgentsList,
   BriefAgents |-> BriefAgents,
   LoginManagerAgentsPerGroup |-> LoginManagerAgentsPerGroup,
   LoginManagerGroupsPerAgent |-> LoginManagerGroupsPerAgent,
   LoginManagerAvailableAgentsForGroup |-> LoginManagerAvailableAgentsForGroup,
   LoginManagerAvailableGroupsForAgent |-> LoginManagerAvailableGroupsForAgent,
   UserLogin |-> UserLogin]

ASSUME TablesAssumption ==
  /\ Free \notin Requests
  /\ MaxId \in Nat
  /\ Ids \subseteq 1..MaxId
  /\ StableGroups \subseteq GroupIds
  /\ AllGroups \subseteq Users
  /\ Permitted \in [Users -> SUBSET GroupIds]
  /\ Kinds \subseteq DOMAIN Handlers
  /\ Kinds # {}
  /\ Users # {}
  /\ Named \subseteq SUBSET GroupIds
  /\ MaxChanges \in Nat

-----------------------------------------------------------------------------
Handler(r) == Handlers[kind[r]]

(* The table a request walks. *)
Walked(r) == IF Handler(r).lock = "agents" THEN "agents" ELSE "groups"
Tab == [groups |-> groupstab, agents |-> agentstab]

(* tab.begin(): the first key there is, or tab.end(). *)
Begin(tab) == {i \in tab \cup {End} : \A j \in tab : i <= j}

(* ++it.  An iterator whose element has been erased, or that is at the     *)
(* end already, may go anywhere.                                           *)
Successors(tab, i) ==
  IF i \in tab THEN {j \in tab \cup {End} : j > i /\ \A k \in tab : k > i => j <= k}
  ELSE Ids \cup {End}

(* The id of the list asked for that comes first. *)
Current(r) == CHOOSE g \in todo[r] : \A h \in todo[r] : g <= h

Pcs == {"idle", "ticket", "lock", "load", "insert", "load_agents", "insert_agents",
        "first", "row", "nested", "next", "find", "verify", "verified", "block",
        "reload_all", "reload", "init", "colour", "colouring", "row_end",
        "unlock", "returned"}

(* A thread without a request. *)
AnyKind == CHOOSE k \in Kinds : TRUE
AnyUser == CHOOSE u \in Users : TRUE
NoRows == [groups |-> {}, agents |-> {}]

TypeOK ==
  /\ db \in [groups : SUBSET GroupIds, agents : SUBSET AgentIds]
  /\ changes \in 0..MaxChanges
  /\ lock \in [Tables -> Requests \cup {Free}]
  /\ groupstab \in SUBSET GroupIds
  /\ agentstab \in SUBSET AgentIds
  /\ it \in [groups : Ids \cup {End}, agents : Ids \cup {End}]
  /\ limits \in SUBSET GroupIds
  /\ pc \in [Requests -> Pcs]
  /\ kind \in [Requests -> DOMAIN Handlers]
  /\ user \in [Requests -> Users]
  /\ asked \in [Requests -> SUBSET GroupIds]
  /\ todo \in [Requests -> SUBSET GroupIds]
  /\ rows \in [Requests -> [groups : SUBSET GroupIds, agents : SUBSET AgentIds]]
  /\ cause \in [Requests -> {0, 500, 700}]
  /\ reply \in [Requests -> SUBSET Ids]

(* The constructors of the tables: nothing is loaded but the limits. *)
Init ==
  /\ db = [groups |-> StableGroups, agents |-> AgentIds]
  /\ changes = 0
  /\ lock = [t \in Tables |-> Free]
  /\ groupstab = {}
  /\ agentstab = {}
  /\ it = [groups |-> End, agents |-> End]
  /\ limits = db.groups
  /\ pc = [r \in Requests |-> "idle"]
  /\ kind = [r \in Requests |-> AnyKind]
  /\ user = [r \in Requests |-> AnyUser]
  /\ asked = [r \in Requests |-> {}]
  /\ todo = [r \in Requests |-> {}]
  /\ rows = [r \in Requests |-> NoRows]
  /\ cause = [r \in Requests |-> 0]
  /\ reply = [r \in Requests |-> {}]

-----------------------------------------------------------------------------
Goto(r, label) == pc' = [pc EXCEPT ![r] = label]

Take(r, t)    == lock[t] = Free /\ lock' = [lock EXCEPT ![t] = r]
Release(r, t) == lock' = [lock EXCEPT ![t] = Free]

Answer(r, c) == Goto(r, "returned") /\ cause' = [cause EXCEPT ![r] = c]

Found(r, ids) == reply' = [reply EXCEPT ![r] = @ \cup ids]

(* A group or an agent is added or removed by somebody else. *)
Change ==
  /\ changes < MaxChanges
  /\ changes' = changes + 1
  /\ \/ \E g \in GroupIds \ StableGroups :
          db' = [db EXCEPT !.groups = IF g \in @ THEN @ \ {g} ELSE @ \cup {g}]
     \/ \E a \in AgentIds :
          db' = [db EXCEPT !.agents = IF a \in @ THEN @ \ {a} ELSE @ \cup {a}]
  /\ UNCHANGED <<tables, request>>

-----------------------------------------------------------------------------
(* Beginning and end of a request. *)

AfterLock(h) == CASE h.load \in {"own", "all"} -> "load"
                  [] h.load = "agents" -> "load_agents"
                  [] OTHER -> h.work

AfterTicket(h) == IF h.lock = "none" THEN h.work ELSE "lock"

Serve(r) ==
  /\ pc[r] = "idle"
  /\ \E k \in Kinds, u \in Users, ids \in Named \cup {{}} :
       /\ Handlers[k].work \in {"verify", "find"} <=> ids # {}
       /\ Handlers[k].load # "own" => u = AnyUser
       /\ kind' = [kind EXCEPT ![r] = k]
       /\ user' = [user EXCEPT ![r] = u]
       /\ asked' = [asked EXCEPT ![r] = ids]
       /\ todo' = [todo EXCEPT ![r] = ids]
       /\ Goto(r, IF Handlers[k].ticket THEN "ticket" ELSE AfterTicket(Handlers[k]))
  /\ UNCHANGED <<db, changes, tables, rows, cause, reply>>

VerifyTicket(r) ==
  /\ pc[r] = "ticket"
  /\ \/ Goto(r, AfterTicket(Handler(r))) /\ UNCHANGED cause
     \/ Answer(r, 500)
  /\ UNCHANGED <<db, changes, tables, kind, user, asked, todo, rows, reply>>

(* A busy table is answered like a busy report. *)
FaultyBusyCode(r) ==
  /\ pc[r] = "lock"
  /\ \/ /\ Take(r, Handler(r).lock)
        /\ Goto(r, AfterLock(Handler(r)))
        /\ UNCHANGED cause
     \/ /\ lock[Handler(r).lock] # Free
        /\ Answer(r, 400)
        /\ UNCHANGED lock
  /\ UNCHANGED <<db, changes, groupstab, agentstab, it, limits,
                 kind, user, asked, todo, rows, reply>>

csa_web_TryLock(r) ==
  /\ pc[r] = "lock"
  /\ \/ /\ Take(r, Handler(r).lock)
        /\ Goto(r, AfterLock(Handler(r)))
        /\ UNCHANGED cause
     \/ /\ lock[Handler(r).lock] # Free
        /\ Answer(r, 700)
        /\ UNCHANGED lock
  /\ UNCHANGED <<db, changes, groupstab, agentstab, it, limits,
                 kind, user, asked, todo, rows, reply>>

csa_web_UnLock(r) ==
  /\ pc[r] = "unlock"
  /\ IF Handler(r).lock = "none" THEN UNCHANGED lock ELSE Release(r, Handler(r).lock)
  /\ Answer(r, 0)
  /\ UNCHANGED <<db, changes, groupstab, agentstab, it, limits,
                 kind, user, asked, todo, rows, reply>>

(* The reply has been sent and the soap object is deleted. *)
Delete(r) ==
  /\ pc[r] = "returned"
  /\ Goto(r, "idle")
  /\ kind' = [kind EXCEPT ![r] = AnyKind]
  /\ user' = [user EXCEPT ![r] = AnyUser]
  /\ asked' = [asked EXCEPT ![r] = {}]
  /\ todo' = [todo EXCEPT ![r] = {}]
  /\ rows' = [rows EXCEPT ![r] = NoRows]
  /\ cause' = [cause EXCEPT ![r] = 0]
  /\ reply' = [reply EXCEPT ![r] = {}]
  /\ UNCHANGED <<db, changes, tables>>

-----------------------------------------------------------------------------
(* Loading. *)

(* The groups LoadGroupList selects. *)
Visible(r) ==
  IF Handler(r).load = "all" \/ user[r] \in AllGroups THEN db.groups
  ELSE db.groups \cap Permitted[user[r]]

(* The table is not cleared, as LoadAgentsList does not clear its table. *)
FaultyKeepGroups(r) ==
  /\ pc[r] = "load"
  /\ rows' = [rows EXCEPT ![r].groups = Visible(r)]
  /\ Goto(r, "insert")
  /\ UNCHANGED <<db, changes, tables, kind, user, asked, todo, cause, reply>>

(* LoadGroupList: the select, after which the table is cleared. *)
LoadGroupList(r) ==
  /\ pc[r] = "load"
  /\ rows' = [rows EXCEPT ![r].groups = Visible(r)]
  /\ groupstab' = {}
  /\ Goto(r, "insert")
  /\ UNCHANGED <<db, changes, lock, agentstab, it, limits,
                 kind, user, asked, todo, cause, reply>>

(* Its loop: tab[grpId] for each record. *)
InsertGroup(r) ==
  /\ pc[r] = "insert"
  /\ LET missing == rows[r].groups \ groupstab IN
       IF missing = {}
       THEN Goto(r, Handler(r).work) /\ UNCHANGED groupstab
       ELSE (\E g \in missing : groupstab' = groupstab \cup {g}) /\ UNCHANGED pc
  /\ UNCHANGED <<db, changes, lock, agentstab, it, limits,
                 kind, user, asked, todo, rows, cause, reply>>

(* LoadAgentsList: the select; agents that are gone stay in the table. *)
LoadAgentsList(r) ==
  /\ pc[r] = "load_agents"
  /\ rows' = [rows EXCEPT ![r].agents = db.agents]
  /\ Goto(r, "insert_agents")
  /\ UNCHANGED <<db, changes, tables, kind, user, asked, todo, cause, reply>>

(* Its loop.  GroupList runs it without the lock of the agents: the        *)
(* iterator of a request that walks them meanwhile may go anywhere.        *)
InsertAgent(r) ==
  /\ pc[r] = "insert_agents"
  /\ LET missing == rows[r].agents \ agentstab IN
       IF missing = {}
       THEN /\ rows' = [rows EXCEPT ![r].agents = {}]
            /\ Goto(r, "first")
            /\ UNCHANGED <<agentstab, it>>
       ELSE /\ \E a \in missing : agentstab' = agentstab \cup {a}
            /\ IF lock["agents"] \in {r, Free}
               THEN UNCHANGED it
               ELSE \E i \in AgentIds \cup {End} : it' = [it EXCEPT !.agents = i]
            /\ UNCHANGED <<pc, rows>>
  /\ UNCHANGED <<db, changes, lock, groupstab, limits,
                 kind, user, asked, todo, cause, reply>>

-----------------------------------------------------------------------------
(* Walking a table with its iterator. *)

First(r) ==
  /\ pc[r] = "first"
  /\ \E i \in Begin(Tab[Walked(r)]) : it' = [it EXCEPT ![Walked(r)] = i]
  /\ Goto(r, "row")
  /\ UNCHANGED <<db, changes, lock, groupstab, agentstab, limits,
                 kind, user, asked, todo, rows, cause, reply>>

(* The test of the loop, and the row of a group or an agent: BriefAgents   *)
(* goes on with the groups for an agent that is online.                    *)
Row(r) ==
  /\ pc[r] = "row"
  /\ LET i == it[Walked(r)] IN
       \/ i = End /\ Goto(r, "unlock") /\ UNCHANGED reply
       \/ i # End /\ kind[r] = "BriefAgents" /\ Goto(r, "nested") /\ UNCHANGED reply
       \/ /\ i # End
          /\ Goto(r, "next")
          /\ IF kind[r] = "GroupList" THEN Found(r, {i}) ELSE UNCHANGED reply
  /\ UNCHANGED <<db, changes, tables, kind, user, asked, todo, rows, cause>>

Next_it(r) ==
  /\ pc[r] = "next"
  /\ \E i \in Successors(Tab[Walked(r)], it[Walked(r)]) :
       it' = [it EXCEPT ![Walked(r)] = i]
  /\ Goto(r, "row")
  /\ UNCHANGED <<db, changes, lock, groupstab, agentstab, limits,
                 kind, user, asked, todo, rows, cause, reply>>

(* BriefAgents forgets the agents when it does not get the groups. *)
FaultyNestedLock(r) ==
  /\ pc[r] = "nested"
  /\ \/ /\ Take(r, "groups")
        /\ \E next \in {"colour", "row_end"} : Goto(r, next)
        /\ UNCHANGED cause
     \/ /\ lock["groups"] # Free
        /\ Answer(r, 700)
        /\ UNCHANGED lock
  /\ UNCHANGED <<db, changes, groupstab, agentstab, it, limits,
                 kind, user, asked, todo, rows, reply>>

(* BriefAgents: the groups inside of the agents; without them it gives up  *)
(* the agents too.                                                         *)
NestedLock(r) ==
  /\ pc[r] = "nested"
  /\ \/ /\ Take(r, "groups")
        /\ \E next \in {"colour", "row_end"} : Goto(r, next)
        /\ UNCHANGED cause
     \/ /\ lock["groups"] # Free
        /\ Release(r, "agents")
        /\ Answer(r, 700)
  /\ UNCHANGED <<db, changes, groupstab, agentstab, it, limits,
                 kind, user, asked, todo, rows, reply>>

(* The end of a row that may have been coloured. *)
RowEnd(r) ==
  /\ pc[r] = "row_end"
  /\ IF kind[r] = "BriefAgents"
     THEN Release(r, "groups") /\ Goto(r, "next")
     ELSE Goto(r, "verify") /\ UNCHANGED lock
  /\ UNCHANGED <<db, changes, groupstab, agentstab, it, limits,
                 kind, user, asked, todo, rows, cause, reply>>

-----------------------------------------------------------------------------
(* Reading the groups by id. *)

(* IsGroupExist and GetGroupNameById of the login manager's requests. *)
Find(r) ==
  /\ pc[r] = "find"
  /\ Found(r, asked[r] \cap groupstab)
  /\ Goto(r, "unlock")
  /\ UNCHANGED <<db, changes, tables, kind, user, asked, todo, rows, cause>>

(* Group reports, for the next id: VerifyGroupInLimitTab waits for the     *)
(* lock of the limits as long as it takes.                                 *)
VerifyGroupInLimitTab(r) ==
  /\ pc[r] = "verify"
  /\ IF todo[r] = {} THEN Goto(r, "unlock") /\ UNCHANGED lock
     ELSE Take(r, "limits") /\ Goto(r, "verified")
  /\ UNCHANGED <<db, changes, groupstab, agentstab, it, limits,
                 kind, user, asked, todo, rows, cause, reply>>

GetERSVector(r) ==
  /\ pc[r] = "verified"
  /\ IF Current(r) \in limits
     THEN Release(r, "limits") /\ Goto(r, "block")
     ELSE Goto(r, "reload") /\ UNCHANGED lock
  /\ UNCHANGED <<db, changes, groupstab, agentstab, it, limits,
                 kind, user, asked, todo, rows, cause, reply>>

(* The loop does not go on from a group that is not in the table. *)
FaultyBlock(r) ==
  /\ pc[r] = "block"
  /\ LET g == Current(r) IN
       \/ /\ g \in groupstab
          /\ todo' = [todo EXCEPT ![r] = @ \ {g}]
          /\ Goto(r, "colour")
       \/ g \notin groupstab /\ Goto(r, "verify") /\ UNCHANGED todo
  /\ UNCHANGED <<db, changes, tables, kind, user, asked, rows, cause, reply>>

(* AddNewGroupBlock and what is put into the block: the group must be      *)
(* online and in the table, that is in the list somebody loaded last.      *)
(* GroupHourlyInfo makes its block of any group, and looks no colours up.  *)
AddNewGroupBlock(r) ==
  /\ pc[r] = "block"
  /\ LET g == Current(r) IN
       /\ todo' = [todo EXCEPT ![r] = @ \ {g}]
       /\ \/ g \in groupstab /\ kind[r] # "GroupHourlyInfo" /\ Goto(r, "colour")
          \/ Goto(r, "verify")
  /\ UNCHANGED <<db, changes, tables, kind, user, asked, rows, cause, reply>>

-----------------------------------------------------------------------------
(* The limits. *)

(* GetColorOfERS, GetColorOfSTATE: white without the lock. *)
GetColor(r) ==
  /\ pc[r] = "colour"
  /\ \/ Take(r, "limits") /\ Goto(r, "colouring")
     \/ lock["limits"] # Free /\ Goto(r, "row_end") /\ UNCHANGED lock
  /\ UNCHANGED <<db, changes, groupstab, agentstab, it, limits,
                 kind, user, asked, todo, rows, cause, reply>>

GotColor(r) ==
  /\ pc[r] = "colouring"
  /\ Release(r, "limits")
  /\ Goto(r, "row_end")
  /\ UNCHANGED <<db, changes, groupstab, agentstab, it, limits,
                 kind, user, asked, todo, rows, cause, reply>>

(* A login reloads the limits without their lock. *)
FaultyReloadAll(r) ==
  /\ pc[r] = "reload_all"
  /\ Goto(r, "reload")
  /\ UNCHANGED <<db, changes, tables, kind, user, asked, todo, rows, cause, reply>>

ReloadAll(r) ==
  /\ pc[r] = "reload_all"
  /\ Take(r, "limits")
  /\ Goto(r, "reload")
  /\ UNCHANGED <<db, changes, groupstab, agentstab, it, limits,
                 kind, user, asked, todo, rows, cause, reply>>

UnloadLimitsAndGroups(r) ==
  /\ pc[r] = "reload"
  /\ limits' = {}
  /\ Goto(r, "init")
  /\ UNCHANGED <<db, changes, lock, groupstab, agentstab, it,
                 kind, user, asked, todo, rows, cause, reply>>

(* Init_LimitsByGroups, LoadLimits, and the lock is released. *)
Init_LimitsByGroups(r) ==
  /\ pc[r] = "init"
  /\ limits' = db.groups
  /\ Release(r, "limits")
  /\ IF kind[r] = "UserLogin" THEN Answer(r, 0)
     ELSE Goto(r, "block") /\ UNCHANGED cause
  /\ UNCHANGED <<db, changes, groupstab, agentstab, it,
                 kind, user, asked, todo, rows, reply>>

-----------------------------------------------------------------------------
Step(r) ==
  \/ VerifyTicket(r) \/ csa_web_TryLock(r) \/ csa_web_UnLock(r) \/ Delete(r)
  \/ LoadGroupList(r) \/ InsertGroup(r) \/ LoadAgentsList(r) \/ InsertAgent(r)
  \/ First(r) \/ Row(r) \/ Next_it(r) \/ NestedLock(r) \/ RowEnd(r)
  \/ Find(r) \/ VerifyGroupInLimitTab(r) \/ GetERSVector(r) \/ AddNewGroupBlock(r)
  \/ GetColor(r) \/ GotColor(r)
  \/ ReloadAll(r) \/ UnloadLimitsAndGroups(r) \/ Init_LimitsByGroups(r)

Next == Change \/ \E r \in Requests : Serve(r) \/ Step(r)

Spec == Init /\ [][Next]_vars

(* A pool thread is scheduled.  Only the wait for the limits, which polls  *)
(* their lock without end, can be disabled: it finds the lock free some    *)
(* time, if that happens again and again.                                  *)
Fairness == \A r \in Requests : SF_vars(Step(r))

FairSpec == Spec /\ Fairness

-----------------------------------------------------------------------------
(* A request that has been answered holds no lock: not of the table it     *)
(* took, nor of those nested in it, whichever of its returns it took.      *)
LocksReleased ==
  \A r \in Requests : pc[r] \in {"idle", "returned"} =>
    \A t \in Tables : lock[t] # r

(* A list of groups, or the names of groups, are those the request has     *)
(* selected for its user, whatever others load into the one table that     *)
(* all users share (LoadGroupList clears it).                              *)
GroupRepliesExact ==
  \A r \in Requests :
    /\ pc[r] = "returned"
    /\ cause[r] = 0
    /\ Handler(r).load \in {"own", "all"}
    => reply[r] = IF kind[r] = "GroupList" THEN rows[r].groups
                  ELSE asked[r] \cap rows[r].groups

(* Whoever gets the lock of the limits finds the vectors of all groups     *)
(* that have been in the database throughout, never a table half           *)
(* reloaded (VerifyGroupInLimitTab and ReloadAll delete all of them).      *)
LimitsWhole == lock["limits"] = Free => StableGroups \subseteq limits

(* Every request is answered, with the locks nested as they are and the    *)
(* limits waited for without limit.                                        *)
RequestsReturn == \A r \in Requests : pc[r] # "idle" ~> pc[r] = "idle"
=============================================================================
