-------------------------- MODULE EntityTablesProofs --------------------------
(***************************************************************************)
(* Proofs about EntityTables: for any number of pool threads, any groups   *)
(* and any mix of requests, the types, that every way out of a request     *)
(* releases its locks, and that the limits are whole when their lock is    *)
(* free.                                                                   *)
(***************************************************************************)
EXTENDS EntityTables, TLAPS

Works == {"verify", "find", "first", "load_agents", "reload_all"}

(* What the requests have in common, from the one table of them. *)
LEMMA HandlerShape ==
  ASSUME NEW k \in DOMAIN Handlers
  PROVE  /\ Handlers[k].lock \in {"groups", "agents", "none"}
         /\ Handlers[k].work \in Works
         /\ Handlers[k].work = "verify" => Handlers[k].lock = "groups"
         /\ Handlers[k].work = "load_agents" => Handlers[k].lock = "groups"
         /\ Handlers[k].work = "reload_all" <=> k = "UserLogin"
         /\ k = "UserLogin" => Handlers[k].lock = "none"
         /\ k = "BriefAgents" => Handlers[k].lock = "agents"
         /\ k = "BriefAgents" => Handlers[k].work = "first"
         /\ Handlers[k].lock = "none" => Handlers[k].load = "none"
         /\ Handlers[k].load = "agents" => Handlers[k].work = "first"
         /\ Handlers[k].load \in {"own", "all"} => Handlers[k].lock = "groups"
         /\ Handlers[k].load \in {"own", "all"} => Handlers[k].work \in {"load_agents", "find"}
         /\ Handlers[k].work = "load_agents" <=> k = "GroupList"
         /\ k = "GroupList" => Handlers[k].load = "own"
         /\ Handlers[k].work = "find" => Handlers[k].load \in {"own", "all"}
         /\ Handlers[k].lock = "none" =>
              k \in {"UserLogin", "LoginManagerAvailableGroupsForAgent"}
  BY DEF Handlers, Works, GroupReport, GroupDetailFullInfo, GroupQueInfo,
         GroupAgentsInfo, GroupAbndInfo, GroupShiftInfo, GroupIntOvfInfo,
         GroupGeneralInfo, GroupPeriodInfo, GroupHourlyInfo, GroupDailyBriefInfo,
         GroupDailyDetailedInfo, GroupList, AgentsList, BriefAgents,
         LoginManagerAgentsPerGroup, LoginManagerGroupsPerAgent,
         LoginManagerAvailableAgentsForGroup, LoginManagerAvailableGroupsForAgent,
         UserLogin

(* The kinds of requests and the users of an idle thread are some of them. *)
LEMMA AnyExist == AnyKind \in Kinds /\ AnyUser \in Users
  BY TablesAssumption DEF AnyKind, AnyUser

-----------------------------------------------------------------------------
(* What the helpers of the actions do to the types. *)
LEMMA GotoTypes ==
  ASSUME TypeOK, NEW r \in Requests, NEW label \in Pcs, Goto(r, label)
  PROVE  pc' \in [Requests -> Pcs]
  BY DEF TypeOK, Goto

LEMMA AnswerTypes ==
  ASSUME TypeOK, NEW r \in Requests, NEW c \in {0, 500, 700}, Answer(r, c)
  PROVE  pc' \in [Requests -> Pcs] /\ cause' \in [Requests -> {0, 500, 700}]
<1>1. "returned" \in Pcs
  BY DEF Pcs
<1> QED BY <1>1, GotoTypes DEF TypeOK, Answer

LEMMA LockTypes ==
  ASSUME TypeOK, NEW r \in Requests, NEW t \in Tables, Take(r, t) \/ Release(r, t)
  PROVE  lock' \in [Tables -> Requests \cup {Free}]
  BY DEF TypeOK, Take, Release

(* Every step keeps the types. *)
LEMMA TablesTypes == TypeOK /\ [Next]_vars => TypeOK'
<1> SUFFICES ASSUME TypeOK, [Next]_vars PROVE TypeOK'
  OBVIOUS
<1>1. CASE UNCHANGED vars
  BY <1>1 DEF vars, TypeOK, tables, request
<1>2. CASE Change
  BY <1>2, TablesAssumption DEF Change, TypeOK, tables, request
<1>3. ASSUME NEW r \in Requests, Serve(r) PROVE TypeOK'
  <2>1. PICK k \in Kinds, u \in Users, ids \in Named \cup {{}} :
          /\ Handlers[k].work \in {"verify", "find"} <=> ids # {}
          /\ Handlers[k].load # "own" => u = AnyUser
          /\ kind' = [kind EXCEPT ![r] = k]
          /\ user' = [user EXCEPT ![r] = u]
          /\ asked' = [asked EXCEPT ![r] = ids]
          /\ todo' = [todo EXCEPT ![r] = ids]
          /\ Goto(r, IF Handlers[k].ticket THEN "ticket" ELSE AfterTicket(Handlers[k]))
    BY <1>3 DEF Serve
  <2>2. k \in DOMAIN Handlers /\ ids \in SUBSET GroupIds
    BY TablesAssumption
  <2>3. AfterTicket(Handlers[k]) \in Pcs /\ "ticket" \in Pcs
    BY <2>2, HandlerShape DEF AfterTicket, Works, Pcs
  <2>4. pc' \in [Requests -> Pcs]
    BY <2>1, <2>3, GotoTypes
  <2>5. /\ kind' \in [Requests -> DOMAIN Handlers]
        /\ user' \in [Requests -> Users]
        /\ asked' \in [Requests -> SUBSET GroupIds]
        /\ todo' \in [Requests -> SUBSET GroupIds]
    BY <2>1, <2>2 DEF TypeOK
  <2> QED BY <1>3, <2>4, <2>5 DEF Serve, TypeOK, tables
<1>4. ASSUME NEW r \in Requests, Step(r) PROVE TypeOK'
  <2>0. /\ kind[r] \in DOMAIN Handlers
        /\ Handler(r).work \in Works
        /\ Walked(r) \in {"groups", "agents"}
        /\ Handler(r).lock # "none" => Handler(r).lock \in Tables
    BY HandlerShape DEF TypeOK, Handler, Walked, Tables
  <2> USE DEF TypeOK
  <2>1. CASE VerifyTicket(r)
    <3>1. AfterTicket(Handler(r)) \in Pcs
      BY <2>0 DEF AfterTicket, Works, Pcs
    <3>2. pc' \in [Requests -> Pcs] /\ cause' \in [Requests -> {0, 500, 700}]
      BY <2>1, <3>1, GotoTypes, AnswerTypes DEF VerifyTicket
    <3> QED BY <2>1, <3>2 DEF VerifyTicket, tables
  <2>2. CASE csa_web_TryLock(r)
    <3>1. AfterLock(Handler(r)) \in Pcs
      BY <2>0 DEF AfterLock, Works, Pcs
    <3>2. pc' \in [Requests -> Pcs] /\ cause' \in [Requests -> {0, 500, 700}]
      BY <2>2, <3>1, GotoTypes, AnswerTypes DEF csa_web_TryLock
    <3>3. lock' \in [Tables -> Requests \cup {Free}]
      BY <2>2 DEF csa_web_TryLock, Take
    <3> QED BY <2>2, <3>2, <3>3 DEF csa_web_TryLock
  <2>3. CASE csa_web_UnLock(r)
    <3>1. pc' \in [Requests -> Pcs] /\ cause' \in [Requests -> {0, 500, 700}]
      BY <2>3, AnswerTypes DEF csa_web_UnLock
    <3>2. lock' \in [Tables -> Requests \cup {Free}]
      BY <2>3 DEF csa_web_UnLock, Release
    <3> QED BY <2>3, <3>1, <3>2 DEF csa_web_UnLock
  <2>4. CASE Delete(r)
    <3>1. "idle" \in Pcs
      BY DEF Pcs
    <3>2. pc' \in [Requests -> Pcs]
      BY <2>4, <3>1, GotoTypes DEF Delete
    <3>3. AnyKind \in DOMAIN Handlers /\ AnyUser \in Users
      BY AnyExist, TablesAssumption
    <3> QED BY <2>4, <3>2, <3>3 DEF Delete, NoRows, tables
  <2>5. CASE LoadGroupList(r)
    BY <2>5 DEF LoadGroupList, Visible, Goto, Pcs
  <2>6. CASE InsertGroup(r)
    <3>1. rows[r].groups \in SUBSET GroupIds /\ Handler(r).work \in Pcs
      BY <2>0 DEF Works, Pcs
    <3>2. groupstab' \in SUBSET GroupIds
      BY <2>6, <3>1 DEF InsertGroup
    <3>3. pc' \in [Requests -> Pcs]
      BY <2>6, <3>1, GotoTypes DEF InsertGroup
    <3> QED BY <2>6, <3>2, <3>3 DEF InsertGroup
  <2>7. CASE LoadAgentsList(r)
    BY <2>7 DEF LoadAgentsList, Goto, Pcs, tables
  <2>8. CASE InsertAgent(r)
    <3>1. rows[r].agents \in SUBSET AgentIds /\ "first" \in Pcs
      BY DEF Pcs
    <3>2. agentstab' \in SUBSET AgentIds
      BY <2>8, <3>1 DEF InsertAgent
    <3>3. pc' \in [Requests -> Pcs]
      BY <2>8, <3>1, GotoTypes DEF InsertAgent
    <3>4. it' \in [groups : Ids \cup {End}, agents : Ids \cup {End}]
      BY <2>8 DEF InsertAgent, Ids
    <3>5. rows' \in [Requests -> [groups : SUBSET GroupIds, agents : SUBSET AgentIds]]
      BY <2>8 DEF InsertAgent
    <3> QED BY <2>8, <3>2, <3>3, <3>4, <3>5 DEF InsertAgent
  <2>9. CASE First(r) \/ Next_it(r)
    <3>1. Tab[Walked(r)] \subseteq Ids
      BY <2>0 DEF Tab, Ids
    <3>2. PICK i \in Ids \cup {End} : it' = [it EXCEPT ![Walked(r)] = i]
      BY <2>9, <3>1 DEF First, Next_it, Begin, Successors
    <3>3. it' \in [groups : Ids \cup {End}, agents : Ids \cup {End}]
      BY <2>0, <3>2
    <3>4. pc' \in [Requests -> Pcs]
      BY <2>9 DEF First, Next_it, Goto, Pcs
    <3> QED BY <2>9, <3>3, <3>4 DEF First, Next_it
  <2>10. CASE Row(r)
    <3>1. it[Walked(r)] \in Ids \cup {End}
      BY <2>0
    <3>2. "unlock" \in Pcs /\ "nested" \in Pcs /\ "next" \in Pcs
      BY DEF Pcs
    <3>3. pc' \in [Requests -> Pcs]
      BY <2>10, <3>2, GotoTypes DEF Row
    <3>4. reply' \in [Requests -> SUBSET Ids]
      BY <2>10, <3>1 DEF Row, Found
    <3> QED BY <2>10, <3>3, <3>4 DEF Row, tables
  <2>11. CASE Find(r)
    <3>1. asked[r] \cap groupstab \in SUBSET Ids
      BY DEF Ids
    <3> QED BY <2>11, <3>1 DEF Find, Found, Goto, Pcs, tables
  <2>12. CASE AddNewGroupBlock(r)
    BY <2>12 DEF AddNewGroupBlock, Goto, Pcs, tables
  <2>13. CASE UnloadLimitsAndGroups(r)
    BY <2>13 DEF UnloadLimitsAndGroups, Goto, Pcs
  <2>14. CASE \/ NestedLock(r) \/ RowEnd(r) \/ VerifyGroupInLimitTab(r)
              \/ GetERSVector(r) \/ GetColor(r) \/ GotColor(r) \/ ReloadAll(r)
              \/ Init_LimitsByGroups(r)
    <3>1. {"colour", "row_end", "next", "verify", "unlock", "verified", "block",
           "reload", "colouring", "init"} \subseteq Pcs
      BY DEF Pcs
    <3>2. {"groups", "agents", "limits"} \subseteq Tables
      BY DEF Tables
    <3>3. lock' \in [Tables -> Requests \cup {Free}]
      BY <2>14, <3>2, LockTypes DEF NestedLock, RowEnd, VerifyGroupInLimitTab,
         GetERSVector, GetColor, GotColor, ReloadAll, Init_LimitsByGroups
    <3>4. /\ pc' \in [Requests -> Pcs]
          /\ cause' \in [Requests -> {0, 500, 700}]
      BY <2>14, <3>1, GotoTypes, AnswerTypes DEF NestedLock, RowEnd,
         VerifyGroupInLimitTab, GetERSVector, GetColor, GotColor, ReloadAll,
         Init_LimitsByGroups
    <3>5. limits' \in SUBSET GroupIds
      BY <2>14 DEF NestedLock, RowEnd, VerifyGroupInLimitTab, GetERSVector,
         GetColor, GotColor, ReloadAll, Init_LimitsByGroups
    <3> QED BY <2>14, <3>3, <3>4, <3>5 DEF NestedLock, RowEnd,
         VerifyGroupInLimitTab, GetERSVector, GetColor, GotColor, ReloadAll,
         Init_LimitsByGroups
  <2> QED BY <1>4, <2>1, <2>2, <2>3, <2>4, <2>5, <2>6, <2>7, <2>8, <2>9, <2>10,
             <2>11, <2>12, <2>13, <2>14 DEF Step
<1> QED BY <1>1, <1>2, <1>3, <1>4 DEF Next

-----------------------------------------------------------------------------
(* Where a request can be, given which request it is. *)
ControlOf(r) ==
  /\ pc[r] = "lock" => Handler(r).lock # "none"
  /\ pc[r] \in {"load", "insert"} => Handler(r).load \in {"own", "all"}
  /\ pc[r] \in {"load_agents", "insert_agents"} =>
       Handler(r).work = "load_agents" \/ Handler(r).load = "agents"
  /\ pc[r] \in {"first", "row", "next"} => Handler(r).work \in {"first", "load_agents"}
  /\ pc[r] = "nested" => kind[r] = "BriefAgents"
  /\ pc[r] = "find" => Handler(r).work = "find"
  /\ pc[r] \in {"verify", "verified", "block"} => Handler(r).work = "verify"
  /\ pc[r] \in {"reload", "init"} => Handler(r).work \in {"verify", "reload_all"}
  /\ pc[r] = "reload_all" => Handler(r).work = "reload_all"
  /\ pc[r] \in {"colour", "colouring", "row_end"} =>
       Handler(r).work = "verify" \/ kind[r] = "BriefAgents"
  /\ pc[r] = "unlock" => Handler(r).work # "reload_all"

Control == \A r \in Requests : ControlOf(r)

(* The locks a request holds where it is. *)
Holds(r, t) ==
  \/ pc[r] \notin {"idle", "ticket", "lock", "returned"} /\ t = Handler(r).lock
  \/ /\ pc[r] \in {"colour", "colouring", "row_end"}
     /\ kind[r] = "BriefAgents"
     /\ t = "groups"
  \/ pc[r] \in {"verified", "reload", "init", "colouring"} /\ t = "limits"

(* A request holds a lock exactly where its steps need it. *)
LocksHeld == \A r \in Requests, t \in Tables : lock[t] = r <=> Holds(r, t)

(* Nobody but the request that reloads the limits sees them half loaded. *)
WholeOrReloading ==
  /\ StableGroups \subseteq db.groups
  /\ (\A r \in Requests : pc[r] # "init") => StableGroups \subseteq limits

TablesInv == TypeOK /\ Control /\ LocksHeld /\ WholeOrReloading

LEMMA TablesInit == Init => TablesInv
<1> SUFFICES ASSUME Init PROVE TablesInv
  OBVIOUS
<1>1. AnyKind \in DOMAIN Handlers /\ AnyUser \in Users
  BY AnyExist, TablesAssumption
<1>2. TypeOK
  BY <1>1, TablesAssumption DEF Init, TypeOK, NoRows, Pcs
<1>3. Control
  BY DEF Init, Control, ControlOf
<1>4. LocksHeld
  BY TablesAssumption DEF Init, LocksHeld, Holds
<1>5. WholeOrReloading
  BY DEF Init, WholeOrReloading
<1> QED BY <1>2, <1>3, <1>4, <1>5 DEF TablesInv

(* The other requests are where they were. *)
LEMMA OthersStay ==
  ASSUME TypeOK, NEW r \in Requests, Serve(r) \/ Step(r),
         NEW q \in Requests, q # r
  PROVE  pc'[q] = pc[q] /\ kind'[q] = kind[q]
  BY DEF TypeOK, Serve, Step, VerifyTicket, csa_web_TryLock, csa_web_UnLock, Delete,
     LoadGroupList, InsertGroup, LoadAgentsList, InsertAgent, First, Row, Next_it,
     NestedLock, RowEnd, Find, VerifyGroupInLimitTab, GetERSVector,
     AddNewGroupBlock, GetColor, GotColor, ReloadAll, UnloadLimitsAndGroups,
     Init_LimitsByGroups, Goto, Answer

(* Every step leaves each request where its kind can be. *)
LEMMA TablesControl == TypeOK /\ Control /\ [Next]_vars => Control'
<1> SUFFICES ASSUME TypeOK, Control, [Next]_vars PROVE Control'
  OBVIOUS
<1>1. CASE UNCHANGED vars
  BY <1>1 DEF vars, request, Control, ControlOf, Handler
<1>2. CASE Change
  BY <1>2 DEF Change, request, Control, ControlOf, Handler
<1>3. ASSUME NEW r \in Requests, Serve(r) PROVE ControlOf(r)'
  <2>1. PICK k \in Kinds :
          /\ kind' = [kind EXCEPT ![r] = k]
          /\ Goto(r, IF Handlers[k].ticket THEN "ticket" ELSE AfterTicket(Handlers[k]))
    BY <1>3 DEF Serve
  <2>2. /\ kind'[r] = k
        /\ pc'[r] = IF Handlers[k].ticket THEN "ticket" ELSE AfterTicket(Handlers[k])
    BY <2>1 DEF TypeOK, Goto
  <2>3. k \in DOMAIN Handlers
    BY TablesAssumption
  <2> QED BY <2>2, <2>3, HandlerShape DEF ControlOf, Handler, AfterTicket, Works
<1>4. ASSUME NEW r \in Requests, Step(r) PROVE ControlOf(r)'
  <2>0. /\ kind[r] \in DOMAIN Handlers
        /\ ControlOf(r)
    BY DEF TypeOK, Control
  <2> DEFINE h == Handlers[kind[r]]
  <2>s. /\ h.lock \in {"groups", "agents", "none"}
        /\ h.work \in Works
        /\ h.work = "reload_all" <=> kind[r] = "UserLogin"
        /\ kind[r] = "UserLogin" => h.lock = "none"
        /\ kind[r] = "BriefAgents" => h.lock = "agents" /\ h.work = "first"
        /\ h.lock = "none" => h.load = "none"
        /\ h.load = "agents" => h.work = "first"
    BY <2>0, HandlerShape
  <2>1. CASE VerifyTicket(r)
    BY <2>0, <2>s, <2>1 DEF ControlOf, Handler, Works, Goto, TypeOK, VerifyTicket, AfterTicket, Answer
  <2>2. CASE csa_web_TryLock(r)
    BY <2>0, <2>s, <2>2 DEF ControlOf, Handler, Works, Goto, TypeOK, csa_web_TryLock, AfterLock, Answer
  <2>3. CASE csa_web_UnLock(r)
    BY <2>0, <2>s, <2>3 DEF ControlOf, Handler, Works, Goto, TypeOK, csa_web_UnLock, Answer
  <2>4. CASE Delete(r)
    BY <2>0, <2>s, <2>4 DEF ControlOf, Handler, Works, Goto, TypeOK, Delete
  <2>5. CASE LoadGroupList(r)
    BY <2>0, <2>s, <2>5 DEF ControlOf, Handler, Works, Goto, TypeOK, LoadGroupList
  <2>6. CASE InsertGroup(r)
    BY <2>0, <2>s, <2>6 DEF ControlOf, Handler, Works, Goto, TypeOK, InsertGroup
  <2>7. CASE LoadAgentsList(r)
    BY <2>0, <2>s, <2>7 DEF ControlOf, Handler, Works, Goto, TypeOK, LoadAgentsList
  <2>8. CASE InsertAgent(r)
    BY <2>0, <2>s, <2>8 DEF ControlOf, Handler, Works, Goto, TypeOK, InsertAgent
  <2>9. CASE First(r)
    BY <2>0, <2>s, <2>9 DEF ControlOf, Handler, Works, Goto, TypeOK, First
  <2>10. CASE Row(r)
    BY <2>0, <2>s, <2>10 DEF ControlOf, Handler, Works, Goto, TypeOK, Row
  <2>11. CASE Next_it(r)
    BY <2>0, <2>s, <2>11 DEF ControlOf, Handler, Works, Goto, TypeOK, Next_it
  <2>12. CASE NestedLock(r)
    BY <2>0, <2>s, <2>12 DEF ControlOf, Handler, Works, Goto, TypeOK, NestedLock, Answer
  <2>13. CASE RowEnd(r)
    BY <2>0, <2>s, <2>13 DEF ControlOf, Handler, Works, Goto, TypeOK, RowEnd
  <2>14. CASE Find(r)
    BY <2>0, <2>s, <2>14 DEF ControlOf, Handler, Works, Goto, TypeOK, Find
  <2>15. CASE VerifyGroupInLimitTab(r)
    BY <2>0, <2>s, <2>15 DEF ControlOf, Handler, Works, Goto, TypeOK, VerifyGroupInLimitTab
  <2>16. CASE GetERSVector(r)
    BY <2>0, <2>s, <2>16 DEF ControlOf, Handler, Works, Goto, TypeOK, GetERSVector
  <2>17. CASE AddNewGroupBlock(r)
    BY <2>0, <2>s, <2>17 DEF ControlOf, Handler, Works, Goto, TypeOK, AddNewGroupBlock
  <2>18. CASE GetColor(r)
    BY <2>0, <2>s, <2>18 DEF ControlOf, Handler, Works, Goto, TypeOK, GetColor
  <2>19. CASE GotColor(r)
    BY <2>0, <2>s, <2>19 DEF ControlOf, Handler, Works, Goto, TypeOK, GotColor
  <2>20. CASE ReloadAll(r)
    BY <2>0, <2>s, <2>20 DEF ControlOf, Handler, Works, Goto, TypeOK, ReloadAll
  <2>21. CASE UnloadLimitsAndGroups(r)
    BY <2>0, <2>s, <2>21 DEF ControlOf, Handler, Works, Goto, TypeOK, UnloadLimitsAndGroups
  <2>22. CASE Init_LimitsByGroups(r)
    BY <2>0, <2>s, <2>22 DEF ControlOf, Handler, Works, Goto, TypeOK, Init_LimitsByGroups, Answer
  <2> QED BY <1>4, <2>1, <2>2, <2>3, <2>4, <2>5, <2>6, <2>7, <2>8, <2>9, <2>10,
             <2>11, <2>12, <2>13, <2>14, <2>15, <2>16, <2>17, <2>18, <2>19,
             <2>20, <2>21, <2>22 DEF Step
<1>5. ASSUME NEW r \in Requests, Serve(r) \/ Step(r) PROVE Control'
  <2> SUFFICES ASSUME NEW q \in Requests PROVE ControlOf(q)'
    BY DEF Control
  <2>1. CASE q = r
    BY <1>3, <1>4, <1>5, <2>1
  <2>2. CASE q # r
    <3>1. pc'[q] = pc[q] /\ kind'[q] = kind[q]
      BY <1>5, <2>2, OthersStay
    <3> QED BY <3>1 DEF Control, ControlOf, Handler
  <2> QED BY <2>1, <2>2
<1> QED BY <1>1, <1>2, <1>5 DEF Next

(* A step takes or releases locks of the request that makes it only, and   *)
(* holds afterwards those it needs where it then is.                       *)
LEMMA LockEffect ==
  ASSUME TypeOK, Control, LocksHeld, NEW r \in Requests, Serve(r) \/ Step(r),
         NEW t \in Tables
  PROVE  /\ lock'[t] = r <=> Holds(r, t)'
         /\ \A q \in Requests : q # r => (lock'[t] = q <=> lock[t] = q)
<1> DEFINE Effect == /\ lock'[t] = r <=> Holds(r, t)'
                     /\ \A q \in Requests : q # r => (lock'[t] = q <=> lock[t] = q)
<1>1. CASE Serve(r)
  <2>1. PICK k \in Kinds :
          /\ kind' = [kind EXCEPT ![r] = k]
          /\ Goto(r, IF Handlers[k].ticket THEN "ticket" ELSE AfterTicket(Handlers[k]))
    BY <1>1 DEF Serve
  <2>2. /\ kind'[r] = k
        /\ pc'[r] = IF Handlers[k].ticket THEN "ticket" ELSE AfterTicket(Handlers[k])
    BY <2>1 DEF TypeOK, Goto
  <2>3. k \in DOMAIN Handlers
    BY TablesAssumption
  <2>4. lock' = lock /\ ~ Holds(r, t)
    BY <1>1 DEF Serve, tables, Holds
  <2>5. ~ Holds(r, t)'
    BY <2>2, <2>3, HandlerShape DEF Holds, Handler, AfterTicket, Works, Tables
  <2> QED BY <2>4, <2>5 DEF LocksHeld
<1>2. CASE Step(r)
  <2>0. /\ kind[r] \in DOMAIN Handlers
        /\ ControlOf(r)
        /\ \A u \in Tables : lock[u] = r <=> Holds(r, u)
        /\ Free \notin Requests
    BY TablesAssumption DEF TypeOK, Control, LocksHeld
  <2> DEFINE h == Handlers[kind[r]]
  <2>s. /\ h.lock \in {"groups", "agents", "none"}
        /\ h.work \in Works
        /\ h.work = "verify" => h.lock = "groups"
        /\ h.work = "load_agents" => h.lock = "groups"
        /\ h.work = "reload_all" <=> kind[r] = "UserLogin"
        /\ kind[r] = "UserLogin" => h.lock = "none"
        /\ kind[r] = "BriefAgents" => h.lock = "agents" /\ h.work = "first"
        /\ h.lock = "none" => h.load = "none"
        /\ h.load = "agents" => h.work = "first"
    BY <2>0, HandlerShape
  <2>1. CASE VerifyTicket(r)
    BY <2>0, <2>s, <2>1 DEF Holds, Handler, Works, Goto, Take, Release, TypeOK,
       Tables, VerifyTicket, AfterTicket, Answer, tables
  <2>2. CASE csa_web_TryLock(r)
    BY <2>0, <2>s, <2>2 DEF Holds, Handler, Works, Goto, Take, Release, TypeOK,
       Tables, csa_web_TryLock, AfterLock, Answer
  <2>3. CASE csa_web_UnLock(r)
    BY <2>0, <2>s, <2>3 DEF Holds, Handler, Works, Goto, Take, Release, TypeOK,
       Tables, csa_web_UnLock, Answer
  <2>4. CASE Delete(r)
    BY <2>0, <2>s, <2>4 DEF Holds, Handler, Works, Goto, Take, Release, TypeOK,
       Tables, Delete, tables
  <2>5. CASE LoadGroupList(r)
    BY <2>0, <2>s, <2>5 DEF Holds, Handler, Works, Goto, Take, Release, TypeOK,
       Tables, LoadGroupList
  <2>6. CASE InsertGroup(r)
    BY <2>0, <2>s, <2>6 DEF Holds, Handler, Works, Goto, Take, Release, TypeOK,
       Tables, InsertGroup
  <2>7. CASE LoadAgentsList(r)
    BY <2>0, <2>s, <2>7 DEF Holds, Handler, Works, Goto, Take, Release, TypeOK,
       Tables, LoadAgentsList, tables
  <2>8. CASE InsertAgent(r)
    BY <2>0, <2>s, <2>8 DEF Holds, Handler, Works, Goto, Take, Release, TypeOK,
       Tables, InsertAgent
  <2>9. CASE First(r)
    BY <2>0, <2>s, <2>9 DEF Holds, Handler, Works, Goto, Take, Release, TypeOK,
       Tables, First
  <2>10. CASE Row(r)
    BY <2>0, <2>s, <2>10 DEF Holds, Handler, Works, Goto, Take, Release, TypeOK,
       Tables, Row, tables
  <2>11. CASE Next_it(r)
    BY <2>0, <2>s, <2>11 DEF Holds, Handler, Works, Goto, Take, Release, TypeOK,
       Tables, Next_it
  <2>12. CASE NestedLock(r)
    BY <2>0, <2>s, <2>12 DEF ControlOf, Holds, Handler, Works, Goto, Take, Release,
       TypeOK, Tables, NestedLock, Answer
  <2>13. CASE RowEnd(r)
    BY <2>0, <2>s, <2>13 DEF Holds, Handler, Works, Goto, Take, Release, TypeOK,
       Tables, RowEnd
  <2>14. CASE Find(r)
    BY <2>0, <2>s, <2>14 DEF Holds, Handler, Works, Goto, Take, Release, TypeOK,
       Tables, Find, tables
  <2>15. CASE VerifyGroupInLimitTab(r)
    BY <2>0, <2>s, <2>15 DEF Holds, Handler, Works, Goto, Take, Release, TypeOK,
       Tables, VerifyGroupInLimitTab
  <2>16. CASE GetERSVector(r)
    BY <2>0, <2>s, <2>16 DEF Holds, Handler, Works, Goto, Take, Release, TypeOK,
       Tables, GetERSVector
  <2>17. CASE AddNewGroupBlock(r)
    BY <2>0, <2>s, <2>17 DEF ControlOf, Holds, Handler, Works, Goto, Take, Release,
       TypeOK, Tables, AddNewGroupBlock, tables
  <2>18. CASE GetColor(r)
    BY <2>0, <2>s, <2>18 DEF Holds, Handler, Works, Goto, Take, Release, TypeOK,
       Tables, GetColor
  <2>19. CASE GotColor(r)
    BY <2>0, <2>s, <2>19 DEF Holds, Handler, Works, Goto, Take, Release, TypeOK,
       Tables, GotColor
  <2>20. CASE ReloadAll(r)
    BY <2>0, <2>s, <2>20 DEF Holds, Handler, Works, Goto, Take, Release, TypeOK,
       Tables, ReloadAll
  <2>21. CASE UnloadLimitsAndGroups(r)
    BY <2>0, <2>s, <2>21 DEF Holds, Handler, Works, Goto, Take, Release, TypeOK,
       Tables, UnloadLimitsAndGroups
  <2>22. CASE Init_LimitsByGroups(r)
    BY <2>0, <2>s, <2>22 DEF Holds, Handler, Works, Goto, Take, Release, TypeOK,
       Tables, Init_LimitsByGroups, Answer
  <2> QED BY <1>2, <2>1, <2>2, <2>3, <2>4, <2>5, <2>6, <2>7, <2>8, <2>9, <2>10,
             <2>11, <2>12, <2>13, <2>14, <2>15, <2>16, <2>17, <2>18, <2>19,
             <2>20, <2>21, <2>22 DEF Step
<1> QED BY <1>1, <1>2

(* Every step keeps who holds which lock. *)
LEMMA TablesLocks == TypeOK /\ Control /\ LocksHeld /\ [Next]_vars => LocksHeld'
<1> SUFFICES ASSUME TypeOK, Control, LocksHeld, [Next]_vars PROVE LocksHeld'
  OBVIOUS
<1>1. CASE UNCHANGED vars
  BY <1>1 DEF vars, tables, request, LocksHeld, Holds, Handler
<1>2. CASE Change
  BY <1>2 DEF Change, tables, request, LocksHeld, Holds, Handler
<1>3. ASSUME NEW r \in Requests, Serve(r) \/ Step(r) PROVE LocksHeld'
  <2> SUFFICES ASSUME NEW q \in Requests, NEW t \in Tables
               PROVE  lock'[t] = q <=> Holds(q, t)'
    BY DEF LocksHeld
  <2>1. CASE q = r
    BY <1>3, <2>1, LockEffect
  <2>2. CASE q # r
    <3>1. lock'[t] = q <=> lock[t] = q
      BY <1>3, <2>2, LockEffect
    <3>2. pc'[q] = pc[q] /\ kind'[q] = kind[q]
      BY <1>3, <2>2, OthersStay
    <3>3. Holds(q, t)' <=> Holds(q, t)
      BY <3>2 DEF Holds, Handler
    <3> QED BY <3>1, <3>3 DEF LocksHeld
  <2> QED BY <2>1, <2>2
<1> QED BY <1>1, <1>2, <1>3 DEF Next

(* The limits are cleared and filled by the request that holds their lock. *)
LEMMA TablesWhole ==
  TypeOK /\ Control /\ LocksHeld /\ WholeOrReloading /\ [Next]_vars
    => WholeOrReloading'
<1> SUFFICES ASSUME TypeOK, Control, LocksHeld, WholeOrReloading, [Next]_vars
             PROVE  WholeOrReloading'
  OBVIOUS
<1>1. CASE UNCHANGED vars
  BY <1>1 DEF vars, tables, request, WholeOrReloading
<1>2. CASE Change
  BY <1>2 DEF Change, tables, request, WholeOrReloading, TypeOK
<1>3. ASSUME NEW r \in Requests, Serve(r) \/ Step(r) PROVE WholeOrReloading'
  <2>1. db' = db
    BY <1>3 DEF Serve, Step, VerifyTicket, csa_web_TryLock, csa_web_UnLock, Delete,
       LoadGroupList, InsertGroup, LoadAgentsList, InsertAgent, First, Row, Next_it,
       NestedLock, RowEnd, Find, VerifyGroupInLimitTab, GetERSVector,
       AddNewGroupBlock, GetColor, GotColor, ReloadAll, UnloadLimitsAndGroups,
       Init_LimitsByGroups
  <2>2. CASE UnloadLimitsAndGroups(r)
    <3>1. pc'[r] = "init"
      BY <2>2 DEF UnloadLimitsAndGroups, Goto, TypeOK
    <3> QED BY <2>1, <3>1 DEF WholeOrReloading
  <2>3. CASE Init_LimitsByGroups(r)
    BY <2>1, <2>3 DEF Init_LimitsByGroups, WholeOrReloading
  <2>4. CASE ~ UnloadLimitsAndGroups(r) /\ ~ Init_LimitsByGroups(r)
    <3>1. limits' = limits /\ pc[r] # "init"
      BY <1>3, <2>4 DEF Serve, Step, VerifyTicket, csa_web_TryLock, csa_web_UnLock,
         Delete, LoadGroupList, InsertGroup, LoadAgentsList, InsertAgent, First, Row,
         Next_it, NestedLock, RowEnd, Find, VerifyGroupInLimitTab, GetERSVector,
         AddNewGroupBlock, GetColor, GotColor, ReloadAll, tables
    <3>2. (\A q \in Requests : pc'[q] # "init") => \A q \in Requests : pc[q] # "init"
      BY <1>3, <3>1, OthersStay
    <3> QED BY <2>1, <3>1, <3>2 DEF WholeOrReloading
  <2> QED BY <2>2, <2>3, <2>4
<1> QED BY <1>1, <1>2, <1>3 DEF Next

LEMMA TablesStep == TablesInv /\ [Next]_vars => TablesInv'
  BY TablesTypes, TablesControl, TablesLocks, TablesWhole DEF TablesInv

-----------------------------------------------------------------------------
(* The variables keep their types. *)
THEOREM TablesTypeCorrect == Spec => []TypeOK
<1>1. TablesInv => TypeOK
  BY DEF TablesInv
<1> QED BY TablesInit, TablesStep, <1>1, PTL DEF Spec

(* Whichever way a request returns, with its reply, refused, or giving up  *)
(* an outer or a nested lock, it has released all its locks.               *)
THEOREM AnsweredHoldsNothing == Spec => []LocksReleased
<1>1. TablesInv => LocksReleased
  <2> SUFFICES ASSUME TablesInv, NEW r \in Requests, pc[r] \in {"idle", "returned"},
                      NEW t \in Tables, lock[t] = r
               PROVE  FALSE
    BY DEF LocksReleased
  <2>1. Holds(r, t)
    BY DEF TablesInv, LocksHeld
  <2> QED BY <2>1 DEF Holds
<1> QED BY TablesInit, TablesStep, <1>1, PTL DEF Spec

(* Who gets the lock of the limits finds the groups that are always there. *)
THEOREM LimitsNeverHalfLoaded == Spec => []LimitsWhole
<1>1. TablesInv => LimitsWhole
  <2> SUFFICES ASSUME TablesInv, lock["limits"] = Free
               PROVE  StableGroups \subseteq limits
    BY DEF LimitsWhole
  <2>1. \A r \in Requests : pc[r] # "init"
    <3> SUFFICES ASSUME NEW r \in Requests, pc[r] = "init" PROVE FALSE
      OBVIOUS
    <3>1. lock["limits"] = r
      BY DEF TablesInv, LocksHeld, Holds, Tables
    <3> QED BY <3>1, TablesAssumption
  <2> QED BY <2>1 DEF TablesInv, WholeOrReloading
<1> QED BY TablesInit, TablesStep, <1>1, PTL DEF Spec

(* In particular no two requests work on one table under its lock, and a   *)
(* request that walks or loads its table under the lock has it throughout. *)
THEOREM TablesExclusive ==
  Spec => [](\A q, r \in Requests, t \in Tables : Holds(q, t) /\ Holds(r, t) => q = r)
<1>1. TablesInv => \A q, r \in Requests, t \in Tables : Holds(q, t) /\ Holds(r, t) => q = r
  BY DEF TablesInv, LocksHeld
<1> QED BY TablesInit, TablesStep, <1>1, PTL DEF Spec

-----------------------------------------------------------------------------
(* Without the request that walks the groups without their lock, replies   *)
(* about groups are exact: a request that has loaded the groups finds the  *)
(* table as it has loaded it until it has released the lock, and has       *)
(* replied with those that its iterator has passed.                        *)
NoUnlockedWalk == "LoginManagerAvailableGroupsForAgent" \notin Kinds

Expected(r) == IF kind[r] = "GroupList" THEN rows[r].groups
               ELSE asked[r] \cap rows[r].groups

LoadedOf(r) ==
  /\ kind[r] \in Kinds
  /\ pc[r] = "idle" => reply[r] = {}
  /\ Handler(r).load \in {"own", "all"} =>
       /\ pc[r] \in {"ticket", "lock", "load", "insert", "load_agents", "insert_agents",
                    "first", "find"} => reply[r] = {}
       /\ pc[r] = "insert" => groupstab \subseteq rows[r].groups
       /\ pc[r] \in {"load_agents", "insert_agents", "first", "row", "next", "find"} =>
            groupstab = rows[r].groups
       /\ pc[r] = "row" =>
            /\ it.groups \in groupstab \cup {End}
            /\ reply[r] = {g \in groupstab : g < it.groups}
       /\ pc[r] = "next" =>
            /\ it.groups \in groupstab
            /\ reply[r] = {g \in groupstab : g <= it.groups}
       /\ pc[r] = "unlock" => reply[r] = Expected(r)
       /\ pc[r] = "returned" /\ cause[r] = 0 => reply[r] = Expected(r)

Loaded == \A r \in Requests : LoadedOf(r)

(* A step by one request leaves the groups to the one that has their lock. *)
LEMMA GroupsLeftAlone ==
  ASSUME NoUnlockedWalk, TypeOK, Control, LocksHeld, Loaded,
         NEW r \in Requests, Serve(r) \/ Step(r), lock["groups"] # r
  PROVE  groupstab' = groupstab /\ it'.groups = it.groups
<1>0. /\ kind[r] \in DOMAIN Handlers
      /\ kind[r] \in Kinds
      /\ ControlOf(r)
      /\ ~ Holds(r, "groups")
  BY DEF TypeOK, Control, LocksHeld, Loaded, LoadedOf, Tables
<1> DEFINE h == Handlers[kind[r]]
<1>s. /\ h.load \in {"own", "all"} => h.lock = "groups"
      /\ h.lock \in {"groups", "agents", "none"}
      /\ h.lock = "none" => kind[r] = "UserLogin"
      /\ h.work = "reload_all" <=> kind[r] = "UserLogin"
  BY <1>0, HandlerShape DEF NoUnlockedWalk
<1>1. CASE LoadGroupList(r) \/ InsertGroup(r)
  BY <1>0, <1>1, <1>s DEF LoadGroupList, InsertGroup, Holds, ControlOf, Handler
<1>2. CASE First(r) \/ Next_it(r)
  <2>1. Walked(r) = "agents"
    BY <1>0, <1>2, <1>s DEF First, Next_it, Holds, ControlOf, Handler, Walked
  <2> QED BY <1>2, <2>1 DEF First, Next_it, TypeOK
<1>3. CASE InsertAgent(r)
  BY <1>3 DEF InsertAgent, TypeOK
<1>4. CASE ~ (LoadGroupList(r) \/ InsertGroup(r) \/ First(r) \/ Next_it(r) \/ InsertAgent(r))
  BY <1>4 DEF Serve, Step, VerifyTicket, csa_web_TryLock, csa_web_UnLock, Delete,
     LoadAgentsList, Row, NestedLock, RowEnd, Find, VerifyGroupInLimitTab,
     GetERSVector, AddNewGroupBlock, GetColor, GotColor, ReloadAll,
     UnloadLimitsAndGroups, Init_LimitsByGroups, tables
<1> QED BY <1>1, <1>2, <1>3, <1>4

(* Nor does it touch the other requests. *)
LEMMA OthersKeep ==
  ASSUME TypeOK, NEW r \in Requests, Serve(r) \/ Step(r),
         NEW q \in Requests, q # r
  PROVE  /\ rows'[q] = rows[q] /\ asked'[q] = asked[q]
         /\ cause'[q] = cause[q] /\ reply'[q] = reply[q]
  BY DEF TypeOK, Serve, Step, VerifyTicket, csa_web_TryLock, csa_web_UnLock, Delete,
     LoadGroupList, InsertGroup, LoadAgentsList, InsertAgent, First, Row, Next_it,
     NestedLock, RowEnd, Find, VerifyGroupInLimitTab, GetERSVector,
     AddNewGroupBlock, GetColor, GotColor, ReloadAll, UnloadLimitsAndGroups,
     Init_LimitsByGroups, Answer, Found

LEMMA LoadedStep ==
  NoUnlockedWalk /\ TypeOK /\ Control /\ LocksHeld /\ Loaded /\ [Next]_vars => Loaded'
<1> SUFFICES ASSUME NoUnlockedWalk, TypeOK, Control, LocksHeld, Loaded, [Next]_vars
             PROVE  Loaded'
  OBVIOUS
<1>1. CASE UNCHANGED vars
  BY <1>1 DEF vars, tables, request, Loaded, LoadedOf, Expected, Handler
<1>2. CASE Change
  BY <1>2 DEF Change, tables, request, Loaded, LoadedOf, Expected, Handler
<1>3. ASSUME NEW r \in Requests, Serve(r) PROVE LoadedOf(r)'
  <2>1. PICK k \in Kinds :
          /\ kind' = [kind EXCEPT ![r] = k]
          /\ Goto(r, IF Handlers[k].ticket THEN "ticket" ELSE AfterTicket(Handlers[k]))
    BY <1>3 DEF Serve
  <2>2. /\ kind'[r] = k
        /\ pc'[r] = IF Handlers[k].ticket THEN "ticket" ELSE AfterTicket(Handlers[k])
        /\ reply'[r] = {}
    BY <1>3, <2>1 DEF TypeOK, Goto, Serve, Loaded, LoadedOf
  <2>3. k \in DOMAIN Handlers
    BY TablesAssumption
  <2> QED BY <2>2, <2>3, HandlerShape DEF LoadedOf, Handler, AfterTicket
<1>4. ASSUME NEW r \in Requests, Step(r) PROVE LoadedOf(r)'
  <2>0. /\ kind[r] \in DOMAIN Handlers
        /\ ControlOf(r)
        /\ LoadedOf(r)
        /\ groupstab \subseteq 1..MaxId /\ End = MaxId + 1 /\ MaxId \in Nat
        /\ AnyKind \in Kinds
    BY TablesAssumption, AnyExist DEF TypeOK, Control, Loaded, End, Ids
  <2> DEFINE h == Handlers[kind[r]]
  <2>s. /\ h.load \in {"own", "all"} => h.lock = "groups"
        /\ h.load \in {"own", "all"} => h.work \in {"load_agents", "find"}
        /\ h.work = "load_agents" <=> kind[r] = "GroupList"
        /\ kind[r] = "GroupList" => h.load = "own"
        /\ kind[r] = "BriefAgents" => h.work = "first"
    BY <2>0, HandlerShape
  <2>1. CASE VerifyTicket(r)
    <3>1. /\ kind' = kind /\ reply' = reply
          /\ h.load \in {"own", "all"} =>
               \/ pc'[r] = "lock"
               \/ pc'[r] = "returned" /\ cause'[r] # 0
      BY <2>s, <2>1 DEF VerifyTicket, AfterTicket, Answer, Handler, Goto, TypeOK
    <3>2. h.load \in {"own", "all"} => reply[r] = {}
      BY <2>0, <2>1 DEF LoadedOf, Handler, VerifyTicket
    <3>3. pc'[r] # "idle"
      BY <2>0, <2>s, <2>1, HandlerShape
         DEF Works, VerifyTicket, AfterTicket, Answer, Handler, Goto, TypeOK
    <3> QED BY <2>0, <3>1, <3>2, <3>3 DEF LoadedOf, Handler
  <2>2. CASE csa_web_TryLock(r)
    <3>1. /\ kind' = kind /\ reply' = reply
          /\ h.load \in {"own", "all"} =>
               \/ pc'[r] = "load"
               \/ pc'[r] = "returned" /\ cause'[r] # 0
      BY <2>s, <2>2 DEF csa_web_TryLock, AfterLock, Answer, Handler, Goto, TypeOK
    <3>2. h.load \in {"own", "all"} => reply[r] = {}
      BY <2>0, <2>2 DEF LoadedOf, Handler, csa_web_TryLock
    <3>3. pc'[r] # "idle"
      BY <2>0, <2>s, <2>2, HandlerShape
         DEF Works, csa_web_TryLock, AfterLock, Answer, Handler, Goto, TypeOK
    <3> QED BY <2>0, <3>1, <3>2, <3>3 DEF LoadedOf, Handler
  <2>3. CASE csa_web_UnLock(r)
    BY <2>0, <2>s, <2>3 DEF LoadedOf, Expected, Handler, Goto, TypeOK, ControlOf,
       csa_web_UnLock, Answer
  <2>4. CASE Delete(r)
    BY <2>0, <2>s, <2>4 DEF LoadedOf, Expected, Handler, Goto, TypeOK, ControlOf,
       Delete, tables
  <2>5. CASE LoadGroupList(r)
    BY <2>0, <2>s, <2>5 DEF LoadedOf, Expected, Handler, Goto, TypeOK, ControlOf,
       LoadGroupList
  <2>6. CASE InsertGroup(r)
    <3>1. /\ pc[r] = "insert" /\ h.load \in {"own", "all"}
          /\ kind' = kind /\ reply' = reply /\ rows' = rows
          /\ h.work \in {"load_agents", "find"}
      BY <2>0, <2>s, <2>6 DEF InsertGroup, ControlOf, Handler
    <3>2. reply[r] = {} /\ groupstab \subseteq rows[r].groups
      BY <2>0, <3>1 DEF LoadedOf, Handler
    <3>3. CASE rows[r].groups \ groupstab = {}
      <4>1. Goto(r, h.work) /\ groupstab' = groupstab
        BY <2>6, <3>3 DEF InsertGroup, Handler
      <4>2. pc'[r] = h.work
        BY <4>1 DEF Goto, TypeOK
      <4>3. groupstab' = rows[r].groups
        BY <3>2, <3>3, <4>1
      <4> QED BY <3>1, <3>2, <4>2, <4>3, <2>0 DEF LoadedOf, Handler
    <3>4. CASE rows[r].groups \ groupstab # {}
      <4>1. /\ pc'[r] = "insert"
            /\ groupstab' \subseteq rows[r].groups
        BY <2>6, <3>1, <3>2, <3>4 DEF InsertGroup
      <4> QED BY <3>1, <3>2, <4>1, <2>0 DEF LoadedOf, Handler
    <3> QED BY <3>3, <3>4
  <2>7. CASE LoadAgentsList(r)
    BY <2>0, <2>s, <2>7 DEF LoadedOf, Expected, Handler, Goto, TypeOK, ControlOf,
       LoadAgentsList, tables
  <2>8. CASE InsertAgent(r)
    BY <2>0, <2>s, <2>8 DEF LoadedOf, Expected, Handler, Goto, TypeOK, ControlOf,
       InsertAgent
  <2>9. CASE First(r)
    BY <2>0, <2>s, <2>9 DEF LoadedOf, Expected, Handler, Goto, TypeOK, ControlOf,
       First, Begin, Tab, Walked
  <2>10. CASE Row(r)
    <3>1. /\ pc[r] = "row"
          /\ kind' = kind /\ rows' = rows /\ groupstab' = groupstab /\ it' = it
          /\ pc'[r] \in {"unlock", "nested", "next"}
      BY <2>10 DEF Row, Goto, TypeOK, tables
    <3>2. CASE h.load \in {"own", "all"}
      <4>1. kind[r] = "GroupList" /\ Walked(r) = "groups"
        BY <2>0, <2>s, <3>1, <3>2 DEF ControlOf, Handler, Walked
      <4>2. /\ it.groups \in groupstab \cup {End}
            /\ reply[r] = {g \in groupstab : g < it.groups}
            /\ groupstab = rows[r].groups
        BY <2>0, <3>1, <3>2 DEF LoadedOf, Handler
      <4>3. CASE it.groups = End
        <5>1. pc'[r] = "unlock" /\ reply' = reply
          BY <2>10, <4>1, <4>3 DEF Row, Goto, TypeOK
        <5>2. \A g \in groupstab : g < End
          BY <2>0
        <5> QED BY <2>0, <3>1, <3>2, <4>1, <4>2, <4>3, <5>1, <5>2
                DEF LoadedOf, Handler, Expected
      <4>4. CASE it.groups # End
        <5>1. pc'[r] = "next" /\ reply'[r] = reply[r] \cup {it.groups}
          BY <2>10, <4>1, <4>4 DEF Row, Goto, Found, TypeOK
        <5>2. it.groups \in groupstab
          BY <4>2, <4>4
        <5>3. reply'[r] = {g \in groupstab : g <= it.groups}
          BY <2>0, <4>2, <5>1, <5>2
        <5> QED BY <2>0, <3>1, <3>2, <4>1, <4>2, <5>1, <5>2, <5>3
                DEF LoadedOf, Handler
      <4> QED BY <4>3, <4>4
    <3>3. CASE h.load \notin {"own", "all"}
      BY <2>0, <3>1, <3>3 DEF LoadedOf, Handler
    <3> QED BY <3>2, <3>3
  <2>11. CASE Next_it(r)
    BY <2>0, <2>s, <2>11 DEF LoadedOf, Expected, Handler, Goto, TypeOK, ControlOf,
       Next_it, Successors, Tab, Walked
  <2>12. CASE NestedLock(r)
    BY <2>0, <2>s, <2>12 DEF LoadedOf, Expected, Handler, Goto, TypeOK, ControlOf,
       NestedLock, Answer
  <2>13. CASE RowEnd(r)
    BY <2>0, <2>s, <2>13 DEF LoadedOf, Expected, Handler, Goto, TypeOK, ControlOf,
       RowEnd
  <2>14. CASE Find(r)
    BY <2>0, <2>s, <2>14 DEF LoadedOf, Expected, Handler, Goto, TypeOK, ControlOf,
       Find, Found, tables
  <2>15. CASE VerifyGroupInLimitTab(r)
    BY <2>0, <2>s, <2>15 DEF LoadedOf, Expected, Handler, Goto, TypeOK, ControlOf,
       VerifyGroupInLimitTab
  <2>16. CASE GetERSVector(r)
    BY <2>0, <2>s, <2>16 DEF LoadedOf, Expected, Handler, Goto, TypeOK, ControlOf,
       GetERSVector
  <2>17. CASE AddNewGroupBlock(r)
    BY <2>0, <2>s, <2>17 DEF LoadedOf, Expected, Handler, Goto, TypeOK, ControlOf,
       AddNewGroupBlock, tables
  <2>18. CASE GetColor(r)
    BY <2>0, <2>s, <2>18 DEF LoadedOf, Expected, Handler, Goto, TypeOK, ControlOf,
       GetColor
  <2>19. CASE GotColor(r)
    BY <2>0, <2>s, <2>19 DEF LoadedOf, Expected, Handler, Goto, TypeOK, ControlOf,
       GotColor
  <2>20. CASE ReloadAll(r)
    BY <2>0, <2>s, <2>20 DEF LoadedOf, Expected, Handler, Goto, TypeOK, ControlOf,
       ReloadAll
  <2>21. CASE UnloadLimitsAndGroups(r)
    BY <2>0, <2>s, <2>21 DEF LoadedOf, Expected, Handler, Goto, TypeOK, ControlOf,
       UnloadLimitsAndGroups
  <2>22. CASE Init_LimitsByGroups(r)
    BY <2>0, <2>s, <2>22 DEF LoadedOf, Expected, Handler, Goto, TypeOK, ControlOf,
       Init_LimitsByGroups, Answer
  <2> QED BY <1>4, <2>1, <2>2, <2>3, <2>4, <2>5, <2>6, <2>7, <2>8, <2>9, <2>10,
             <2>11, <2>12, <2>13, <2>14, <2>15, <2>16, <2>17, <2>18, <2>19,
             <2>20, <2>21, <2>22 DEF Step
<1>5. ASSUME NEW r \in Requests, Serve(r) \/ Step(r) PROVE Loaded'
  <2> SUFFICES ASSUME NEW q \in Requests PROVE LoadedOf(q)'
    BY DEF Loaded
  <2>1. CASE q = r
    BY <1>3, <1>4, <1>5, <2>1
  <2>2. CASE q # r
    <3>1. /\ pc'[q] = pc[q] /\ kind'[q] = kind[q]
          /\ rows'[q] = rows[q] /\ asked'[q] = asked[q]
          /\ cause'[q] = cause[q] /\ reply'[q] = reply[q]
      BY <1>5, <2>2, OthersStay, OthersKeep
    <3>2. LoadedOf(q)
      BY DEF Loaded
    <3>3. CASE lock["groups"] = q
      <4>1. groupstab' = groupstab /\ it'.groups = it.groups
        BY <1>5, <2>2, <3>3, GroupsLeftAlone
      <4> QED BY <3>1, <3>2, <4>1 DEF LoadedOf, Expected, Handler
    <3>4. CASE lock["groups"] # q
      <4>1. ~ Holds(q, "groups") /\ kind[q] \in DOMAIN Handlers
        BY <3>4 DEF LocksHeld, Tables, TypeOK
      <4>2. Handler(q).load \in {"own", "all"} =>
              pc[q] \in {"idle", "ticket", "lock", "returned"}
        BY <4>1, HandlerShape DEF Holds, Handler
      <4> QED BY <3>1, <3>2, <4>2 DEF LoadedOf, Expected, Handler
    <3> QED BY <3>3, <3>4
  <2> QED BY <2>1, <2>2
<1> QED BY <1>1, <1>2, <1>5 DEF Next

(* A list of groups, and the names of groups, are those selected for the   *)
(* user, whatever other requests load into the shared table: as long as    *)
(* no request walks it without its lock.                                   *)
THEOREM GroupRepliesAreExact ==
  ASSUME NoUnlockedWalk
  PROVE  Spec => []GroupRepliesExact
<1>1. Init => Loaded
  BY AnyExist DEF Init, Loaded, LoadedOf, Handler
<1>2. TablesInv /\ Loaded /\ [Next]_vars => Loaded'
  BY LoadedStep, NoUnlockedWalk DEF TablesInv
<1>3. Loaded => GroupRepliesExact
  BY DEF Loaded, LoadedOf, Expected, GroupRepliesExact
<1> QED BY TablesInit, TablesStep, <1>1, <1>2, <1>3, PTL DEF Spec

-----------------------------------------------------------------------------
(* Why nobody waits for ever: the locks are always taken in one order.     *)

Rank == [agents |-> 1, groups |-> 2, limits |-> 3]

(* The step r does next may take the lock of t, waiting for it or trying. *)
Wants(r, t) ==
  \/ pc[r] = "lock" /\ t = Handler(r).lock
  \/ pc[r] = "nested" /\ t = "groups"
  \/ pc[r] \in {"verify", "colour", "reload_all"} /\ t = "limits"

LocksAscend ==
  \A r \in Requests, t \in Tables, u \in Tables :
    lock[t] = r /\ Wants(r, u) => Rank[t] < Rank[u]

(* A request that holds the lock of a table takes only locks of later ones *)
(* (agents, groups, limits).  So the requests that wait for each other     *)
(* never form a circle, and the lock of the limits, the only one that is   *)
(* waited for without limit, is held by one that waits for nothing.        *)
THEOREM LocksTakenInOrder == Spec => []LocksAscend
<1>1. TablesInv => LocksAscend
  <2> SUFFICES ASSUME TablesInv, NEW r \in Requests, NEW t \in Tables, NEW u \in Tables,
                      lock[t] = r, Wants(r, u)
               PROVE  Rank[t] < Rank[u]
    BY DEF LocksAscend
  <2>0. Holds(r, t) /\ ControlOf(r) /\ kind[r] \in DOMAIN Handlers
    BY DEF TablesInv, LocksHeld, Control, TypeOK
  <2>1. Handler(r).lock = "agents" => Handler(r).work # "verify"
    BY <2>0, HandlerShape DEF Handler
  <2> QED BY <2>0, <2>1, HandlerShape DEF Holds, ControlOf, Wants, Rank, Tables, Handler
<1> QED BY <1>1, TablesInit, TablesStep, PTL DEF Spec
=============================================================================
