-------------------------- MODULE SavedReportsProofs --------------------------
(***************************************************************************)
(* Proofs about SavedReports: for any users, reports and workspaces, any   *)
(* number of requests in progress and any statements that fail, the types, *)
(* that a saved report is kept, that an undisturbed delete is complete,    *)
(* and that a user loads the workspace he has saved.                       *)
(***************************************************************************)
EXTENDS SavedReports, TLAPS

(* Which steps a request takes, given what it asks. *)
Place(r) ==
  /\ pc[r] = "new" => call[r] = NoCall
  /\ Busy(r) => call[r] \in Calls
  /\ pc[r] = "done" => call[r] \in Calls \cup {NoCall}
  /\ pc[r] \in {"last", "allow", "exist", "update", "insert"} => call[r].op = "save"
  /\ pc[r] \in {"ask_hdr", "ask_web", "ask_allow", "del_web", "del_def_cfg_web",
                "del_hdr", "del_info", "del_def_cfg"} => call[r].op = "delete"
  /\ pc[r] \in {"ws_delete", "ws_insert"} => call[r].op = "workspace"
  /\ pc[r] \in {"load_new", "load_old"} => call[r].op = "load"
  /\ pc[r] \in {"exist", "update"} => Id(r) # 0
  /\ pc[r] \in {"allow", "exist", "update", "insert"} => last[r] # 0
  /\ pc[r] \notin {"ws_insert", "reply"} => next[r] = 1
  /\ saved[r] # 0 => pc[r] \in {"reply", "done"} /\ call[r].op = "save"

Places == \A r \in Requests : Place(r)

(* Requests that disturb each other and are both in progress know it. *)
Clash ==
  \A r, s \in Requests :
    r # s /\ Busy(r) /\ Busy(s) /\ Disturbed(call[r], call[s]) => ~clean[r]

(* Where an undisturbed delete has got to. *)
After(r, labels) ==
  \/ pc[r] \in labels
  \/ pc[r] = "reply" /\ call[r].op = "delete" /\ cause[r] = 0

GoneOf(r) ==
  /\ After(r, {"del_def_cfg_web", "del_hdr", "del_info", "del_def_cfg"}) => web[Id(r)] = NoRow
  /\ After(r, {"del_hdr", "del_info", "del_def_cfg"}) =>
       \A u \in Users : \A row \in def_cfg_web[u] : row[2] # Id(r)
  /\ After(r, {"del_info", "del_def_cfg"}) => OldCreatorOf(Id(r)) = NoOne
  /\ After(r, {"del_def_cfg"}) => Id(r) \notin info
  /\ After(r, {}) => \A u \in Users : \A row \in def_cfg[u] : row[2] # Id(r)

Gone == \A r \in Requests : clean[r] => GoneOf(r)

(* What a user wants is what the table has, and nobody is changing it; an  *)
(* undisturbed workspace has been inserted as far as it has come.          *)
Wanted ==
  \A u \in Users : want[u] # Unknown =>
    /\ def_cfg_web[u] = want[u]
    /\ \A r \in Requests : User(r) = u => pc[r] \notin {"ws_delete", "ws_insert"}

Inserted ==
  \A r \in Requests : pc[r] = "ws_insert" /\ clean[r] =>
    def_cfg_web[User(r)] = {<<n, Items(r)[n]>> : n \in 1..(next[r] - 1)}

(* An undisturbed load shows what is wanted. *)
Loads ==
  \A r \in Requests :
    call[r].op = "load" /\ clean[r] /\ Busy(r) /\ want[User(r)] # Unknown =>
      /\ pc[r] = "load_old" => want[User(r)] = {}
      /\ pc[r] = "reply" =>
           shown[r] = IF want[User(r)] = {} THEN def_cfg[User(r)] ELSE want[User(r)]

(* What an undisturbed save or delete has found out still holds when it    *)
(* comes to write the row.                                                 *)
Undisturbed(r) == clean[r] /\ Id(r) < ShortIds /\ ~DeletedByAnother(r)

RightsOf(r) ==
  /\ allow[r] => call[r].op = "save" /\ User(r) \in Publishers
  /\ pc[r] = "update" =>
       IF call[r].isPublic THEN allow[r]
       ELSE clean[r] => web[Id(r)] # NoRow /\ web[Id(r)].creator # PUBLIC_OWNER_ID
  /\ Undisturbed(r) =>
       /\ pc[r] = "ask_web" => OldCreatorOf(Id(r)) = NoOne
       /\ pc[r] = "ask_allow" => CreatorOf(Id(r)) = PUBLIC_OWNER_ID
       /\ pc[r] = "del_web" => MayDelete(User(r), Id(r))

Rights == \A r \in Requests : RightsOf(r)

ReportsInv ==
  /\ TypeOK /\ Places /\ Clash /\ SavedIsKept /\ Gone /\ Wanted /\ Inserted /\ Loads
  /\ Rights

-----------------------------------------------------------------------------
(* What clients can ask.                                                   *)

SaveSteps      == {"last", "allow", "exist", "update", "insert"}
AskSteps       == {"ask_hdr", "ask_web", "ask_allow"}
DeleteSteps    == {"del_web", "del_def_cfg_web", "del_hdr", "del_info", "del_def_cfg"}
WorkspaceSteps == {"ws_delete", "ws_insert"}
LoadSteps      == {"load_new", "load_old"}

(* The steps of the four operations, and where a request is otherwise. *)
LEMMA PcsAre ==
  Pcs = SaveSteps \cup AskSteps \cup DeleteSteps \cup WorkspaceSteps \cup LoadSteps
        \cup {"new", "reply", "done"}
<1>1. {Deletes[n] : n \in 1..5} = DeleteSteps
  <2>1. 1..5 = {1, 2, 3, 4, 5}
    OBVIOUS
  <2>2. /\ Deletes[1] = "del_web" /\ Deletes[2] = "del_def_cfg_web"
        /\ Deletes[3] = "del_hdr" /\ Deletes[4] = "del_info" /\ Deletes[5] = "del_def_cfg"
    BY DEF Deletes
  <2> QED BY <2>1, <2>2 DEF DeleteSteps
<1> QED BY <1>1 DEF Pcs, SaveSteps, AskSteps, DeleteSteps, WorkspaceSteps, LoadSteps

LEMMA CallShape ==
  ASSUME NEW c \in Calls
  PROVE  /\ c.op \in {"save", "delete", "workspace", "load"}
         /\ c.user \in Users
         /\ c.id \in ClientIds \cup {0}
         /\ c.op = "delete" => c.id \in ClientIds
         /\ c.op \in {"workspace", "load"} => c.id = 0
         /\ c.isPublic \in BOOLEAN
         /\ c.items \in Seq(ClientIds)
<1>1. <<>> \in Seq(ClientIds)
  OBVIOUS
<1>2. c.items \in Workspaces \cup {<<>>}
  BY DEF Calls
<1> QED BY <1>1, <1>2, ReportsAssumption DEF Calls

LEMMA NoCallShape ==
  /\ NoCall.op = "none" /\ NoCall.id = 0 /\ NoCall.items = <<>> /\ NoCall.user = NoOne
  /\ Len(NoCall.items) = 0
  BY DEF NoCall

LEMMA IdsAre ==
  /\ ClientIds \subseteq Ids /\ OldIds \subseteq Ids /\ Ids \subseteq Nat
  /\ 0 \notin Ids /\ FIRST_REPORT_ID + 1 \in Ids
  BY ReportsAssumption DEF Ids

(* The steps of DeleteReport, one after the other. *)
LEMMA NextDelete ==
  /\ AfterDelete("del_web") = "del_def_cfg_web"
  /\ AfterDelete("del_def_cfg_web") = "del_hdr"
  /\ AfterDelete("del_hdr") = "del_info"
  /\ AfterDelete("del_info") = "del_def_cfg"
  /\ AfterDelete("del_def_cfg") = "reply"
<1>1. /\ Deletes[1] = "del_web" /\ Deletes[2] = "del_def_cfg_web"
      /\ Deletes[3] = "del_hdr" /\ Deletes[4] = "del_info" /\ Deletes[5] = "del_def_cfg"
  BY DEF Deletes
<1>2. 1..5 = {1, 2, 3, 4, 5}
  OBVIOUS
<1>3. ASSUME NEW n \in 1..5 PROVE (CHOOSE m \in 1..5 : Deletes[m] = Deletes[n]) = n
  <2>1. \A m \in 1..5 : Deletes[m] = Deletes[n] => m = n
    BY <1>1, <1>2
  <2> QED BY <2>1
<1>4. ASSUME NEW n \in 1..5
      PROVE  AfterDelete(Deletes[n]) = IF n = 5 THEN "reply" ELSE Deletes[n + 1]
  <2> DEFINE m == CHOOSE m \in 1..5 : Deletes[m] = Deletes[n]
  <2>1. AfterDelete(Deletes[n]) = IF m = 5 THEN "reply" ELSE Deletes[m + 1]
    BY DEF AfterDelete
  <2>2. m = n
    BY <1>3
  <2> HIDE DEF m
  <2> QED BY <2>1, <2>2
<1> QED BY <1>1, <1>2, <1>4

LEMMA DeleteStep ==
  ASSUME NEW r, DeleteRows(r)
  PROVE  pc[r] \in DeleteSteps /\ AfterDelete(pc[r]) \in DeleteSteps \cup {"reply"}
<1>1. 1..5 = {1, 2, 3, 4, 5}
  OBVIOUS
<1>2. pc[r] \in DeleteSteps
  BY <1>1 DEF DeleteRows, Deletes, DeleteSteps
<1> QED BY <1>2, NextDelete DEF DeleteSteps

-----------------------------------------------------------------------------
(* A step of one request leaves what the others keep.                      *)

LEMMA OthersKeep ==
  ASSUME TypeOK, NEW r \in Requests, Step(r)
  PROVE  /\ \A q \in Requests \ {r} :
              /\ pc'[q] = pc[q] /\ call'[q] = call[q] /\ last'[q] = last[q]
              /\ next'[q] = next[q] /\ cause'[q] = cause[q] /\ saved'[q] = saved[q]
              /\ shown'[q] = shown[q] /\ clean'[q] = clean[q]
         /\ pc[r] # "reply" => call'[r] = call[r]
         /\ pc[r] # "reply" /\ clean'[r] => clean[r]
<1> USE DEF TypeOK, Goto, Reply, Failed, Executed, db
<1>1. CASE GetLastReportNumber(r) \/ IsAllowPublic(r) \/ IsReportExist(r)
  BY <1>1 DEF GetLastReportNumber, IsAllowPublic, IsReportExist, Decide
<1>2. CASE UpdateReport(r) \/ SaveNewReport(r)
  BY <1>2 DEF UpdateReport, SaveNewReport, Wrote
<1>3. CASE AskHdr(r) \/ AskWeb(r) \/ AskAllow(r)
  BY <1>3 DEF AskHdr, AskWeb, AskAllow, Found
<1>4. CASE DeleteRows(r)
  BY <1>4 DEF DeleteRows
<1>5. CASE DeleteWorkspace(r) \/ InsertWorkspace(r) \/ EndWorkspace(r)
  BY <1>5 DEF DeleteWorkspace, InsertWorkspace, EndWorkspace
<1>6. CASE TryLoadNewDefConf(r) \/ LoadOldDefConf(r)
  BY <1>6 DEF TryLoadNewDefConf, LoadOldDefConf
<1>7. CASE Answer(r)
  BY <1>7 DEF Answer
<1> QED BY <1>1, <1>2, <1>3, <1>4, <1>5, <1>6, <1>7 DEF Step

(* What a request in progress asks. *)
LEMMA Asked ==
  ASSUME TypeOK, Places, NEW r \in Requests, Busy(r)
  PROVE  /\ call[r] \in Calls
         /\ User(r) \in Users
         /\ Items(r) \in Seq(ClientIds)
         /\ call[r].isPublic \in BOOLEAN
         /\ Id(r) \in Ids \cup {0}
         /\ call[r].op = "delete" => Id(r) \in Ids
<1>1. call[r] \in Calls
  BY DEF Places, Place
<1> QED BY <1>1, CallShape, IdsAre DEF User, Items, Id

LEMMA Written ==
  ASSUME TypeOK, Places, NEW r \in Requests, pc[r] \in SaveSteps
  PROVE  /\ RowOf(r) \in [creator : Creators, writer : Requests \cup {NoOne}]
         /\ RowOf(r) # NoRow
         /\ pc[r] = "insert" => NewId(r) \in Ids
         /\ pc[r] \in {"exist", "update"} => Id(r) \in Ids
<1>1. Busy(r)
  BY DEF Busy, SaveSteps
<1>2. Place(r) /\ last[r] \in 0..MaxId
  BY DEF Places, TypeOK
<1>3. User(r) \in Users /\ Id(r) \in Ids \cup {0}
  BY <1>1, Asked
<1>4. RowOf(r).writer = r
  BY DEF RowOf
<1>5. NoOne \notin Requests
  BY ReportsAssumption
<1>6. pc[r] = "insert" => NewId(r) \in Ids
  BY <1>2, <1>3, ReportsAssumption DEF Place, NewId, Ids, SaveSteps
<1>7. pc[r] \in {"exist", "update"} => Id(r) \in Ids
  BY <1>2, <1>3 DEF Place
<1>8. RowOf(r) \in [creator : Creators, writer : Requests \cup {NoOne}]
  BY <1>3 DEF RowOf, Creators
<1>9. RowOf(r) # NoRow
  BY <1>4, <1>5 DEF NoRow
<1> QED BY <1>6, <1>7, <1>8, <1>9

(* What every step does: it is executed or fails, and goes on to a step. *)
Causes == {0, 1, 2, 6, 301, 302, 303}

LEMMA Outcome ==
  ASSUME NEW r \in Requests, Step(r)
  PROVE  /\ Failed(r) \/ Executed \/ Answer(r)
         /\ UNCHANGED pc \/ \E there \in Pcs : Goto(r, there)
         /\ UNCHANGED cause \/ \E error \in Causes : cause' = [cause EXCEPT ![r] = error]
<1>1. /\ \A l \in SaveSteps \cup AskSteps \cup DeleteSteps \cup WorkspaceSteps \cup LoadSteps : l \in Pcs
      /\ "reply" \in Pcs /\ "done" \in Pcs
  BY PcsAre
<1>2. CASE GetLastReportNumber(r) \/ IsAllowPublic(r) \/ IsReportExist(r)
  <2>1. "allow" \in Pcs /\ "exist" \in Pcs /\ "insert" \in Pcs /\ "update" \in Pcs
    BY <1>1 DEF SaveSteps
  <2> QED BY <1>1, <1>2, <2>1
           DEF GetLastReportNumber, IsAllowPublic, IsReportExist, Decide, Reply, Causes
<1>3. CASE UpdateReport(r) \/ SaveNewReport(r)
  BY <1>1, <1>3 DEF UpdateReport, SaveNewReport, Wrote, Reply, Causes
<1>4. CASE AskHdr(r) \/ AskWeb(r) \/ AskAllow(r)
  <2>1. "ask_web" \in Pcs /\ "ask_allow" \in Pcs /\ "del_web" \in Pcs
    BY <1>1 DEF AskSteps, DeleteSteps
  <2> QED BY <1>1, <1>4, <2>1 DEF AskHdr, AskWeb, AskAllow, Found, Reply, Causes
<1>5. CASE DeleteRows(r)
  <2>1. AfterDelete(pc[r]) \in Pcs
    BY <1>5, DeleteStep, PcsAre
  <2> QED BY <1>5, <2>1 DEF DeleteRows
<1>6. CASE DeleteWorkspace(r) \/ InsertWorkspace(r) \/ EndWorkspace(r)
  <2>1. "ws_insert" \in Pcs
    BY <1>1 DEF WorkspaceSteps
  <2> QED BY <1>1, <1>6, <2>1
           DEF DeleteWorkspace, InsertWorkspace, EndWorkspace, Reply, Causes, Executed
<1>7. CASE TryLoadNewDefConf(r) \/ LoadOldDefConf(r)
  <2>1. "load_old" \in Pcs
    BY <1>1 DEF LoadSteps
  <2> QED BY <1>1, <1>7, <2>1 DEF TryLoadNewDefConf, LoadOldDefConf, Reply, Causes
<1>8. CASE Answer(r)
  BY <1>1, <1>8 DEF Answer, Causes
<1> QED BY <1>2, <1>3, <1>4, <1>5, <1>6, <1>7, <1>8 DEF Step

LEMMA ControlTypes ==
  ASSUME TypeOK, NEW r \in Requests, Step(r)
  PROVE  /\ pc' \in [Requests -> Pcs] /\ cause' \in [Requests -> Causes]
         /\ failures' \in 0..MaxFailures /\ clean' \in [Requests -> BOOLEAN]
<1>1. pc' \in [Requests -> Pcs]
  <2>1. pc \in [Requests -> Pcs]
    BY DEF TypeOK
  <2>2. UNCHANGED pc \/ \E there \in Pcs : pc' = [pc EXCEPT ![r] = there]
    BY Outcome DEF Goto
  <2> QED BY <2>1, <2>2
<1>2. cause' \in [Requests -> Causes]
  <2>1. cause \in [Requests -> Causes]
    BY DEF TypeOK, Causes
  <2>2. UNCHANGED cause \/ \E error \in Causes : cause' = [cause EXCEPT ![r] = error]
    BY Outcome
  <2> QED BY <2>1, <2>2
<1>3. MaxFailures \in Nat
  BY ReportsAssumption
<1>4. failures' \in 0..MaxFailures /\ clean' \in [Requests -> BOOLEAN]
  <2>1. CASE Failed(r)
    BY <1>3, <2>1 DEF Failed, TypeOK
  <2>2. CASE Executed
    BY <2>2 DEF Executed, TypeOK
  <2>3. CASE Answer(r)
    BY <2>3 DEF Answer, TypeOK
  <2> QED BY <2>1, <2>2, <2>3, Outcome
<1> QED BY <1>1, <1>2, <1>4

Databases ==
  /\ web \in [Ids -> [creator : Creators, writer : Requests \cup {NoOne}]]
  /\ def_cfg_web \in [Users -> WorkspaceRows]
  /\ hdr \in [OldIds -> Creators]
  /\ info \subseteq OldIds
  /\ def_cfg \in [Users -> WorkspaceRows]
  /\ want \in [Users -> WorkspaceRows \cup {Unknown}]

Locals ==
  /\ call \in [Requests -> Calls \cup {NoCall}]
  /\ last \in [Requests -> 0..MaxId]
  /\ allow \in [Requests -> BOOLEAN]
  /\ next \in [Requests -> Nat]
  /\ \A r \in Requests : next[r] \in 1..(Len(call[r].items) + 1)
  /\ saved \in [Requests -> 0..MaxId]
  /\ shown \in [Requests -> WorkspaceRows]

LEMMA SaveTypes ==
  ASSUME TypeOK, Places, NEW r \in Requests, Databases, Locals,
         \/ GetLastReportNumber(r) \/ IsAllowPublic(r) \/ IsReportExist(r)
         \/ UpdateReport(r) \/ SaveNewReport(r)
  PROVE  Databases' /\ Locals'
<1>1. Ids \subseteq 0..MaxId /\ FIRST_REPORT_ID + 1 \in 0..MaxId
  BY IdsAre, ReportsAssumption DEF Ids
<1>2. CASE GetLastReportNumber(r)
  <2>1. last' \in [Requests -> 0..MaxId]
    BY <1>1, <1>2 DEF GetLastReportNumber, Locals
  <2> QED BY <1>2, <2>1 DEF GetLastReportNumber, db, Databases, Locals
<1>3. CASE IsAllowPublic(r)
  <2>1. allow' \in [Requests -> BOOLEAN]
    <3>1. UNCHANGED allow \/ allow' = [allow EXCEPT ![r] = User(r) \in Publishers]
      BY <1>3 DEF IsAllowPublic
    <3>2. (User(r) \in Publishers) \in BOOLEAN
      OBVIOUS
    <3> DEFINE right == User(r) \in Publishers
    <3> HIDE DEF right
    <3>3. right \in BOOLEAN /\ (UNCHANGED allow \/ allow' = [allow EXCEPT ![r] = right])
      BY <3>1, <3>2 DEF right
    <3> QED BY <3>3 DEF Locals
  <2> QED BY <1>3, <2>1 DEF IsAllowPublic, db, Databases, Locals
<1>4. CASE IsReportExist(r)
  BY <1>4 DEF IsReportExist, db, Databases, Locals
<1>5. CASE UpdateReport(r) \/ SaveNewReport(r)
  <2>1. pc[r] \in SaveSteps
    BY <1>5 DEF UpdateReport, SaveNewReport, SaveSteps
  <2>2. \E k \in Ids : Wrote(r, k) \/ UNCHANGED <<web, saved>>
    BY <1>5, <2>1, Written, IdsAre DEF UpdateReport, SaveNewReport
  <2>3. UNCHANGED <<def_cfg_web, hdr, info, def_cfg, call, last, allow, next, shown, want>>
    BY <1>5 DEF UpdateReport, SaveNewReport
  <2>4. RowOf(r) \in [creator : Creators, writer : Requests \cup {NoOne}]
    BY <2>1, Written
  <2>5. web' \in [Ids -> [creator : Creators, writer : Requests \cup {NoOne}]]
    BY <2>2, <2>4 DEF Wrote, Databases
  <2>6. saved' \in [Requests -> 0..MaxId]
    BY <1>1, <2>2 DEF Wrote, Locals
  <2> QED BY <2>3, <2>5, <2>6 DEF Databases, Locals
<1> QED BY <1>2, <1>3, <1>4, <1>5

LEMMA DeleteTypes ==
  ASSUME Databases, Locals, NEW r \in Requests,
         AskHdr(r) \/ AskWeb(r) \/ AskAllow(r) \/ DeleteRows(r)
  PROVE  Databases' /\ Locals'
<1>1. CASE AskHdr(r) \/ AskWeb(r) \/ AskAllow(r)
  BY <1>1 DEF AskHdr, AskWeb, AskAllow, db, Databases, Locals
<1>2. CASE DeleteRows(r)
  <2>1. Locals'
    BY <1>2 DEF DeleteRows, Locals
  <2>2. NoRow \in [creator : Creators, writer : Requests \cup {NoOne}] /\ NoOne \in Creators
    BY DEF NoRow, Creators
  <2>3. \A rows \in WorkspaceRows : Without(rows, Id(r)) \in WorkspaceRows
    BY DEF Without, WorkspaceRows
  <2>4. CASE UNCHANGED <<db, want>>
    BY <2>1, <2>4 DEF db, Databases
  <2>5. CASE ~UNCHANGED <<db, want>>
    <3>1. web' \in [Ids -> [creator : Creators, writer : Requests \cup {NoOne}]]
      BY <1>2, <2>2, <2>5 DEF DeleteRows, Databases
    <3>2. hdr' \in [OldIds -> Creators]
      BY <1>2, <2>2, <2>5 DEF DeleteRows, Databases
    <3>3. info' \subseteq OldIds
      BY <1>2, <2>5 DEF DeleteRows, Databases
    <3>4. def_cfg_web' \in [Users -> WorkspaceRows]
      BY <1>2, <2>3, <2>5 DEF DeleteRows, Databases
    <3>5. def_cfg' \in [Users -> WorkspaceRows]
      BY <1>2, <2>3, <2>5 DEF DeleteRows, Databases
    <3>6. want' \in [Users -> WorkspaceRows \cup {Unknown}]
      <4>1. \A u \in Users : want[u] \in WorkspaceRows \cup {Unknown}
        BY DEF Databases
      <4>2. \A u \in Users : want[u] # Unknown => Without(want[u], Id(r)) \in WorkspaceRows
        BY <2>3, <4>1
      <4> QED BY <1>2, <2>5, <4>1, <4>2 DEF DeleteRows
    <3> QED BY <2>1, <3>1, <3>2, <3>3, <3>4, <3>5, <3>6 DEF Databases
  <2> QED BY <2>4, <2>5
<1> QED BY <1>1, <1>2

LEMMA WorkspaceTypes ==
  ASSUME TypeOK, Places, Databases, Locals, NEW r \in Requests,
         \/ DeleteWorkspace(r) \/ InsertWorkspace(r) \/ EndWorkspace(r)
         \/ TryLoadNewDefConf(r) \/ LoadOldDefConf(r)
  PROVE  Databases' /\ Locals'
<1>1. Busy(r)
  BY DEF DeleteWorkspace, InsertWorkspace, EndWorkspace, TryLoadNewDefConf, LoadOldDefConf, Busy
<1>2. User(r) \in Users /\ Items(r) \in Seq(ClientIds)
  BY <1>1, Asked
<1>3. \A n \in 1..Len(Items(r)) : <<n, Items(r)[n]>> \in Nat \X Ids
  <2> SUFFICES ASSUME NEW n \in 1..Len(Items(r)) PROVE Items(r)[n] \in Ids /\ n \in Nat
    OBVIOUS
  <2>1. Len(Items(r)) \in Nat
    BY <1>2
  <2>2. n \in Nat
    BY <2>1
  <2>3. Items(r)[n] \in ClientIds
    BY <1>2
  <2> QED BY <2>2, <2>3, IdsAre
<1>4. CASE DeleteWorkspace(r)
  <2>1. {} \in WorkspaceRows
    BY DEF WorkspaceRows
  <2>2. def_cfg_web' \in [Users -> WorkspaceRows]
    BY <1>4, <2>1 DEF DeleteWorkspace, Databases
  <2> QED BY <1>4, <2>2 DEF DeleteWorkspace, Databases, Locals
<1>5. CASE InsertWorkspace(r)
  <2>1. next[r] \in 1..Len(Items(r))
    BY <1>2, <1>5 DEF InsertWorkspace, Locals
  <2>2. def_cfg_web[User(r)] \cup {<<next[r], Items(r)[next[r]]>>} \in WorkspaceRows
    BY <1>2, <1>3, <2>1 DEF WorkspaceRows, Databases
  <2>3. def_cfg_web' \in [Users -> WorkspaceRows]
    BY <1>5, <2>2 DEF InsertWorkspace, Databases
  <2>4. UNCHANGED call
    BY <1>5 DEF InsertWorkspace
  <2>5. next' = next \/ next' = [next EXCEPT ![r] = next[r] + 1]
    BY <1>5 DEF InsertWorkspace
  <2>6. Len(Items(r)) \in Nat
    BY <1>2
  <2>7. next[r] + 1 \in 1..(Len(call[r].items) + 1)
    BY <2>1, <2>6 DEF Items
  <2>8. next' \in [Requests -> Nat] /\ \A q \in Requests : next'[q] \in 1..(Len(call'[q].items) + 1)
    <3>1. CASE next' = next
      BY <2>4, <3>1 DEF Locals
    <3>2. CASE next' = [next EXCEPT ![r] = next[r] + 1]
      <4>1. next' \in [Requests -> Nat]
        BY <3>2 DEF Locals
      <4>2. \A q \in Requests : q # r => next'[q] = next[q]
        BY <3>2 DEF Locals
      <4>3. next'[r] = next[r] + 1
        BY <3>2 DEF Locals
      <4> QED BY <2>4, <2>7, <4>1, <4>2, <4>3 DEF Locals
    <3> QED BY <2>5, <3>1, <3>2
  <2> QED BY <1>5, <2>3, <2>4, <2>8 DEF InsertWorkspace, Databases, Locals
<1>6. CASE EndWorkspace(r)
  <2>1. DOMAIN Items(r) = 1..Len(Items(r))
    BY <1>2
  <2>2. Rows(Items(r)) \in WorkspaceRows
    BY <1>3, <2>1 DEF Rows, WorkspaceRows
  <2>3. want' \in [Users -> WorkspaceRows \cup {Unknown}]
    BY <1>6, <2>2 DEF EndWorkspace, Databases
  <2> QED BY <1>6, <2>3 DEF EndWorkspace, db, Databases, Locals
<1>7. CASE TryLoadNewDefConf(r) \/ LoadOldDefConf(r)
  <2>1. shown' \in [Requests -> WorkspaceRows]
    BY <1>2, <1>7 DEF TryLoadNewDefConf, LoadOldDefConf, Databases, Locals
  <2> QED BY <1>7, <2>1 DEF TryLoadNewDefConf, LoadOldDefConf, db, Databases, Locals
<1> QED BY <1>4, <1>5, <1>6, <1>7

LEMMA AnswerTypes ==
  ASSUME Databases, Locals, NEW r \in Requests, Answer(r)
  PROVE  Databases' /\ Locals'
<1>1. {} \in WorkspaceRows /\ 0 \in 0..MaxId
  BY ReportsAssumption DEF WorkspaceRows
<1>2. \A q \in Requests :
        call'[q] = call[q] \/ call'[q] = NoCall
  BY DEF Answer, Locals
<1>3. DOMAIN call' = Requests /\ call' \in [Requests -> Calls \cup {NoCall}]
  BY <1>2 DEF Answer, Locals
<1>4. next' = [next EXCEPT ![r] = 1]
  BY DEF Answer
<1>5. \A q \in Requests : Len(call'[q].items) \in Nat
  <2> SUFFICES ASSUME NEW q \in Requests PROVE Len(call'[q].items) \in Nat
    OBVIOUS
  <2>1. CASE call'[q] \in Calls
    <3>1. call'[q].items \in Seq(ClientIds)
      BY <2>1, CallShape
    <3> QED BY <3>1
  <2>2. CASE call'[q] = NoCall
    BY <2>2, NoCallShape
  <2> QED BY <1>3, <2>1, <2>2
<1>6. ASSUME NEW q \in Requests PROVE next'[q] \in 1..(Len(call'[q].items) + 1)
  <2>1. CASE q = r
    BY <1>4, <1>5, <2>1 DEF Locals
  <2>2. CASE q # r
    <3>1. call'[q] = call[q] /\ next'[q] = next[q]
      BY <1>4, <2>2 DEF Answer, Locals
    <3> QED BY <3>1 DEF Locals
  <2> QED BY <2>1, <2>2
<1>7. next' \in [Requests -> Nat]
  BY <1>4 DEF Locals
<1>8. last' \in [Requests -> 0..MaxId] /\ allow' \in [Requests -> BOOLEAN]
      /\ shown' \in [Requests -> WorkspaceRows] /\ UNCHANGED <<db, saved, want>>
  BY <1>1 DEF Answer, Locals
<1> QED BY <1>3, <1>6, <1>7, <1>8 DEF db, Databases, Locals

LEMMA StepTypes ==
  ASSUME TypeOK, Places, NEW r \in Requests, Step(r)
  PROVE  TypeOK'
<1>1. Databases /\ Locals
  BY DEF TypeOK, Databases, Locals
<1>2. Databases' /\ Locals'
  BY <1>1, SaveTypes, DeleteTypes, WorkspaceTypes, AnswerTypes DEF Step
<1> QED BY <1>2, ControlTypes DEF TypeOK, Databases, Locals, Causes

LEMMA CallTypes ==
  ASSUME TypeOK, NEW r \in Requests, NEW c \in Calls, Call(r, c), pc[r] = "new" => next[r] = 1
  PROVE  TypeOK'
<1> USE DEF TypeOK
<1>1. c.items \in Seq(ClientIds) /\ c.op \in {"save", "delete", "workspace", "load"}
  BY CallShape
<1>2. pc' \in [Requests -> Pcs]
  BY <1>1, PcsAre DEF Call, Goto, SaveSteps, AskSteps, WorkspaceSteps, LoadSteps
<1>3. call' \in [Requests -> Calls \cup {NoCall}] /\ next' = next
  BY DEF Call
<1>4. \A q \in Requests : next'[q] \in 1..(Len(call'[q].items) + 1)
  BY <1>1 DEF Call
<1>5. clean' \in [Requests -> BOOLEAN]
  BY DEF Call
<1>6. want' \in [Users -> WorkspaceRows \cup {Unknown}]
  BY DEF Call
<1> QED BY <1>2, <1>3, <1>4, <1>5, <1>6 DEF Call, db

-----------------------------------------------------------------------------
(* The steps of a request follow its operation.                            *)

LEMMA StepBusy ==
  ASSUME NEW r \in Requests, Step(r)
  PROVE  Busy(r)
<1>1. \A l \in DeleteSteps : l \notin {"new", "done"}
  BY DEF DeleteSteps
<1>2. DeleteRows(r) => pc[r] \in DeleteSteps
  BY DeleteStep
<1>3. ~DeleteRows(r) => pc[r] \notin {"new", "done"}
  BY DEF Step, GetLastReportNumber, IsAllowPublic, IsReportExist, UpdateReport, SaveNewReport,
         AskHdr, AskWeb, AskAllow, DeleteWorkspace, InsertWorkspace, EndWorkspace,
         TryLoadNewDefConf, LoadOldDefConf, Answer
<1> QED BY <1>1, <1>2, <1>3 DEF Busy

LEMMA OwnPlace ==
  ASSUME TypeOK, Places, NEW r \in Requests, Step(r)
  PROVE  Place(r)'
<1>2. Place(r) /\ Busy(r) /\ call[r] \in Calls
  BY StepBusy, Asked DEF Places
<1>3. call[r].op \in {"save", "delete", "workspace", "load"}
  BY <1>2, CallShape
<1>4. pc[r] # "reply" => saved[r] = 0
  BY <1>2 DEF Place, Busy
<1>5. /\ pc[r] # "reply" => call'[r] = call[r]
      /\ pc \in [Requests -> Pcs] /\ last \in [Requests -> 0..MaxId]
      /\ saved \in [Requests -> 0..MaxId] /\ next \in [Requests -> Nat]
      /\ call \in [Requests -> Calls \cup {NoCall}]
  BY OthersKeep DEF TypeOK
<1> USE DEF Goto, Reply
<1>6. CASE GetLastReportNumber(r)
  <2>1. Ids \subseteq 1..MaxId /\ FIRST_REPORT_ID + 1 # 0
    BY ReportsAssumption DEF Ids
  <2> QED BY <1>2, <1>4, <1>5, <1>6, <2>1 DEF GetLastReportNumber, Place, Busy, Id
<1>7. CASE IsAllowPublic(r)
  BY <1>2, <1>4, <1>5, <1>7 DEF IsAllowPublic, Place, Busy, Id
<1>8. CASE IsReportExist(r)
  BY <1>2, <1>4, <1>5, <1>8 DEF IsReportExist, Decide, Place, Busy, Id
<1>9. CASE UpdateReport(r) \/ SaveNewReport(r)
  BY <1>2, <1>5, <1>9 DEF UpdateReport, SaveNewReport, Wrote, Place, Busy, Id
<1>10. CASE AskHdr(r) \/ AskWeb(r) \/ AskAllow(r)
  BY <1>2, <1>4, <1>5, <1>10 DEF AskHdr, AskWeb, AskAllow, Found, Place, Busy, Id
<1>11. CASE DeleteRows(r)
  <2>1. pc'[r] \in {"del_def_cfg_web", "del_hdr", "del_info", "del_def_cfg", "reply"}
    BY <1>5, <1>11, DeleteStep, NextDelete DEF DeleteRows, DeleteSteps
  <2>2. next'[r] = 1 /\ saved'[r] = 0 /\ call[r].op = "delete" /\ call'[r] = call[r]
    BY <1>2, <1>4, <1>11, DeleteStep DEF DeleteRows, DeleteSteps, Place
  <2> QED BY <1>2, <2>1, <2>2 DEF Place, Busy, Id
<1>12. CASE DeleteWorkspace(r) \/ InsertWorkspace(r) \/ EndWorkspace(r)
  BY <1>2, <1>4, <1>5, <1>12 DEF DeleteWorkspace, InsertWorkspace, EndWorkspace, Place, Busy, Id
<1>13. CASE TryLoadNewDefConf(r) \/ LoadOldDefConf(r)
  BY <1>2, <1>4, <1>5, <1>13 DEF TryLoadNewDefConf, LoadOldDefConf, Place, Busy, Id
<1>14. CASE Answer(r)
  <2>1. pc'[r] = "done" /\ next'[r] = 1 /\ saved'[r] = saved[r]
    BY <1>5, <1>14 DEF Answer
  <2>2. call'[r] = IF call[r].op \in {"save", "delete"} THEN call[r] ELSE NoCall
    BY <1>5, <1>14 DEF Answer
  <2> QED BY <1>2, <2>1, <2>2 DEF Place, Busy, Id
<1> QED BY <1>6, <1>7, <1>8, <1>9, <1>10, <1>11, <1>12, <1>13, <1>14 DEF Step

LEMMA StepPlaces ==
  ASSUME TypeOK, Places, NEW r \in Requests, Step(r)
  PROVE  Places'
<1>1. ASSUME NEW q \in Requests, q # r PROVE Place(q)'
  BY <1>1, OthersKeep DEF Places, Place, Busy, Id
<1> QED BY <1>1, OwnPlace DEF Places

(* A request that arrives takes the first step of its operation. *)
LEMMA Arrival ==
  ASSUME TypeOK, Places, NEW r \in Requests, NEW c \in Calls, Call(r, c)
  PROVE  /\ pc[r] = "new" /\ call[r] = NoCall /\ next[r] = 1 /\ saved[r] = 0
         /\ pc'[r] \in {"last", "ask_hdr", "ws_delete", "load_new"}
         /\ call'[r] = c
         /\ pc'[r] = "last" => c.op = "save"
         /\ pc'[r] = "ask_hdr" => c.op = "delete"
         /\ pc'[r] = "ws_delete" <=> c.op = "workspace"
         /\ pc'[r] = "load_new" => c.op = "load"
         /\ \A q \in Requests \ {r} :
              pc'[q] = pc[q] /\ call'[q] = call[q] /\ (clean'[q] => clean[q])
         /\ UNCHANGED <<db, last, allow, next, cause, saved, shown, failures>>
<1>1. c.op \in {"save", "delete", "workspace", "load"}
  BY CallShape
<1>2. pc[r] = "new" /\ call[r] = NoCall /\ next[r] = 1 /\ saved[r] = 0
  BY DEF Call, Places, Place
<1>3. UNCHANGED <<db, last, allow, next, cause, saved, shown, failures>>
  BY DEF Call
<1>4. /\ call'[r] = c
      /\ \A q \in Requests \ {r} : pc'[q] = pc[q] /\ call'[q] = call[q]
  BY DEF Call, Goto, TypeOK
<1>5. \A q \in Requests \ {r} : clean'[q] => clean[q]
  BY DEF Call, TypeOK
<1>6. CASE c.op = "save"
  BY <1>2, <1>3, <1>4, <1>5, <1>6 DEF Call, Goto, TypeOK
<1>7. CASE c.op = "delete"
  BY <1>2, <1>3, <1>4, <1>5, <1>7 DEF Call, Goto, TypeOK
<1>8. CASE c.op = "workspace"
  BY <1>2, <1>3, <1>4, <1>5, <1>8 DEF Call, Goto, TypeOK
<1>9. CASE c.op = "load"
  BY <1>2, <1>3, <1>4, <1>5, <1>9 DEF Call, Goto, TypeOK
<1> QED BY <1>1, <1>6, <1>7, <1>8, <1>9

LEMMA CallPlaces ==
  ASSUME TypeOK, Places, NEW r \in Requests, NEW c \in Calls, Call(r, c)
  PROVE  Places'
<1>1. ASSUME NEW q \in Requests, q # r PROVE Place(q)'
  BY <1>1, Arrival DEF Places, Place, Busy, Id
<1>2. Place(r)'
  <2>1. next'[r] = 1 /\ saved'[r] = 0
    BY Arrival
  <2> QED BY <2>1, Arrival DEF Place, Busy, Id
<1> QED BY <1>1, <1>2 DEF Places

-----------------------------------------------------------------------------
(* Requests that disturb each other know it.                               *)

LEMMA StepClash ==
  ASSUME TypeOK, Places, Clash, NEW r \in Requests, Step(r)
  PROVE  Clash'
<1>1. Busy(r)
  BY StepBusy
<1>2. ASSUME NEW q \in Requests, Busy(q)'
      PROVE  Busy(q) /\ call'[q] = call[q] /\ (clean'[q] => clean[q])
  <2>1. CASE q # r
    BY <1>2, <2>1, OthersKeep DEF Busy
  <2>2. CASE q = r
    <3>1. pc[r] # "reply"
      <4>1. SUFFICES ASSUME pc[r] = "reply" PROVE FALSE
        OBVIOUS
      <4>2. ~DeleteRows(r)
        BY <4>1, DeleteStep DEF DeleteSteps
      <4>3. Answer(r)
        BY <4>1, <4>2
           DEF Step, GetLastReportNumber, IsAllowPublic, IsReportExist, UpdateReport,
               SaveNewReport, AskHdr, AskWeb, AskAllow, DeleteWorkspace, InsertWorkspace,
               EndWorkspace, TryLoadNewDefConf, LoadOldDefConf
      <4>4. pc'[r] = "done"
        BY <4>3 DEF Answer, Goto, TypeOK
      <4> QED BY <1>2, <2>2, <4>4 DEF Busy
    <3> QED BY <1>1, <2>2, <3>1, OthersKeep
  <2> QED BY <2>1, <2>2
<1> QED BY <1>2 DEF Clash, Disturbed, Disturbs

LEMMA CallClash ==
  ASSUME TypeOK, Places, Clash, NEW r \in Requests, NEW c \in Calls, Call(r, c)
  PROVE  Clash'
<1> SUFFICES ASSUME NEW q \in Requests, NEW s \in Requests, q # s, Busy(q)', Busy(s)',
                    Disturbed(call'[q], call'[s])
             PROVE  ~clean'[q]
  BY DEF Clash, Disturbed, Disturbs
<1>1. CASE q = r
  <2>1. Busy(s) /\ call'[s] = call[s] /\ call'[r] = c
    BY <1>1, Arrival DEF Busy
  <2>2. clean'[r] = ~ \E x \in Requests : Busy(x) /\ Disturbed(c, call[x])
    BY DEF Call
  <2> QED BY <1>1, <2>1, <2>2
<1>2. CASE s = r
  <2>1. Busy(q) /\ call'[q] = call[q] /\ call'[r] = c
    BY <1>2, Arrival DEF Busy
  <2>2. clean'[q] = (clean[q] /\ ~(Busy(q) /\ Disturbed(c, call[q])))
    BY <1>2 DEF Call
  <2>3. Disturbed(c, call[q])
    BY <1>2, <2>1 DEF Disturbed
  <2> QED BY <2>1, <2>2, <2>3
<1>3. CASE q # r /\ s # r
  BY <1>3, Arrival DEF Clash, Busy
<1> QED BY <1>1, <1>2, <1>3

-----------------------------------------------------------------------------
(* A saved report is kept.                                                 *)

(* What a step does to the two tables of the web application. *)
LEMMA WebEffect ==
  ASSUME TypeOK, Places, NEW r \in Requests, Step(r)
  PROVE  \/ UNCHANGED <<web, saved>>
         \/ /\ call[r].op = "save" /\ call'[r] = call[r] /\ pc[r] \in {"update", "insert"}
            /\ \E k \in Ids :
                 /\ k = Id(r) \/ (k = NewId(r) /\ web[k] = NoRow)
                 /\ Id(r) \in {0, k}
                 /\ web' = [web EXCEPT ![k] = RowOf(r)]
                 /\ saved' = [saved EXCEPT ![r] = k]
         \/ /\ call[r].op = "delete" /\ call'[r] = call[r] /\ UNCHANGED saved
            /\ Id(r) \in Ids /\ pc[r] \in DeleteSteps
            /\ web' = [web EXCEPT ![Id(r)] = NoRow]
<1>1. CASE UpdateReport(r) \/ SaveNewReport(r)
  <2>1. pc[r] \in {"update", "insert"} /\ pc[r] \in SaveSteps /\ pc[r] # "reply"
    BY <1>1 DEF UpdateReport, SaveNewReport, SaveSteps
  <2>2. call[r].op = "save" /\ call'[r] = call[r]
    BY <2>1, OthersKeep DEF Places, Place
  <2>3. CASE UpdateReport(r)
    BY <2>1, <2>2, <2>3, Written DEF UpdateReport, Wrote
  <2>4. CASE SaveNewReport(r)
    BY <2>1, <2>2, <2>4, Written DEF SaveNewReport, Wrote, NewId
  <2> QED BY <1>1, <2>3, <2>4
<1>2. CASE DeleteRows(r)
  <2>1. pc[r] \in DeleteSteps /\ Busy(r) /\ pc[r] # "reply"
    BY <1>2, DeleteStep, StepBusy DEF DeleteSteps
  <2>2. call[r].op = "delete" /\ call'[r] = call[r] /\ Id(r) \in Ids
    BY <2>1, OthersKeep, Asked DEF Places, Place, DeleteSteps
  <2> QED BY <1>2, <2>1, <2>2 DEF DeleteRows, db
<1>3. CASE ~(UpdateReport(r) \/ SaveNewReport(r) \/ DeleteRows(r))
  BY <1>3 DEF Step, GetLastReportNumber, IsAllowPublic, IsReportExist, AskHdr, AskWeb, AskAllow,
              DeleteWorkspace, InsertWorkspace, EndWorkspace, TryLoadNewDefConf,
              LoadOldDefConf, Answer, db
<1> QED BY <1>1, <1>2, <1>3

(* What a request names is forgotten only when it named nothing. *)
LEMMA IdStays ==
  ASSUME TypeOK, Places, NEW r \in Requests, Step(r), NEW q \in Requests
  PROVE  /\ Id(q)' = Id(q)
         /\ saved[q] # 0 => RowOf(q)' = RowOf(q)
<1>1. CASE call'[q] = call[q]
  BY <1>1 DEF Id, RowOf, User
<1>2. CASE call'[q] # call[q]
  <2>1. q = r /\ pc[r] = "reply"
    BY <1>2, OthersKeep
  <2>2. Answer(r)
    <3>1. ~DeleteRows(r)
      BY <2>1, DeleteStep DEF DeleteSteps
    <3> QED BY <2>1, <3>1
           DEF Step, GetLastReportNumber, IsAllowPublic, IsReportExist, UpdateReport,
               SaveNewReport, AskHdr, AskWeb, AskAllow, DeleteWorkspace, InsertWorkspace,
               EndWorkspace, TryLoadNewDefConf, LoadOldDefConf
  <2>3. call'[r] = NoCall /\ call[r].op \notin {"save", "delete"}
    BY <1>2, <2>1, <2>2 DEF Answer, TypeOK
  <2>4. call[r] \in Calls /\ (saved[r] # 0 => call[r].op = "save")
    BY <2>1, Asked, StepBusy DEF Places, Place
  <2>5. call[r].id = 0
    BY <2>3, <2>4, CallShape
  <2> QED BY <2>1, <2>3, <2>4, <2>5, NoCallShape DEF Id
<1> QED BY <1>1, <1>2

LEMMA StepSaved ==
  ASSUME TypeOK, Places, SavedIsKept, NEW r \in Requests, Step(r)
  PROVE  SavedIsKept'
<1> SUFFICES ASSUME NEW q \in Requests, saved'[q] # 0
             PROVE  \/ web'[saved'[q]] = RowOf(q)'
                    \/ \E s \in Requests \ {q} : Id(s)' = saved'[q]
  BY DEF SavedIsKept
<1>0. web \in [Ids -> [creator : Creators, writer : Requests \cup {NoOne}]]
      /\ saved \in [Requests -> 0..MaxId] /\ Ids = 1..MaxId /\ MaxId \in Nat
  BY ReportsAssumption DEF TypeOK, Ids
<1>1. saved[q] # 0 => (\/ web[saved[q]] = RowOf(q)
                       \/ \E s \in Requests \ {q} : Id(s) = saved[q])
  BY DEF SavedIsKept
<1>2. RowOf(q) # NoRow
  <2>1. RowOf(q).writer = q /\ NoRow.writer = NoOne
    BY DEF RowOf, NoRow
  <2> QED BY <2>1, ReportsAssumption
<1>3. CASE UNCHANGED <<web, saved>>
  BY <1>1, <1>3, IdStays
<1>4. ASSUME call[r].op = "save", call'[r] = call[r], NEW k \in Ids,
             k = Id(r) \/ (k = NewId(r) /\ web[k] = NoRow),
             web' = [web EXCEPT ![k] = RowOf(r)], saved' = [saved EXCEPT ![r] = k]
      PROVE  \/ web'[saved'[q]] = RowOf(q)'
             \/ \E s \in Requests \ {q} : Id(s)' = saved'[q]
  <2>1. CASE q = r
    <3>1. RowOf(r)' = RowOf(r)
      BY <1>4 DEF RowOf, User
    <3> QED BY <1>0, <1>4, <2>1, <3>1
  <2>2. CASE q # r
    <3>1. saved'[q] = saved[q]
      BY <1>0, <1>4, <2>2
    <3>2. CASE \E s \in Requests \ {q} : Id(s) = saved[q]
      BY <3>1, <3>2, IdStays
    <3>3. CASE web[saved[q]] = RowOf(q)
      <4>1. saved[q] # 0 /\ saved[q] \in Ids
        BY <1>0, <3>1
      <4>2. CASE k = saved[q]
        <5>1. k = Id(r)
          BY <1>2, <1>4, <3>3, <4>2
        <5> QED BY <2>2, <3>1, <4>2, <5>1, IdStays
      <4>3. CASE k # saved[q]
        <5>1. web'[saved[q]] = web[saved[q]]
          BY <1>0, <1>4, <4>1, <4>3
        <5> QED BY <3>1, <3>3, <4>1, <5>1, IdStays
      <4> QED BY <4>2, <4>3
    <3> QED BY <1>1, <3>1, <3>2, <3>3
  <2> QED BY <2>1, <2>2
<1>5. CASE /\ call[r].op = "delete" /\ UNCHANGED saved /\ Id(r) \in Ids
           /\ web' = [web EXCEPT ![Id(r)] = NoRow]
  <2>1. q # r
    BY <1>5 DEF Places, Place
  <2>2. CASE Id(r) = saved[q]
    BY <1>5, <2>1, <2>2, IdStays
  <2>3. CASE Id(r) # saved[q]
    <3>1. saved[q] \in Ids /\ web'[saved[q]] = web[saved[q]]
      BY <1>0, <1>5, <2>3
    <3> QED BY <1>1, <1>5, <3>1, IdStays
  <2> QED BY <2>2, <2>3
<1> QED BY <1>3, <1>4, <1>5, WebEffect

LEMMA CallSaved ==
  ASSUME TypeOK, Places, SavedIsKept, NEW r \in Requests, NEW c \in Calls, Call(r, c)
  PROVE  SavedIsKept'
<1> SUFFICES ASSUME NEW q \in Requests, saved'[q] # 0
             PROVE  \/ web'[saved'[q]] = RowOf(q)'
                    \/ \E s \in Requests \ {q} : Id(s)' = saved'[q]
  BY DEF SavedIsKept
<1>1. web' = web /\ saved' = saved
  BY Arrival DEF db
<1>2. q # r /\ call'[q] = call[q]
  BY <1>1, Arrival
<1>3. RowOf(q)' = RowOf(q)
  BY <1>2 DEF RowOf, User
<1>4. \A s \in Requests : Id(s) = saved[q] => s # r /\ Id(s)' = Id(s)
  BY <1>1, Arrival, NoCallShape DEF Id
<1> QED BY <1>1, <1>2, <1>3, <1>4 DEF SavedIsKept

-----------------------------------------------------------------------------
(* An undisturbed delete is complete.                                      *)

(* What a step does to the workspaces and to the old tables. *)
LEMMA RowsEffect ==
  ASSUME TypeOK, Places, NEW r \in Requests, Step(r)
  PROVE  /\ \A k \in OldIds : hdr'[k] \in {hdr[k], NoOne}
         /\ info' \subseteq info
         /\ \A u \in Users : def_cfg'[u] \subseteq def_cfg[u]
         /\ \A u \in Users : \A row \in def_cfg_web'[u] :
              \/ row \in def_cfg_web[u]
              \/ /\ pc[r] = "ws_insert" /\ u = User(r)
                 /\ \E n \in DOMAIN Items(r) : row = <<n, Items(r)[n]>>
<1>1. CASE DeleteRows(r)
  BY <1>1 DEF DeleteRows, Without, TypeOK, db
<1>2. CASE InsertWorkspace(r)
  <2>1. Busy(r) /\ pc[r] = "ws_insert"
    BY <1>2 DEF InsertWorkspace, Busy
  <2>2. Items(r) \in Seq(ClientIds)
    BY <2>1, Asked
  <2>3. next[r] \in 1..Len(Items(r))
    BY <1>2, <2>2 DEF InsertWorkspace, TypeOK
  <2>4. next[r] \in DOMAIN Items(r)
    BY <2>2, <2>3
  <2>5. UNCHANGED def_cfg_web
        \/ def_cfg_web' = [def_cfg_web EXCEPT ![User(r)] = @ \cup {<<next[r], Items(r)[next[r]]>>}]
    BY <1>2 DEF InsertWorkspace
  <2>6. UNCHANGED <<hdr, info, def_cfg>>
    BY <1>2 DEF InsertWorkspace
  <2> QED BY <2>1, <2>4, <2>5, <2>6 DEF TypeOK
<1>3. CASE DeleteWorkspace(r)
  BY <1>3 DEF DeleteWorkspace, TypeOK
<1>4. CASE ~(DeleteRows(r) \/ InsertWorkspace(r) \/ DeleteWorkspace(r))
  <2>1. UNCHANGED <<hdr, info, def_cfg, def_cfg_web>>
    BY <1>4 DEF Step, GetLastReportNumber, IsAllowPublic, IsReportExist, UpdateReport,
                SaveNewReport, AskHdr, AskWeb, AskAllow, EndWorkspace, TryLoadNewDefConf,
                LoadOldDefConf, Answer, db
  <2> QED BY <2>1
<1> QED BY <1>1, <1>2, <1>3, <1>4

LEMMA GoneAreDeletes ==
  ASSUME TypeOK, Places, NEW q \in Requests,
         After(q, {"del_def_cfg_web", "del_hdr", "del_info", "del_def_cfg"})
  PROVE  Busy(q) /\ call[q].op = "delete" /\ Id(q) \in Ids
<1>1. Busy(q) /\ call[q].op = "delete"
  BY DEF After, Places, Place, Busy
<1> QED BY <1>1, Asked

(* Another request leaves an undisturbed delete what it has deleted. *)
LEMMA OthersLeaveGone ==
  ASSUME TypeOK, Places, Clash, NEW r \in Requests, Step(r), NEW q \in Requests, q # r,
         clean[q], GoneOf(q)
  PROVE  GoneOf(q)'
<1>1. pc'[q] = pc[q] /\ call'[q] = call[q] /\ cause'[q] = cause[q] /\ Id(q)' = Id(q)
  BY OthersKeep, IdStays
<1>2. \A labels : After(q, labels)' <=> After(q, labels)
  BY <1>1 DEF After
<1> DEFINE deleting == After(q, {"del_def_cfg_web", "del_hdr", "del_info", "del_def_cfg"})
<1>3. CASE ~deleting
  BY <1>2, <1>3 DEF GoneOf, After
<1>4. CASE deleting
  <2>1. Busy(q) /\ call[q].op = "delete" /\ Id(q) \in Ids
    BY <1>4, GoneAreDeletes
  <2>2. Busy(r) /\ call[r] \in Calls /\ ~Disturbed(call[q], call[r])
    BY <2>1, StepBusy, Asked DEF Clash
  <2>3. web[Id(q)] = NoRow => web'[Id(q)] = NoRow
    <3>1. CASE UNCHANGED <<web, saved>>
      BY <3>1
    <3>2. ASSUME call[r].op = "save", NEW k \in Ids, Id(r) \in {0, k},
                 web' = [web EXCEPT ![k] = RowOf(r)], web[Id(q)] = NoRow
          PROVE  web'[Id(q)] = NoRow
      <4>1. k # Id(q)
        BY <2>1, <2>2, <3>2 DEF Disturbed, Disturbs, Id
      <4> QED BY <2>1, <3>2, <4>1 DEF TypeOK
    <3>3. CASE web' = [web EXCEPT ![Id(r)] = NoRow]
      BY <2>1, <3>3 DEF TypeOK
    <3> QED BY <3>1, <3>2, <3>3, WebEffect
  <2>4. ASSUME \A u \in Users : \A row \in def_cfg_web[u] : row[2] # Id(q)
        PROVE  \A u \in Users : \A row \in def_cfg_web'[u] : row[2] # Id(q)
    <3>1. ASSUME pc[r] = "ws_insert", NEW n \in DOMAIN Items(r) PROVE Items(r)[n] # Id(q)
      <4>1. call[r].op = "workspace"
        BY <3>1 DEF Places, Place
      <4> QED BY <2>1, <2>2, <3>1, <4>1 DEF Disturbed, Disturbs, Items, Id
    <3> QED BY <2>4, <3>1, RowsEffect
  <2>5. OldCreatorOf(Id(q)) = NoOne => OldCreatorOf(Id(q))' = NoOne
    BY <1>1, RowsEffect DEF OldCreatorOf
  <2>6. Id(q) \notin info => Id(q) \notin info'
    BY RowsEffect
  <2>7. (\A u \in Users : \A row \in def_cfg[u] : row[2] # Id(q))
          => \A u \in Users : \A row \in def_cfg'[u] : row[2] # Id(q)
    BY RowsEffect
  <2> HIDE DEF deleting
  <2> QED BY <1>1, <1>2, <2>3, <2>4, <2>5, <2>6, <2>7 DEF GoneOf, OldCreatorOf
<1> QED BY <1>3, <1>4

(* A delete that is executed adds the table it was at. *)
LEMMA OwnGone ==
  ASSUME TypeOK, Places, NEW r \in Requests, Step(r), clean'[r], clean[r] => GoneOf(r)
  PROVE  GoneOf(r)'
<1>1. Busy(r) /\ call[r] \in Calls /\ Id(r)' = Id(r)
  BY StepBusy, Asked, IdStays
<1>2. CASE DeleteRows(r)
  <2>1. pc[r] \in DeleteSteps /\ pc[r] # "reply"
    BY <1>2, DeleteStep DEF DeleteSteps
  <2>2. clean[r] /\ call'[r] = call[r] /\ call[r].op = "delete" /\ Id(r) \in Ids
    BY <2>1, OthersKeep, Asked, <1>1 DEF Places, Place, DeleteSteps
  <2>3. GoneOf(r)
    BY <2>2
  <2>4. Executed
    BY <1>2, <2>2 DEF DeleteRows, Failed, TypeOK
  <2>5. ~Failed(r)
    BY <2>4, <2>2 DEF Executed, Failed, TypeOK
  <2>6. pc'[r] = AfterDelete(pc[r]) /\ cause'[r] = cause[r]
    BY <1>2 DEF DeleteRows, Goto, TypeOK
  <2>7. /\ pc[r] = "del_web" => web'[Id(r)] = NoRow
        /\ pc[r] # "del_web" => web' = web
    BY <1>2, <2>2, <2>5 DEF DeleteRows, TypeOK
  <2>8. \A u \in Users : def_cfg_web'[u] = IF pc[r] = "del_def_cfg_web"
                                           THEN Without(def_cfg_web[u], Id(r))
                                           ELSE def_cfg_web[u]
    BY <1>2, <2>5 DEF DeleteRows
  <2>9. /\ pc[r] = "del_hdr" => OldCreatorOf(Id(r))' = NoOne
        /\ pc[r] # "del_hdr" => hdr' = hdr
    BY <1>1, <1>2, <2>2, <2>5 DEF DeleteRows, OldCreatorOf, TypeOK
  <2>10. /\ pc[r] = "del_info" => Id(r) \notin info'
         /\ pc[r] # "del_info" => info' = info
    BY <1>2, <2>5 DEF DeleteRows
  <2>11. \A u \in Users : def_cfg'[u] = IF pc[r] = "del_def_cfg"
                                        THEN Without(def_cfg[u], Id(r))
                                        ELSE def_cfg[u]
    BY <1>2, <2>5 DEF DeleteRows
  <2>12. CASE pc[r] = "del_web"
    <3>1. pc'[r] = "del_def_cfg_web"
      BY <2>6, <2>12, NextDelete
    <3> QED BY <1>1, <2>7, <2>12, <3>1 DEF GoneOf, After
  <2>13. CASE pc[r] = "del_def_cfg_web"
    <3>1. pc'[r] = "del_hdr"
      BY <2>6, <2>13, NextDelete
    <3> QED BY <1>1, <2>3, <2>7, <2>8, <2>13, <3>1 DEF GoneOf, After, Without
  <2>14. CASE pc[r] = "del_hdr"
    <3>1. pc'[r] = "del_info"
      BY <2>6, <2>14, NextDelete
    <3> QED BY <1>1, <2>3, <2>7, <2>8, <2>9, <2>14, <3>1 DEF GoneOf, After
  <2>15. CASE pc[r] = "del_info"
    <3>1. pc'[r] = "del_def_cfg"
      BY <2>6, <2>15, NextDelete
    <3>2. OldCreatorOf(Id(r))' = OldCreatorOf(Id(r))
      BY <1>1, <2>9, <2>15 DEF OldCreatorOf
    <3> QED BY <1>1, <2>3, <2>7, <2>8, <2>10, <2>15, <3>1, <3>2 DEF GoneOf, After
  <2>16. CASE pc[r] = "del_def_cfg"
    <3>1. pc'[r] = "reply"
      BY <2>6, <2>16, NextDelete
    <3>2. OldCreatorOf(Id(r))' = OldCreatorOf(Id(r))
      BY <1>1, <2>9, <2>16 DEF OldCreatorOf
    <3> QED BY <1>1, <2>3, <2>7, <2>8, <2>10, <2>11, <2>16, <3>1, <3>2 DEF GoneOf, After, Without
  <2> QED BY <2>1, <2>12, <2>13, <2>14, <2>15, <2>16 DEF DeleteSteps
<1>3. CASE AskHdr(r) \/ AskWeb(r) \/ AskAllow(r)
  <2>1. pc'[r] \in {"ask_web", "ask_allow", "del_web"} \/ (pc'[r] = "reply" /\ cause'[r] # 0)
    BY <1>3 DEF AskHdr, AskWeb, AskAllow, Found, Goto, Reply, TypeOK
  <2> QED BY <2>1 DEF GoneOf, After
<1>4. CASE Answer(r)
  <2>1. pc'[r] = "done"
    BY <1>4 DEF Answer, Goto, TypeOK
  <2> QED BY <2>1 DEF GoneOf, After
<1>5. CASE ~(DeleteRows(r) \/ AskHdr(r) \/ AskWeb(r) \/ AskAllow(r) \/ Answer(r))
  <2>1. pc[r] \in SaveSteps \cup WorkspaceSteps \cup LoadSteps
    BY <1>5 DEF Step, GetLastReportNumber, IsAllowPublic, IsReportExist, UpdateReport,
                SaveNewReport, DeleteWorkspace, InsertWorkspace, EndWorkspace,
                TryLoadNewDefConf, LoadOldDefConf, SaveSteps, WorkspaceSteps, LoadSteps
  <2>2. call[r].op # "delete" /\ call'[r] = call[r]
    BY <2>1, OthersKeep DEF Places, Place, SaveSteps, WorkspaceSteps, LoadSteps
  <2>3. Places' /\ Place(r)'
    BY StepPlaces DEF Places
  <2> QED BY <2>2, <2>3 DEF GoneOf, After, Place
<1> QED BY <1>2, <1>3, <1>4, <1>5

LEMMA StepGone ==
  ASSUME TypeOK, Places, Clash, Gone, NEW r \in Requests, Step(r)
  PROVE  Gone'
<1>1. ASSUME NEW q \in Requests, q # r, clean'[q] PROVE GoneOf(q)'
  BY <1>1, OthersKeep, OthersLeaveGone DEF Gone
<1>2. clean'[r] => GoneOf(r)'
  BY OwnGone DEF Gone
<1> QED BY <1>1, <1>2 DEF Gone

LEMMA CallGone ==
  ASSUME TypeOK, Places, Gone, NEW r \in Requests, NEW c \in Calls, Call(r, c)
  PROVE  Gone'
<1>1. ASSUME NEW q \in Requests, q # r, clean'[q] PROVE GoneOf(q)'
  <2>1. /\ pc'[q] = pc[q] /\ call'[q] = call[q] /\ cause'[q] = cause[q] /\ UNCHANGED db
        /\ clean[q]
    BY <1>1, Arrival
  <2>2. GoneOf(q)
    BY <2>1 DEF Gone
  <2> QED BY <2>1, <2>2 DEF GoneOf, After, Id, OldCreatorOf, db
<1>2. GoneOf(r)'
  BY Arrival DEF GoneOf, After
<1> QED BY <1>1, <1>2 DEF Gone

-----------------------------------------------------------------------------
(* What a user saves is what he loads.                                     *)

(* What a step does to the new workspace rows and to what users want. *)
LEMMA WorkspaceEffect ==
  ASSUME TypeOK, Places, NEW r \in Requests, Step(r)
  PROVE  \/ UNCHANGED <<def_cfg_web, want, def_cfg>>
         \/ /\ call[r].op = "delete" /\ Busy(r)
            /\ pc'[r] \notin WorkspaceSteps
            /\ \A u \in Users :
                 \/ def_cfg_web'[u] = def_cfg_web[u] /\ want'[u] = want[u]
                 \/ /\ def_cfg_web'[u] = Without(def_cfg_web[u], Id(r))
                    /\ want'[u] = IF want[u] # Unknown THEN Without(want[u], Id(r)) ELSE want[u]
         \/ /\ pc[r] = "ws_delete" /\ UNCHANGED <<want, def_cfg>>
            /\ def_cfg_web' = [def_cfg_web EXCEPT ![User(r)] = {}]
         \/ /\ pc[r] = "ws_insert" /\ UNCHANGED <<want, def_cfg>>
            /\ def_cfg_web' = [def_cfg_web EXCEPT
                                 ![User(r)] = @ \cup {<<next[r], Items(r)[next[r]]>>}]
         \/ EndWorkspace(r) /\ clean[r] /\ UNCHANGED <<def_cfg_web, def_cfg>>
            /\ want' = [want EXCEPT ![User(r)] = Rows(Items(r))]
<1>1. CASE DeleteRows(r)
  <2>1. pc[r] \in DeleteSteps /\ AfterDelete(pc[r]) \notin WorkspaceSteps
    BY <1>1, DeleteStep DEF DeleteSteps, WorkspaceSteps
  <2>2. call[r].op = "delete" /\ Busy(r) /\ pc'[r] \notin WorkspaceSteps
    BY <1>1, <2>1, StepBusy DEF Places, Place, DeleteSteps, DeleteRows, Goto, TypeOK
  <2> QED BY <1>1, <2>2 DEF DeleteRows, db
<1>2. CASE DeleteWorkspace(r) \/ InsertWorkspace(r)
  BY <1>2 DEF DeleteWorkspace, InsertWorkspace
<1>3. CASE EndWorkspace(r)
  BY <1>3 DEF EndWorkspace, db
<1>4. CASE ~(DeleteRows(r) \/ DeleteWorkspace(r) \/ InsertWorkspace(r) \/ EndWorkspace(r))
  BY <1>4 DEF Step, GetLastReportNumber, IsAllowPublic, IsReportExist, UpdateReport,
              SaveNewReport, AskHdr, AskWeb, AskAllow, TryLoadNewDefConf, LoadOldDefConf,
              Answer, db
<1> QED BY <1>1, <1>2, <1>3, <1>4

(* The steps of SaveWorkspase are entered by no other. *)
LEMMA InWorkspace ==
  ASSUME TypeOK, Places, NEW r \in Requests, Step(r), pc'[r] \in WorkspaceSteps
  PROVE  /\ pc[r] \in WorkspaceSteps /\ call'[r] = call[r] /\ pc'[r] = "ws_insert"
         /\ DeleteWorkspace(r) \/ InsertWorkspace(r)
<1>1. ~DeleteRows(r)
  BY DeleteStep DEF DeleteRows, Goto, TypeOK, DeleteSteps, WorkspaceSteps
<1>2. DeleteWorkspace(r) \/ InsertWorkspace(r)
  BY <1>1 DEF Step, GetLastReportNumber, IsAllowPublic, IsReportExist, Decide, UpdateReport,
              SaveNewReport, Wrote, AskHdr, AskWeb, AskAllow, Found, EndWorkspace,
              TryLoadNewDefConf, LoadOldDefConf, Answer, Goto, Reply, TypeOK, WorkspaceSteps
<1>3. pc[r] \in WorkspaceSteps /\ call'[r] = call[r]
  BY <1>2 DEF DeleteWorkspace, InsertWorkspace, WorkspaceSteps
<1>4. pc'[r] = "ws_insert"
  BY <1>2 DEF DeleteWorkspace, InsertWorkspace, Goto, Reply, TypeOK, WorkspaceSteps
<1> QED BY <1>2, <1>3, <1>4

LEMMA StepWanted ==
  ASSUME TypeOK, Places, Clash, Wanted, Inserted, NEW r \in Requests, Step(r)
  PROVE  Wanted'
<1> SUFFICES ASSUME NEW u \in Users, want'[u] # Unknown
             PROVE  /\ def_cfg_web'[u] = want'[u]
                    /\ \A q \in Requests : User(q)' = u => pc'[q] \notin WorkspaceSteps
  BY DEF Wanted, WorkspaceSteps
<1>1. want[u] # Unknown =>
        /\ def_cfg_web[u] = want[u]
        /\ \A q \in Requests : User(q) = u => pc[q] \notin WorkspaceSteps
  BY DEF Wanted, WorkspaceSteps
<1>2. \A q \in Requests : pc'[q] \in WorkspaceSteps =>
        pc[q] \in WorkspaceSteps /\ User(q)' = User(q)
  <2>1. \A q \in Requests \ {r} : pc'[q] = pc[q] /\ User(q)' = User(q)
    BY OthersKeep DEF User
  <2> QED BY <2>1, InWorkspace DEF User
<1>3. CASE EndWorkspace(r) /\ clean[r] /\ UNCHANGED <<def_cfg_web, def_cfg>> /\ u = User(r)
           /\ want' = [want EXCEPT ![User(r)] = Rows(Items(r))]
  <2>1. pc[r] = "ws_insert" /\ Busy(r) /\ next[r] > Len(Items(r))
    BY <1>3 DEF EndWorkspace, Busy
  <2>2. Items(r) \in Seq(ClientIds)
    BY <2>1, Asked
  <2>3. next[r] \in 1..(Len(Items(r)) + 1) /\ Len(Items(r)) \in Nat
    BY <2>2 DEF TypeOK, Items
  <2>4. next[r] - 1 = Len(Items(r))
    BY <2>1, <2>3
  <2>5. def_cfg_web[u] = Rows(Items(r))
    <3>1. def_cfg_web[u] = {<<n, Items(r)[n]>> : n \in 1..(next[r] - 1)}
      BY <1>3, <2>1 DEF Inserted
    <3>2. DOMAIN Items(r) = 1..(next[r] - 1)
      BY <2>2, <2>4
    <3> QED BY <3>1, <3>2 DEF Rows
  <2>6. ASSUME NEW q \in Requests, User(q)' = u, pc'[q] \in WorkspaceSteps PROVE FALSE
    <3>1. pc[q] \in WorkspaceSteps /\ User(q) = User(r) /\ Busy(q)
      BY <1>2, <1>3, <2>6 DEF Busy, WorkspaceSteps
    <3>2. q # r
      <4>1. pc'[r] = "reply"
        BY <1>3 DEF EndWorkspace, Reply, Goto, TypeOK
      <4> QED BY <2>6, <4>1 DEF WorkspaceSteps
    <3>3. call[q].op = "workspace" /\ call[r].op = "workspace"
      BY <2>1, <3>1 DEF Places, Place, WorkspaceSteps
    <3> QED BY <1>3, <2>1, <3>1, <3>2, <3>3 DEF Clash, Disturbed, Disturbs, User
  <2>7. want'[u] = Rows(Items(r)) /\ def_cfg_web' = def_cfg_web
    BY <1>3 DEF TypeOK
  <2> QED BY <2>5, <2>6, <2>7
<1>4. CASE ~(EndWorkspace(r) /\ clean[r] /\ UNCHANGED <<def_cfg_web, def_cfg>> /\ u = User(r)
             /\ want' = [want EXCEPT ![User(r)] = Rows(Items(r))])
  <2>1. want[u] # Unknown /\ def_cfg_web'[u] = want'[u]
    <3>1. CASE UNCHANGED <<def_cfg_web, want, def_cfg>>
      BY <1>1, <3>1
    <3>2. CASE /\ call[r].op = "delete"
               /\ \/ def_cfg_web'[u] = def_cfg_web[u] /\ want'[u] = want[u]
                  \/ /\ def_cfg_web'[u] = Without(def_cfg_web[u], Id(r))
                     /\ want'[u] = IF want[u] # Unknown THEN Without(want[u], Id(r)) ELSE want[u]
      BY <1>1, <3>2
    <3>3. CASE pc[r] \in WorkspaceSteps /\ want' = want /\ \A v \in Users : v # User(r) =>
                 def_cfg_web'[v] = def_cfg_web[v]
      BY <1>1, <3>3
    <3>4. CASE EndWorkspace(r) /\ clean[r] /\ UNCHANGED <<def_cfg_web, def_cfg>>
               /\ want' = [want EXCEPT ![User(r)] = Rows(Items(r))]
      <4>1. u # User(r) /\ want'[u] = want[u]
        BY <1>4, <3>4 DEF TypeOK
      <4> QED BY <1>1, <3>4, <4>1
    <3> QED BY <3>1, <3>2, <3>3, <3>4, WorkspaceEffect DEF WorkspaceSteps, TypeOK
  <2> QED BY <1>1, <1>2, <2>1
<1> QED BY <1>3, <1>4

LEMMA CallWanted ==
  ASSUME TypeOK, Places, Wanted, NEW r \in Requests, NEW c \in Calls, Call(r, c)
  PROVE  Wanted'
<1> SUFFICES ASSUME NEW u \in Users, want'[u] # Unknown
             PROVE  /\ def_cfg_web'[u] = want'[u]
                    /\ \A q \in Requests : User(q)' = u => pc'[q] \notin WorkspaceSteps
  BY DEF Wanted, WorkspaceSteps
<1>1. ~(c.op = "workspace" /\ c.user = u) /\ want'[u] = want[u]
  BY DEF Call
<1>2. def_cfg_web' = def_cfg_web
  BY DEF Call, db
<1>3. ASSUME NEW q \in Requests, User(q)' = u PROVE pc'[q] \notin WorkspaceSteps
  <2>1. CASE q = r
    <3>1. pc'[r] \in WorkspaceSteps => c.op = "workspace"
      BY Arrival DEF WorkspaceSteps
    <3>2. User(r)' = c.user
      BY Arrival DEF User
    <3> QED BY <1>1, <1>3, <2>1, <3>1, <3>2
  <2>2. CASE q # r
    <3>1. pc'[q] = pc[q] /\ User(q) = u
      BY <1>3, <2>2, Arrival DEF User
    <3> QED BY <1>1, <3>1 DEF Wanted, WorkspaceSteps
  <2> QED BY <2>1, <2>2
<1> QED BY <1>1, <1>2, <1>3 DEF Wanted

LEMMA StepInserted ==
  ASSUME TypeOK, Places, Clash, Inserted, NEW r \in Requests, Step(r)
  PROVE  Inserted'
<1> SUFFICES ASSUME NEW q \in Requests, pc'[q] = "ws_insert", clean'[q]
             PROVE  def_cfg_web'[User(q)'] = {<<n, Items(q)'[n]>> : n \in 1..(next'[q] - 1)}
  BY DEF Inserted
<1>1. CASE q = r
  <2>1. /\ call'[r] = call[r] /\ pc[r] \in WorkspaceSteps
        /\ DeleteWorkspace(r) \/ InsertWorkspace(r)
    BY <1>1, InWorkspace DEF WorkspaceSteps
  <2>2. Busy(r) /\ pc[r] # "reply"
    BY <2>1 DEF Busy, WorkspaceSteps
  <2>3. User(r) \in Users /\ User(r)' = User(r) /\ Items(r)' = Items(r) /\ clean[r]
    BY <1>1, <2>1, <2>2, Asked, OthersKeep DEF User, Items
  <2>4. ~Failed(r)
    BY <1>1 DEF Failed, TypeOK
  <2>5. CASE DeleteWorkspace(r)
    <3>1. next'[r] = 1 /\ def_cfg_web'[User(r)] = {}
      <4>1. pc[r] = "ws_delete" /\ next' = next
        BY <2>5 DEF DeleteWorkspace
      <4>2. next[r] = 1
        BY <4>1 DEF Places, Place
      <4>3. def_cfg_web' = [def_cfg_web EXCEPT ![User(r)] = {}]
        BY <2>4, <2>5 DEF DeleteWorkspace
      <4> QED BY <2>3, <4>1, <4>2, <4>3 DEF TypeOK
    <3>2. 1..(next'[r] - 1) = {}
      BY <3>1
    <3> QED BY <1>1, <2>3, <3>1, <3>2
  <2>6. CASE InsertWorkspace(r)
    <3>1. pc[r] = "ws_insert" /\ next'[r] = next[r] + 1 /\ next[r] \in Nat /\ next[r] >= 1
      BY <2>4, <2>6 DEF InsertWorkspace, TypeOK
    <3>2. def_cfg_web'[User(r)] = def_cfg_web[User(r)] \cup {<<next[r], Items(r)[next[r]]>>}
      BY <2>3, <2>4, <2>6 DEF InsertWorkspace, TypeOK
    <3>3. def_cfg_web[User(r)] = {<<n, Items(r)[n]>> : n \in 1..(next[r] - 1)}
      BY <2>3, <3>1 DEF Inserted
    <3>4. 1..(next'[r] - 1) = 1..(next[r] - 1) \cup {next[r]}
      BY <3>1
    <3> QED BY <1>1, <2>3, <3>2, <3>3, <3>4
  <2> QED BY <2>1, <2>5, <2>6
<1>2. CASE q # r
  <2>1. pc[q] = "ws_insert" /\ call'[q] = call[q] /\ next'[q] = next[q] /\ clean[q]
    BY <1>2, OthersKeep
  <2>2. User(q)' = User(q) /\ Items(q)' = Items(q)
    BY <2>1 DEF User, Items
  <2>3. Busy(q) /\ call[q].op = "workspace" /\ Busy(r)
    BY <2>1, StepBusy DEF Busy, Places, Place
  <2>4. User(q) \in Users /\ Items(q) \in Seq(ClientIds)
    BY <2>3, Asked
  <2>5. ~Disturbed(call[q], call[r])
    BY <1>2, <2>1, <2>3 DEF Clash
  <2>6. def_cfg_web[User(q)] = {<<n, Items(q)[n]>> : n \in 1..(next[q] - 1)}
    BY <2>1 DEF Inserted
  <2>7. def_cfg_web'[User(q)] = def_cfg_web[User(q)]
    <3>1. CASE call[r].op = "delete" /\ def_cfg_web'[User(q)] = Without(def_cfg_web[User(q)], Id(r))
      <4>1. \A n \in DOMAIN Items(q) : Items(q)[n] # Id(r)
        BY <2>3, <2>5, <3>1 DEF Disturbed, Disturbs, Items, Id
      <4>2. Len(Items(q)) \in Nat /\ DOMAIN Items(q) = 1..Len(Items(q))
        BY <2>4
      <4>3. next[q] \in 1..(Len(Items(q)) + 1)
        BY DEF TypeOK, Items
      <4>4. \A n \in 1..(next[q] - 1) : n \in DOMAIN Items(q)
        BY <4>2, <4>3
      <4>5. \A row \in def_cfg_web[User(q)] : row[2] # Id(r)
        BY <2>6, <4>1, <4>4
      <4> QED BY <3>1, <4>5 DEF Without
    <3>2. CASE pc[r] \in WorkspaceSteps /\ \A v \in Users : v # User(r) =>
                 def_cfg_web'[v] = def_cfg_web[v]
      <4>1. call[r].op = "workspace"
        BY <3>2 DEF Places, Place, WorkspaceSteps
      <4>2. User(r) # User(q)
        BY <2>3, <2>5, <4>1 DEF Disturbed, Disturbs, User
      <4> QED BY <2>4, <3>2, <4>2
    <3>3. CASE def_cfg_web'[User(q)] = def_cfg_web[User(q)]
      BY <3>3
    <3> QED BY <2>4, <3>1, <3>2, <3>3, WorkspaceEffect DEF WorkspaceSteps, TypeOK
  <2> QED BY <2>1, <2>2, <2>6, <2>7
<1> QED BY <1>1, <1>2

LEMMA CallInserted ==
  ASSUME TypeOK, Places, Inserted, NEW r \in Requests, NEW c \in Calls, Call(r, c)
  PROVE  Inserted'
<1> SUFFICES ASSUME NEW q \in Requests, pc'[q] = "ws_insert", clean'[q]
             PROVE  def_cfg_web'[User(q)'] = {<<n, Items(q)'[n]>> : n \in 1..(next'[q] - 1)}
  BY DEF Inserted
<1>1. q # r
  BY Arrival
<1>2. pc[q] = "ws_insert" /\ call'[q] = call[q] /\ clean[q]
  BY <1>1, Arrival
<1>3. next' = next /\ def_cfg_web' = def_cfg_web
  BY DEF Call, db
<1> QED BY <1>2, <1>3 DEF Inserted, User, Items

LEMMA StepLoads ==
  ASSUME TypeOK, Places, Clash, Wanted, Loads, NEW r \in Requests, Step(r)
  PROVE  Loads'
<1> SUFFICES ASSUME NEW q \in Requests, call'[q].op = "load", clean'[q], Busy(q)',
                    want'[User(q)'] # Unknown
             PROVE  /\ pc'[q] = "load_old" => want'[User(q)'] = {}
                    /\ pc'[q] = "reply" =>
                         shown'[q] = IF want'[User(q)'] = {} THEN def_cfg'[User(q)']
                                                             ELSE want'[User(q)']
  BY DEF Loads
<1>1. CASE q = r
  <2>1. CASE pc[r] = "reply"
    <3>1. ~DeleteRows(r)
      BY <2>1, DeleteStep DEF DeleteSteps
    <3>2. Answer(r)
      BY <2>1, <3>1
         DEF Step, GetLastReportNumber, IsAllowPublic, IsReportExist, UpdateReport,
             SaveNewReport, AskHdr, AskWeb, AskAllow, DeleteWorkspace, InsertWorkspace,
             EndWorkspace, TryLoadNewDefConf, LoadOldDefConf
    <3>3. pc'[r] = "done"
      BY <3>2 DEF Answer, Goto, TypeOK
    <3> QED BY <1>1, <3>3 DEF Busy
  <2>2. CASE pc[r] # "reply"
    <3>1. call'[r] = call[r] /\ clean[r] /\ User(r)' = User(r) /\ Busy(r)
      BY <1>1, <2>2, OthersKeep, StepBusy DEF User
    <3>2. call[r].op = "load" /\ User(r) \in Users
      BY <1>1, <3>1, Asked
    <3>3. ~DeleteRows(r)
      BY <3>2, DeleteStep DEF Places, Place, DeleteSteps
    <3>4. TryLoadNewDefConf(r) \/ LoadOldDefConf(r)
      BY <2>2, <3>2, <3>3
         DEF Step, GetLastReportNumber, IsAllowPublic, IsReportExist, UpdateReport,
             SaveNewReport, AskHdr, AskWeb, AskAllow, DeleteWorkspace, InsertWorkspace,
             EndWorkspace, Answer, Places, Place
    <3>5. UNCHANGED <<db, want>>
      BY <3>4 DEF TryLoadNewDefConf, LoadOldDefConf
    <3>6. want[User(r)] # Unknown /\ def_cfg_web[User(r)] = want[User(r)]
      BY <1>1, <3>1, <3>2, <3>5 DEF Wanted
    <3>7. ~Failed(r)
      BY <1>1 DEF Failed, TypeOK
    <3>8. CASE TryLoadNewDefConf(r)
      BY <1>1, <3>1, <3>5, <3>6, <3>7, <3>8 DEF TryLoadNewDefConf, Goto, Reply, TypeOK, db
    <3>9. CASE LoadOldDefConf(r)
      <4>1. want[User(r)] = {}
        BY <3>1, <3>2, <3>6, <3>9 DEF LoadOldDefConf, Loads
      <4>2. pc'[r] = "reply" /\ shown'[r] = def_cfg[User(r)]
        BY <3>7, <3>9 DEF LoadOldDefConf, Goto, Reply, TypeOK
      <4> QED BY <1>1, <3>1, <3>5, <4>1, <4>2 DEF db
    <3> QED BY <3>4, <3>8, <3>9
  <2> QED BY <2>1, <2>2
<1>2. CASE q # r
  <2>1. pc'[q] = pc[q] /\ call'[q] = call[q] /\ clean[q] /\ shown'[q] = shown[q]
    BY <1>2, OthersKeep
  <2>2. User(q)' = User(q) /\ Busy(q) /\ call[q].op = "load" /\ Busy(r)
    BY <2>1, StepBusy DEF User, Busy
  <2>3. User(q) \in Users
    BY <2>2, Asked
  <2>4. ~Disturbed(call[q], call[r])
    BY <1>2, <2>1, <2>2 DEF Clash
  <2>5. call[r].op # "delete"
    BY <2>2, <2>4 DEF Disturbed, Disturbs
  <2>6. want'[User(q)] = want[User(q)] /\ def_cfg' = def_cfg
    <3>1. CASE EndWorkspace(r) /\ UNCHANGED <<def_cfg_web, def_cfg>>
               /\ want' = [want EXCEPT ![User(r)] = Rows(Items(r))]
      <4>1. call[r].op = "workspace"
        BY <3>1 DEF EndWorkspace, Places, Place
      <4>2. User(r) # User(q)
        BY <2>2, <2>4, <4>1 DEF Disturbed, Disturbs, User
      <4> QED BY <2>3, <3>1, <4>2 DEF TypeOK
    <3>2. CASE UNCHANGED <<want, def_cfg>>
      BY <3>2
    <3> QED BY <2>5, <3>1, <3>2, WorkspaceEffect
  <2> QED BY <2>1, <2>2, <2>6 DEF Loads
<1> QED BY <1>1, <1>2

LEMMA CallLoads ==
  ASSUME TypeOK, Places, Loads, NEW r \in Requests, NEW c \in Calls, Call(r, c)
  PROVE  Loads'
<1> SUFFICES ASSUME NEW q \in Requests, call'[q].op = "load", clean'[q], Busy(q)',
                    want'[User(q)'] # Unknown
             PROVE  /\ pc'[q] = "load_old" => want'[User(q)'] = {}
                    /\ pc'[q] = "reply" =>
                         shown'[q] = IF want'[User(q)'] = {} THEN def_cfg'[User(q)']
                                                             ELSE want'[User(q)']
  BY DEF Loads
<1>1. CASE q = r
  BY <1>1, Arrival
<1>2. CASE q # r
  <2>1. pc'[q] = pc[q] /\ call'[q] = call[q] /\ clean[q] /\ User(q)' = User(q) /\ Busy(q)
    BY <1>2, Arrival DEF User, Busy
  <2>2. User(q) \in Users
    BY <2>1, Asked
  <2>3. want'[User(q)] = want[User(q)]
    BY <2>1, <2>2 DEF Call
  <2>4. UNCHANGED <<shown, def_cfg>>
    BY DEF Call, db
  <2> QED BY <2>1, <2>3, <2>4 DEF Loads
<1> QED BY <1>1, <1>2

-----------------------------------------------------------------------------
(* Who may change a report.                                                *)

LEMMA ShortIdsFit ==
  ASSUME NEW r \in Requests, Id(r) \in Nat, Id(r) < ShortIds
  PROVE  AskedId(r) = Id(r)
<1>1. ShortIds \in Nat \ {0}
  BY ReportsAssumption
<1> QED BY <1>1 DEF AskedId

(* The old report with an id goes only by a delete of that id. *)
LEMMA HdrEffect ==
  ASSUME TypeOK, Places, NEW r \in Requests, Step(r)
  PROVE  /\ \A k \in OldIds : hdr'[k] = hdr[k] \/ (call[r].op = "delete" /\ Id(r) = k)
         /\ \A q \in Requests \ {r} : allow'[q] = allow[q]
         /\ call[r].op = "delete" => call'[r] = call[r]
<1>1. CASE DeleteRows(r)
  <2>1. call[r].op = "delete" /\ call'[r] = call[r]
    BY <1>1, DeleteStep, OthersKeep DEF Places, Place, DeleteSteps
  <2>2. \A k \in OldIds : hdr'[k] = hdr[k] \/ Id(r) = k
    BY <1>1 DEF DeleteRows, TypeOK, db
  <2>3. UNCHANGED allow
    BY <1>1 DEF DeleteRows
  <2> QED BY <2>1, <2>2, <2>3
<1>2. CASE ~DeleteRows(r)
  <2>1. UNCHANGED hdr
    BY <1>2 DEF Step, GetLastReportNumber, IsAllowPublic, IsReportExist, UpdateReport,
                SaveNewReport, AskHdr, AskWeb, AskAllow, DeleteWorkspace, InsertWorkspace,
                EndWorkspace, TryLoadNewDefConf, LoadOldDefConf, Answer, db
  <2>2. \A q \in Requests \ {r} : allow'[q] = allow[q]
    <3>1. CASE IsAllowPublic(r)
      BY <3>1 DEF IsAllowPublic, TypeOK
    <3>2. CASE Answer(r)
      BY <3>2 DEF Answer, TypeOK
    <3>3. CASE ~(IsAllowPublic(r) \/ Answer(r))
      BY <1>2, <3>3 DEF Step, GetLastReportNumber, IsReportExist, UpdateReport, SaveNewReport,
         AskHdr, AskWeb, AskAllow, DeleteWorkspace, InsertWorkspace, EndWorkspace,
         TryLoadNewDefConf, LoadOldDefConf
    <3> QED BY <3>1, <3>2, <3>3
  <2>3. call[r].op = "delete" => call'[r] = call[r]
    BY <1>2 DEF Step, GetLastReportNumber, IsAllowPublic, IsReportExist, UpdateReport,
                SaveNewReport, AskHdr, AskWeb, AskAllow, DeleteWorkspace, InsertWorkspace,
                EndWorkspace, TryLoadNewDefConf, LoadOldDefConf, Answer, TypeOK
  <2> QED BY <2>1, <2>2, <2>3
<1> QED BY <1>1, <1>2

LEMMA OthersLeaveRights ==
  ASSUME TypeOK, Places, Clash, NEW r \in Requests, Step(r), NEW q \in Requests, q # r,
         RightsOf(q)
  PROVE  RightsOf(q)'
<1>1. /\ pc'[q] = pc[q] /\ call'[q] = call[q] /\ clean'[q] = clean[q]
      /\ Id(q)' = Id(q) /\ User(q)' = User(q) /\ allow'[q] = allow[q]
  BY OthersKeep, IdStays, HdrEffect DEF User
<1>2. Busy(r) /\ call[r] \in Calls
  BY StepBusy, Asked
(* The row of an undisturbed update. *)
<1>3. ASSUME pc[q] = "update", clean[q], web[Id(q)] # NoRow
      PROVE  web'[Id(q)] = web[Id(q)]
  <2>1. Busy(q) /\ call[q].op = "save" /\ Id(q) \in Ids /\ Id(q) # 0
    BY <1>3, Written DEF Busy, SaveSteps, Places, Place
  <2>2. ~Disturbed(call[q], call[r])
    BY <1>2, <1>3, <2>1 DEF Clash
  <2>3. ASSUME call[r].op = "save", NEW k \in Ids, k = Id(r) \/ web[k] = NoRow,
               web' = [web EXCEPT ![k] = RowOf(r)]
        PROVE  web'[Id(q)] = web[Id(q)]
    <3>1. k # Id(q)
      BY <1>3, <2>1, <2>2, <2>3 DEF Disturbed, Disturbs, Id
    <3> QED BY <2>1, <2>3, <3>1 DEF TypeOK
  <2>4. ASSUME call[r].op = "delete", web' = [web EXCEPT ![Id(r)] = NoRow]
        PROVE  web'[Id(q)] = web[Id(q)]
    <3>1. Id(r) # Id(q)
      BY <2>1, <2>2, <2>4 DEF Disturbed, Disturbs, Id
    <3> QED BY <2>1, <2>4, <3>1 DEF TypeOK
  <2> QED BY <2>3, <2>4, WebEffect
(* The rows of an undisturbed delete. *)
<1>4. ASSUME pc[q] \in {"ask_web", "ask_allow", "del_web"}, Undisturbed(q)'
      PROVE  /\ Undisturbed(q)
             /\ OldCreatorOf(Id(q))' = OldCreatorOf(Id(q))
             /\ web'[Id(q)] = web[Id(q)]
  <2>1. Busy(q) /\ call[q].op = "delete" /\ Id(q) \in Ids
    <3>1. Busy(q) /\ call[q].op = "delete"
      BY <1>4 DEF Busy, Places, Place
    <3> QED BY <3>1, Asked
  <2>2. clean[q] /\ ~Disturbed(call[q], call[r])
    BY <1>1, <1>2, <1>4, <2>1 DEF Clash, Undisturbed
  <2>3. ~(call[r].op = "delete" /\ Id(r) = Id(q))
    BY <1>1, <1>4, HdrEffect, IdStays DEF Undisturbed, DeletedByAnother
  <2>4. ~DeletedByAnother(q)
    <3>1. ASSUME NEW s \in Requests \ {q}, call[s].op = "delete", Id(s) = Id(q) PROVE FALSE
      <4>1. s # r /\ call'[s] = call[s] /\ Id(s)' = Id(s)
        BY <2>3, <3>1, OthersKeep, IdStays
      <4> QED BY <1>1, <1>4, <3>1, <4>1 DEF Undisturbed, DeletedByAnother
    <3> QED BY <3>1 DEF DeletedByAnother
  <2>5. Undisturbed(q)
    BY <1>1, <1>4, <2>2, <2>4 DEF Undisturbed
  <2>6. OldCreatorOf(Id(q))' = OldCreatorOf(Id(q))
    BY <1>1, <2>3, HdrEffect DEF OldCreatorOf
  <2>7. ASSUME call[r].op = "save", NEW k \in Ids, Id(r) \in {0, k},
               web' = [web EXCEPT ![k] = RowOf(r)]
        PROVE  web'[Id(q)] = web[Id(q)]
    <3>1. k # Id(q)
      BY <2>1, <2>2, <2>7 DEF Disturbed, Disturbs, Id
    <3> QED BY <2>1, <2>7, <3>1 DEF TypeOK
  <2>8. ASSUME call[r].op = "delete", web' = [web EXCEPT ![Id(r)] = NoRow]
        PROVE  web'[Id(q)] = web[Id(q)]
    BY <2>1, <2>3, <2>8 DEF TypeOK
  <2> QED BY <2>5, <2>6, <2>7, <2>8, WebEffect
<1>5. ASSUME OldCreatorOf(Id(q))' = OldCreatorOf(Id(q)), web'[Id(q)] = web[Id(q)]
      PROVE  /\ CreatorOf(Id(q))' = CreatorOf(Id(q))
             /\ MayDelete(User(q), Id(q))' = MayDelete(User(q), Id(q))
  <2>1. CreatorOf(Id(q))' = CreatorOf(Id(q))
    BY <1>1, <1>5 DEF CreatorOf, WebCreatorOf
  <2> QED BY <1>1, <2>1 DEF MayDelete
<1>6. (allow[q] => call[q].op = "save" /\ User(q) \in Publishers)'
  BY <1>1 DEF RightsOf
<1>7. (pc[q] = "update" =>
         IF call[q].isPublic THEN allow[q]
         ELSE clean[q] => web[Id(q)] # NoRow /\ web[Id(q)].creator # PUBLIC_OWNER_ID)'
  BY <1>1, <1>3 DEF RightsOf
<1>8. ASSUME Undisturbed(q)'
      PROVE  (/\ pc[q] = "ask_web" => OldCreatorOf(Id(q)) = NoOne
              /\ pc[q] = "ask_allow" => CreatorOf(Id(q)) = PUBLIC_OWNER_ID
              /\ pc[q] = "del_web" => MayDelete(User(q), Id(q)))'
  BY <1>1, <1>4, <1>5, <1>8 DEF RightsOf
<1> QED BY <1>6, <1>7, <1>8 DEF RightsOf

LEMMA OwnRights ==
  ASSUME TypeOK, Places, NEW r \in Requests, Step(r), RightsOf(r)
  PROVE  RightsOf(r)'
<1>1. Busy(r) /\ call[r] \in Calls /\ Place(r) /\ User(r) \in Users
  BY StepBusy, Asked DEF Places
<1>2. Id(r) \in Nat /\ (call[r].op = "delete" => Id(r) \in Ids)
  <2>1. Id(r) \in Ids \cup {0} /\ (call[r].op = "delete" => Id(r) \in Ids)
    BY <1>1, Asked
  <2>2. Ids \subseteq Nat /\ 0 \in Nat
    BY IdsAre
  <2> QED BY <2>1, <2>2
<1>3. pc[r] # "reply" => call'[r] = call[r] /\ Id(r)' = Id(r) /\ User(r)' = User(r)
  BY OthersKeep DEF Id, User
<1> USE DEF Goto, Reply
<1>4. CASE UNCHANGED <<web, hdr, allow>> /\ pc'[r] \notin {"update", "ask_web", "ask_allow", "del_web"}
           /\ pc[r] # "reply"
  BY <1>3, <1>4 DEF RightsOf
<1>5. CASE GetLastReportNumber(r) \/ DeleteWorkspace(r) \/ InsertWorkspace(r) \/ EndWorkspace(r)
           \/ TryLoadNewDefConf(r) \/ LoadOldDefConf(r)
  <2>1. /\ UNCHANGED <<web, hdr, allow>>
        /\ pc'[r] \notin {"update", "ask_web", "ask_allow", "del_web"} /\ pc[r] # "reply"
    BY <1>5 DEF GetLastReportNumber, DeleteWorkspace, InsertWorkspace, EndWorkspace,
       TryLoadNewDefConf, LoadOldDefConf, TypeOK, db
  <2> QED BY <1>4, <2>1
<1>6. CASE IsAllowPublic(r)
  <2>1. pc[r] = "allow" /\ call[r].op = "save" /\ pc'[r] \in {"insert", "exist"}
    BY <1>1, <1>6 DEF IsAllowPublic, Place, TypeOK
  <2>2. allow'[r] => User(r) \in Publishers
    BY <1>6 DEF IsAllowPublic, RightsOf, TypeOK
  <2> QED BY <1>3, <2>1, <2>2 DEF RightsOf
<1>7. CASE IsReportExist(r)
  <2>1. pc[r] = "exist" /\ Id(r) \in Ids /\ UNCHANGED <<web, allow>>
    BY <1>7, Written DEF IsReportExist, SaveSteps, db
  <2>2. pc'[r] \in {"update", "insert", "reply"}
    BY <1>7 DEF IsReportExist, Decide, TypeOK
  <2>3. ASSUME pc'[r] = "update" PROVE IF call[r].isPublic THEN allow[r]
          ELSE clean'[r] => web[Id(r)] # NoRow /\ web[Id(r)].creator # PUBLIC_OWNER_ID
    <3>1. CASE Executed /\ web[Id(r)] # NoRow /\ Decide(r, web[Id(r)].creator = PUBLIC_OWNER_ID)
      BY <2>3, <3>1 DEF Decide, TypeOK
    <3>2. CASE Failed(r) /\ Decide(r, FALSE)
      BY <2>3, <3>2 DEF Decide, Failed, TypeOK
    <3>3. CASE Goto(r, "insert")
      BY <2>3, <3>3 DEF TypeOK
    <3> QED BY <1>7, <3>1, <3>2, <3>3 DEF IsReportExist
  <2> QED BY <1>3, <2>1, <2>2, <2>3 DEF RightsOf
<1>8. CASE UpdateReport(r) \/ SaveNewReport(r)
  <2>1. pc'[r] = "reply" /\ UNCHANGED allow /\ pc[r] # "reply"
    BY <1>8 DEF UpdateReport, SaveNewReport, Wrote, TypeOK
  <2> QED BY <1>3, <2>1 DEF RightsOf
<1>9. CASE AskHdr(r) \/ AskWeb(r) \/ AskAllow(r)
  <2>1. /\ call[r].op = "delete" /\ Id(r) \in Ids /\ pc[r] # "reply"
        /\ UNCHANGED <<web, hdr, allow>> /\ pc'[r] # "update"
    BY <1>1, <1>2, <1>9 DEF AskHdr, AskWeb, AskAllow, Found, Place, TypeOK, db
  <2>2. ASSUME Undisturbed(r)'
        PROVE  Undisturbed(r) /\ Executed /\ ~Failed(r) /\ AskedId(r) = Id(r)
    <3>1. clean'[r] /\ Id(r) < ShortIds
      BY <1>3, <2>1, <2>2 DEF Undisturbed
    <3>2. Executed /\ ~Failed(r) /\ clean[r]
      BY <1>9, <3>1 DEF AskHdr, AskWeb, AskAllow, Executed, Failed, TypeOK
    <3>3. ~DeletedByAnother(r)
      BY <2>2, <2>1, <1>3, OthersKeep, IdStays DEF Undisturbed, DeletedByAnother
    <3> QED BY <1>2, <3>1, <3>2, <3>3, ShortIdsFit DEF Undisturbed
  <2>3. User(r) # PUBLIC_OWNER_ID /\ User(r) # NoOne
    BY <1>1, ReportsAssumption
  <2>4. /\ OldCreatorOf(Id(r))' = OldCreatorOf(Id(r)) /\ CreatorOf(Id(r))' = CreatorOf(Id(r))
        /\ MayDelete(User(r), Id(r))' = MayDelete(User(r), Id(r))
    BY <1>3, <2>1 DEF OldCreatorOf, CreatorOf, WebCreatorOf, MayDelete
  <2>5. ASSUME Undisturbed(r)', NEW creator, Found(r, creator), CreatorOf(Id(r)) = creator
        PROVE  /\ pc'[r] # "ask_web"
               /\ pc'[r] = "ask_allow" => CreatorOf(Id(r)) = PUBLIC_OWNER_ID
               /\ pc'[r] = "del_web" => MayDelete(User(r), Id(r))
    BY <2>3, <2>5 DEF Found, MayDelete, TypeOK
  <2>6. ASSUME Undisturbed(r)'
        PROVE  /\ pc'[r] = "ask_web" => OldCreatorOf(Id(r)) = NoOne
               /\ pc'[r] = "ask_allow" => CreatorOf(Id(r)) = PUBLIC_OWNER_ID
               /\ pc'[r] = "del_web" => MayDelete(User(r), Id(r))
    <3>1. CASE AskHdr(r)
      <4>1. \/ OldCreatorOf(Id(r)) # NoOne /\ Found(r, OldCreatorOf(Id(r)))
            \/ OldCreatorOf(Id(r)) = NoOne /\ Goto(r, "ask_web")
        BY <2>2, <2>6, <3>1 DEF AskHdr
      <4> QED BY <2>5, <2>6, <4>1 DEF CreatorOf, TypeOK
    <3>2. CASE AskWeb(r)
      <4>1. OldCreatorOf(Id(r)) = NoOne /\ Found(r, WebCreatorOf(Id(r)))
        BY <2>2, <2>6, <3>2 DEF AskWeb, RightsOf
      <4> QED BY <2>5, <2>6, <4>1 DEF CreatorOf
    <3>3. CASE AskAllow(r)
      <4>1. CreatorOf(Id(r)) = PUBLIC_OWNER_ID
        BY <2>2, <2>6, <3>3 DEF AskAllow, RightsOf
      <4>2. pc'[r] = "reply" \/ (pc'[r] = "del_web" /\ User(r) \in Publishers)
        BY <2>2, <2>6, <3>3 DEF AskAllow, TypeOK
      <4> QED BY <4>1, <4>2 DEF MayDelete
    <3> QED BY <1>9, <3>1, <3>2, <3>3
  <2> QED BY <1>3, <2>1, <2>4, <2>6 DEF RightsOf
<1>10. CASE DeleteRows(r)
  <2>1. pc'[r] \in {"del_def_cfg_web", "del_hdr", "del_info", "del_def_cfg", "reply"}
    BY <1>10, DeleteStep, NextDelete DEF DeleteRows, DeleteSteps, TypeOK
  <2>2. pc[r] # "reply" /\ UNCHANGED allow
    BY <1>10, DeleteStep DEF DeleteRows, DeleteSteps
  <2> QED BY <1>3, <2>1, <2>2 DEF RightsOf
<1>11. CASE Answer(r)
  <2>1. pc'[r] = "done" /\ ~allow'[r]
    BY <1>11 DEF Answer, TypeOK
  <2> QED BY <2>1 DEF RightsOf
<1> QED BY <1>5, <1>6, <1>7, <1>8, <1>9, <1>10, <1>11 DEF Step

LEMMA StepRights ==
  ASSUME TypeOK, Places, Clash, Rights, NEW r \in Requests, Step(r)
  PROVE  Rights'
BY OwnRights, OthersLeaveRights DEF Rights

LEMMA CallRights ==
  ASSUME TypeOK, Places, Rights, NEW r \in Requests, NEW c \in Calls, Call(r, c)
  PROVE  Rights'
<1>1. UNCHANGED <<web, hdr, allow>>
  BY Arrival DEF db
<1>2. RightsOf(r)'
  <2>1. pc'[r] \notin {"update", "ask_web", "ask_allow", "del_web"}
    BY Arrival
  <2>2. ~allow'[r]
    BY <1>1, Arrival, NoCallShape DEF Rights, RightsOf
  <2> QED BY <2>1, <2>2 DEF RightsOf
<1>3. ASSUME NEW q \in Requests, q # r PROVE RightsOf(q)'
  <2>1. /\ pc'[q] = pc[q] /\ call'[q] = call[q] /\ (clean'[q] => clean[q])
        /\ Id(q)' = Id(q) /\ User(q)' = User(q)
    BY <1>3, Arrival DEF Id, User
  <2>2. Undisturbed(q)' => Undisturbed(q)
    <3>1. ASSUME NEW s \in Requests \ {q}, call[s].op = "delete", Id(s) = Id(q)
          PROVE  DeletedByAnother(q)'
      <4>1. s # r
        BY <3>1, Arrival, NoCallShape
      <4> QED BY <2>1, <3>1, <4>1, Arrival DEF DeletedByAnother, Id
    <3> QED BY <2>1, <3>1 DEF Undisturbed, DeletedByAnother
  <2>3. /\ OldCreatorOf(Id(q))' = OldCreatorOf(Id(q)) /\ CreatorOf(Id(q))' = CreatorOf(Id(q))
        /\ MayDelete(User(q), Id(q))' = MayDelete(User(q), Id(q))
    BY <1>1, <2>1 DEF OldCreatorOf, CreatorOf, WebCreatorOf, MayDelete
  <2>4. RightsOf(q)
    BY DEF Rights
  <2> QED BY <1>1, <2>1, <2>2, <2>3, <2>4 DEF RightsOf
<1> QED BY <1>2, <1>3 DEF Rights

-----------------------------------------------------------------------------
(* The theorems.                                                           *)

LEMMA ReportsInit ==
  Init => ReportsInv
<1> SUFFICES ASSUME Init PROVE ReportsInv
  OBVIOUS
<1> USE DEF Init
<1>1. TypeOK
  <2>1. NoRow \in [creator : Creators, writer : Requests \cup {NoOne}]
    BY DEF NoRow, Creators
  <2>2. {} \in WorkspaceRows /\ "new" \in Pcs
    BY DEF WorkspaceRows, Pcs
  <2>3. OldWorkspace \in [Users -> WorkspaceRows]
    <3>1. SUBSET (Nat \X OldIds) \subseteq WorkspaceRows
      BY ReportsAssumption DEF WorkspaceRows
    <3> QED BY <3>1, ReportsAssumption
  <2>4. OldCreator \in [OldIds -> Creators]
    BY ReportsAssumption DEF Creators
  <2>5. 0 \in 0..MaxId /\ 0 \in 0..MaxFailures
    BY ReportsAssumption
  <2>6. \A r \in Requests : next[r] \in 1..(Len(call[r].items) + 1)
    BY NoCallShape
  <2> QED BY <2>1, <2>2, <2>3, <2>4, <2>5, <2>6 DEF TypeOK
<1>2. Places
  BY DEF Places, Place, Busy
<1>3. Clash /\ SavedIsKept /\ Gone /\ Inserted /\ Loads
  BY DEF Clash, SavedIsKept, Gone, GoneOf, After, Inserted, Loads, Busy
<1>4. Wanted
  BY DEF Wanted
<1>5. Rights
  BY DEF Rights, RightsOf
<1> QED BY <1>1, <1>2, <1>3, <1>4, <1>5 DEF ReportsInv

LEMMA ReportsStep ==
  ReportsInv /\ [Next]_vars => ReportsInv'
<1> SUFFICES ASSUME ReportsInv, [Next]_vars PROVE ReportsInv'
  OBVIOUS
<1> USE DEF ReportsInv
<1>1. ASSUME NEW r \in Requests, Step(r) PROVE ReportsInv'
  BY <1>1, StepTypes, StepPlaces, StepClash, StepSaved, StepGone, StepWanted, StepInserted,
     StepLoads, StepRights
<1>2. ASSUME NEW r \in Requests, NEW c \in Calls, Call(r, c) PROVE ReportsInv'
  <2>1. TypeOK'
    BY <1>2, CallTypes, Arrival
  <2> QED BY <1>2, <2>1, CallPlaces, CallClash, CallSaved, CallGone, CallWanted, CallInserted,
             CallLoads, CallRights
<1>3. CASE UNCHANGED vars
  <2> USE <1>3 DEF vars, db, request, history
  <2>1. TypeOK' /\ Places' /\ Clash' /\ SavedIsKept'
    BY DEF TypeOK, Places, Place, Busy, Clash, SavedIsKept, RowOf, User, Id
  <2>2. Gone'
    BY DEF Id, Gone, GoneOf, After, OldCreatorOf
  <2>4. Wanted'
    BY DEF User, Wanted
  <2>5. Inserted'
    BY DEF User, Inserted, Items
  <2>6. Loads'
    BY DEF User, Busy, Loads
  <2>3. Rights'
    <3>1. ASSUME NEW r \in Requests PROVE Undisturbed(r)' = Undisturbed(r)
      BY DEF Undisturbed, DeletedByAnother, Id
    <3>2. ASSUME NEW k PROVE CreatorOf(k)' = CreatorOf(k) /\ OldCreatorOf(k)' = OldCreatorOf(k)
      BY DEF CreatorOf, OldCreatorOf, WebCreatorOf
    <3>3. ASSUME NEW r \in Requests PROVE RightsOf(r)'
      BY <3>1, <3>2 DEF Rights, RightsOf, User, Id, MayDelete
    <3> QED BY <3>3 DEF Rights
  <2> QED BY <2>1, <2>2, <2>3, <2>4, <2>5, <2>6
<1> QED BY <1>1, <1>2, <1>3 DEF Next, AllAnswered

(* The invariant: what requests in progress, disturbed or not, have done   *)
(* to the tables of saved reports and workspaces.                          *)
THEOREM ReportsInvariant ==
  Spec => []ReportsInv
<1> QED BY ReportsInit, ReportsStep, PTL DEF Spec

(* Reports, workspace rows and the answers of the four operations have     *)
(* their types whatever statements fail.                                   *)
THEOREM ReportsTypeCorrect ==
  Spec => []TypeOK
<1>1. ReportsInv => TypeOK
  BY DEF ReportsInv
<1> QED BY <1>1, ReportsInvariant, PTL

(* A report whose save was answered stays as it was saved until a request  *)
(* names its id, however many saves compute the same new id.               *)
THEOREM SavedReportsAreKept ==
  Spec => []SavedIsKept
<1>1. ReportsInv => SavedIsKept
  BY DEF ReportsInv
<1> QED BY <1>1, ReportsInvariant, PTL

(* A delete that was answered 0, none of whose statements failed and that  *)
(* no other request disturbed, has left no row that mentions the report.   *)
THEOREM DeletesAreComplete ==
  Spec => []DeleteIsComplete
<1>1. ReportsInv => DeleteIsComplete
  <2> SUFFICES ASSUME ReportsInv, NEW r \in Requests, call[r].op = "delete", pc[r] = "reply",
                      cause[r] = 0, clean[r]
               PROVE  ~Mentions(Id(r))
    BY DEF DeleteIsComplete
  <2>1. GoneOf(r)
    BY DEF ReportsInv, Gone
  <2> QED BY <2>1 DEF GoneOf, After, Mentions
<1> QED BY <1>1, ReportsInvariant, PTL

(* What a user loads is the workspace he has saved last, without the       *)
(* reports deleted since, or the old one when nothing is left of it.       *)
THEOREM SavedWorkspaceIsLoaded ==
  Spec => []SavedIsLoaded
<1>1. ReportsInv => SavedIsLoaded
  BY DEF ReportsInv, Loads, SavedIsLoaded, Busy
<1> QED BY <1>1, ReportsInvariant, PTL

-----------------------------------------------------------------------------
(* The step that changes a row is taken with the right to.                 *)
LEMMA ChangedByRight ==
  ASSUME ReportsInv, [Next]_vars, NEW r \in Requests, NEW k \in Ids,
         pc'[r] # pc[r], web[k] # NoRow, web'[k] # web[k]
  PROVE  CASE call[r].op = "save" ->
                IF call[r].isPublic THEN User(r) \in Publishers
                ELSE clean[r] => web[k].creator # PUBLIC_OWNER_ID
           [] call[r].op = "delete" ->
                clean[r] /\ k < ShortIds /\ ~DeletedByAnother(r) => MayDelete(User(r), k)
           [] OTHER -> FALSE
<1> USE DEF ReportsInv
<1>1. Step(r)
  <2>1. ASSUME NEW q \in Requests, Step(q) PROVE q = r
    BY <2>1, OthersKeep
  <2>2. ASSUME NEW q \in Requests, NEW c \in Calls, Call(q, c) PROVE FALSE
    BY <2>2 DEF Call, db
  <2> QED BY <2>1, <2>2 DEF Next, AllAnswered, vars, db
<1>2. RightsOf(r)
  BY DEF Rights
<1>3. ASSUME call[r].op = "save", pc[r] \in {"update", "insert"}, NEW j \in Ids,
             web' = [web EXCEPT ![j] = RowOf(r)],
             j = Id(r) \/ (j = NewId(r) /\ web[j] = NoRow)
      PROVE  IF call[r].isPublic THEN User(r) \in Publishers
             ELSE clean[r] => web[k].creator # PUBLIC_OWNER_ID
  <2>1. j = k /\ k = Id(r)
    BY <1>3 DEF TypeOK
  <2>2. UpdateReport(r)
    <3>1. SaveNewReport(r) \/ UpdateReport(r)
      BY <1>1, <1>3, DeleteStep DEF Step, DeleteSteps, GetLastReportNumber, IsAllowPublic,
         IsReportExist, AskHdr, AskWeb, AskAllow, DeleteWorkspace, InsertWorkspace,
         EndWorkspace, TryLoadNewDefConf, LoadOldDefConf, Answer
    <3>2. ASSUME SaveNewReport(r) PROVE FALSE
      <4>1. NewId(r) = k
        <5>1. k # 0
          BY IdsAre
        <5> QED BY <2>1, <5>1 DEF NewId
      <4>2. web[k] = NoRow \/ UNCHANGED web
        BY <3>2, <4>1 DEF SaveNewReport
      <4> QED BY <4>2
    <3> QED BY <3>1, <3>2
  <2> QED BY <1>2, <2>1, <2>2 DEF UpdateReport, RightsOf
<1>4. ASSUME call[r].op = "delete", Id(r) \in Ids, pc[r] \in DeleteSteps,
             web' = [web EXCEPT ![Id(r)] = NoRow], clean[r], k < ShortIds, ~DeletedByAnother(r)
      PROVE  MayDelete(User(r), k)
  <2>1. k = Id(r)
    BY <1>4 DEF TypeOK
  <2>2. DeleteRows(r)
    BY <1>1, <1>4 DEF DeleteSteps, Step, GetLastReportNumber, IsAllowPublic,
         IsReportExist, UpdateReport, SaveNewReport, AskHdr, AskWeb, AskAllow, DeleteWorkspace,
         InsertWorkspace, EndWorkspace, TryLoadNewDefConf, LoadOldDefConf, Answer
  <2>3. pc[r] = "del_web"
    BY <2>2 DEF DeleteRows, db
  <2> QED BY <1>2, <1>4, <2>1, <2>3 DEF RightsOf, Undisturbed
<1> QED BY <1>1, <1>3, <1>4, WebEffect

(* A save or a delete that nothing came between changes a report only with *)
(* the right to: publishing needs the right to publish always, and the     *)
(* delete of a report with an id that an unsigned short holds is made by   *)
(* its creator or, when it is public, by a user who may publish.           *)
THEOREM RightsAreRespected ==
  Spec => RightsRespected
<1>1. ReportsInv /\ [Next]_vars =>
        [\A r \in Requests, k \in Ids :
           pc'[r] # pc[r] /\ web[k] # NoRow /\ web'[k] # web[k] =>
             CASE call[r].op = "save" ->
                    IF call[r].isPublic THEN User(r) \in Publishers
                    ELSE clean[r] => web[k].creator # PUBLIC_OWNER_ID
               [] call[r].op = "delete" ->
                    clean[r] /\ k < ShortIds /\ ~DeletedByAnother(r) => MayDelete(User(r), k)
               [] OTHER -> FALSE]_vars
  BY ChangedByRight
<1> QED BY <1>1, ReportsInvariant, PTL DEF Spec, RightsRespected

=============================================================================
