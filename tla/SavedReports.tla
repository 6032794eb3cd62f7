----------------------------- MODULE SavedReports -----------------------------
(***************************************************************************)
(* Saved reports and workspaces (csa_web_report.cpp): SaveReport,          *)
(* DeleteReport, SaveWorkspase and DefaultWorkspace.  Each is a series of  *)
(* SQL statements without a transaction, run by as many pool threads as    *)
(* there are requests; any statement may fail.                             *)
(*                                                                         *)
(* The reports of the web application are in nla_report_info_web and       *)
(* def_cfg_web.  Those of the older desktop application are in             *)
(* nla_report_hdr, nla_report_info and def_cfg, which are read and deleted *)
(* from, but not written.                                                  *)
(*                                                                         *)
(* A request whose ticket is not verified changes nothing and is left out. *)
(* So is the font and language column that SaveWorkspase writes last.      *)
(***************************************************************************)
EXTENDS Naturals, Sequences, FiniteSetsExt

CONSTANTS
  Requests,     \* the requests, each made once
  Users,        \* user ids of the supervisors
  PUBLIC_OWNER_ID, \* creator of a public report
  NoOne,        \* no creator, no writer: there is no such row
  Publishers,   \* users whose p_allow_to_save_public is "t"
  OldCreator,   \* creator of each report of the desktop application
  OldWorkspace, \* rows <<sequence number, report>> of each user in def_cfg
  FIRST_REPORT_ID, \* CSA_WEB_FIRST_REPORT_ID
  ClientIds,    \* the report ids clients name
  Workspaces,   \* the sequences of report ids clients save
  ShortIds,     \* how many ids an unsigned short can tell apart
  MaxId,        \* bound: the largest report id
  MaxSaves,     \* bound: requests that save a report
  MaxFailures   \* bound: statements that fail

OldIds == DOMAIN OldCreator
Ids    == 1..MaxId
Rows(items) == {<<n, items[n]>> : n \in DOMAIN items}

ASSUME ReportsAssumption ==
  /\ PUBLIC_OWNER_ID \notin Users
  /\ NoOne \notin Users \cup {PUBLIC_OWNER_ID} \cup Requests
  /\ Publishers \subseteq Users
  /\ FIRST_REPORT_ID \in Nat /\ ShortIds \in Nat \ {0}
  /\ MaxId \in Nat /\ MaxSaves \in Nat
  /\ FIRST_REPORT_ID < MaxId  \* there is room for a new report
  /\ OldIds \subseteq 1..FIRST_REPORT_ID
  /\ OldCreator \in [OldIds -> Users \cup {PUBLIC_OWNER_ID}]
  /\ ClientIds \subseteq Ids
  /\ OldIds \subseteq Ids
  /\ Workspaces \subseteq Seq(ClientIds)
  /\ OldWorkspace \in [Users -> SUBSET (Nat \X OldIds)]
  /\ MaxFailures \in Nat

Calls ==
  [op : {"save"}, user : Users, id : ClientIds \cup {0}, isPublic : BOOLEAN, items : {<<>>}]
  \cup [op : {"delete"}, user : Users, id : ClientIds, isPublic : {FALSE}, items : {<<>>}]
  \cup [op : {"workspace"}, user : Users, id : {0}, isPublic : {FALSE}, items : Workspaces]
  \cup [op : {"load"}, user : Users, id : {0}, isPublic : {FALSE}, items : {<<>>}]

NoCall == [op |-> "none", user |-> NoOne, id |-> 0, isPublic |-> FALSE, items |-> <<>>]
NoRow  == [creator |-> NoOne, writer |-> NoOne]

VARIABLES
  (* the database *)
  web,      \* nla_report_info_web: creator and content of each report
  def_cfg_web,  \* workspace rows of each user
  hdr,      \* nla_report_hdr: creator of each old report
  info,     \* nla_report_info: the old reports it has rows of
  def_cfg,  \* old workspace rows of each user
  (* each request *)
  pc,       \* its next statement
  call,     \* what is asked
  last,     \* m_LastReportId
  allow,    \* bAllowPublic
  next,     \* i: the next workspace row
  cause,    \* what the function returns; not 0 is an errorCause
  saved,    \* SavedReportID of a successful save
  shown,    \* the workspace in the reply
  (* history *)
  failures, \* statements that have failed
  clean,    \* no statement of the request failed, no request disturbed it
  want      \* rows of the workspace a user has last saved, if that was clean

db      == <<web, def_cfg_web, hdr, info, def_cfg>>
request == <<pc, call, last, allow, next, cause, saved, shown>>
history == <<failures, clean, want>>
vars == <<db, request, history>>

Deletes == <<"del_web", "del_def_cfg_web", "del_hdr", "del_info", "del_def_cfg">>
Pcs == {"new", "last", "allow", "exist", "update", "insert",
        "ask_hdr", "ask_web", "ask_allow",
        "ws_delete", "ws_insert", "load_new", "load_old", "reply", "done"}
       \cup {Deletes[n] : n \in 1..5}

Creators == Users \cup {PUBLIC_OWNER_ID, NoOne}
WorkspaceRows == SUBSET (Nat \X Ids)
Unknown == {<<0, 0>>}

TypeOK ==
  /\ web \in [Ids -> [creator : Creators, writer : Requests \cup {NoOne}]]
  /\ def_cfg_web \in [Users -> WorkspaceRows]
  /\ hdr \in [OldIds -> Creators]
  /\ info \subseteq OldIds
  /\ def_cfg \in [Users -> WorkspaceRows]
  /\ pc \in [Requests -> Pcs]
  /\ call \in [Requests -> Calls \cup {NoCall}]
  /\ last \in [Requests -> 0..MaxId]
  /\ allow \in [Requests -> BOOLEAN]
  /\ next \in [Requests -> Nat]
  /\ \A r \in Requests : next[r] \in 1..(Len(call[r].items) + 1)
  /\ cause \in [Requests -> {0, 1, 2, 6, 301, 302, 303}]
  /\ saved \in [Requests -> 0..MaxId]
  /\ shown \in [Requests -> WorkspaceRows]
  /\ failures \in 0..MaxFailures
  /\ clean \in [Requests -> BOOLEAN]
  /\ want \in [Users -> WorkspaceRows \cup {Unknown}]

(* The tables as the desktop application left them, the new ones empty. *)
Init ==
  /\ web = [k \in Ids |-> NoRow]
  /\ def_cfg_web = [u \in Users |-> {}]
  /\ hdr = OldCreator
  /\ info = OldIds
  /\ def_cfg = OldWorkspace
  /\ pc = [r \in Requests |-> "new"]
  /\ call = [r \in Requests |-> NoCall]
  /\ last = [r \in Requests |-> 0]
  /\ allow = [r \in Requests |-> FALSE]
  /\ next = [r \in Requests |-> 1]
  /\ cause = [r \in Requests |-> 0]
  /\ saved = [r \in Requests |-> 0]
  /\ shown = [r \in Requests |-> {}]
  /\ failures = 0
  /\ clean = [r \in Requests |-> TRUE]
  /\ want = [u \in Users |-> {}]

User(r) == call[r].user
Id(r)   == call[r].id

Goto(r, there)  == pc' = [pc EXCEPT ![r] = there]
Reply(r, error) == Goto(r, "reply") /\ cause' = [cause EXCEPT ![r] = error]

(* A statement is executed, or ExecuteUpdateSyn, ExecuteSelectSyn or a     *)
(* column of the result fails.                                             *)
Executed == UNCHANGED <<failures, clean>>
Failed(r) ==
  /\ failures < MaxFailures
  /\ failures' = failures + 1
  /\ clean' = [clean EXCEPT ![r] = FALSE]

-----------------------------------------------------------------------------
(* Arrival of a request.  Two requests that touch the same rows disturb    *)
(* each other if they overlap.                                             *)
Disturbs(c, d) ==
  \/ c.op = "delete" /\ d.op = "save" /\ d.id \in {0, c.id}
  \/ c.op = "delete" /\ d.op = "workspace" /\ \E n \in DOMAIN d.items : d.items[n] = c.id
  \/ c.op = "delete" /\ d.op = "load"
  \/ c.op = "save" /\ d.op = "save" /\ c.id = d.id /\ c.id # 0
  \/ c.op = "workspace" /\ d.op \in {"workspace", "load"} /\ c.user = d.user

Disturbed(c, d) == Disturbs(c, d) \/ Disturbs(d, c)
Busy(r) == pc[r] \notin {"new", "done"}

Call(r, c) ==
  /\ pc[r] = "new"
  /\ c.op = "save" => Cardinality({s \in Requests : call[s].op = "save"}) < MaxSaves
  /\ call' = [call EXCEPT ![r] = c]
  /\ Goto(r, CASE c.op = "save"      -> "last"
               [] c.op = "delete"    -> "ask_hdr"
               [] c.op = "workspace" -> "ws_delete"
               [] c.op = "load"      -> "load_new")
  /\ clean' = [s \in Requests |->
                 IF s = r THEN ~ \E x \in Requests : Busy(x) /\ Disturbed(c, call[x])
                          ELSE clean[s] /\ ~(Busy(s) /\ Disturbed(c, call[s]))]
  /\ want' = [u \in Users |->
                IF c.op = "workspace" /\ c.user = u THEN Unknown ELSE want[u]]
  /\ UNCHANGED <<db, last, allow, next, cause, saved, shown, failures>>

-----------------------------------------------------------------------------
(* SaveReport.                                                             *)

NextReportId ==
  LET used == {k \in Ids : web[k] # NoRow}
  IN  IF used = {} THEN FIRST_REPORT_ID + 1 ELSE Max(used) + 1

(* GetLastReportNumber.  A select that fails may still look like an empty  *)
(* result.                                                                 *)
GetLastReportNumber(r) ==
  /\ pc[r] = "last"
  /\ \/ /\ Executed
        /\ NextReportId \in Ids
        /\ last' = [last EXCEPT ![r] = NextReportId]
        /\ Goto(r, "allow") /\ UNCHANGED cause
     \/ /\ Failed(r)
        /\ last' = [last EXCEPT ![r] = FIRST_REPORT_ID + 1]
        /\ \/ Goto(r, "allow") /\ UNCHANGED cause
           \/ Reply(r, 301)
  /\ UNCHANGED <<db, call, allow, next, saved, shown, want>>

(* IsAllowPublic; a failure leaves bAllowPublic FALSE. *)
IsAllowPublic(r) ==
  /\ pc[r] = "allow"
  /\ \/ Executed /\ allow' = [allow EXCEPT ![r] = User(r) \in Publishers]
     \/ Failed(r) /\ UNCHANGED allow
  /\ Goto(r, IF Id(r) = 0 THEN "insert" ELSE "exist")
  /\ UNCHANGED <<db, call, last, next, cause, saved, shown, want>>

(* A faulty Decide, for mutation: a public report may be made private. *)
DecideByRight(r, bIsPublic) ==
  \/ call[r].isPublic /\ ~allow[r] /\ Reply(r, 302)
  \/ (call[r].isPublic => allow[r]) /\ Goto(r, "update") /\ UNCHANGED cause

(* The decision about a report that exists, between UpdateReport and a     *)
(* refusal.                                                                *)
Decide(r, bIsPublic) ==
  \/ call[r].isPublic /\ ~allow[r] /\ Reply(r, 302)
  \/ ~call[r].isPublic /\ bIsPublic /\ Reply(r, 303)
  \/ /\ IF call[r].isPublic THEN allow[r] ELSE ~bIsPublic
     /\ Goto(r, "update") /\ UNCHANGED cause

(* IsReportExist, which looks in the new table only: a report that is not  *)
(* found is new, one whose creator cannot be read is taken for private.    *)
IsReportExist(r) ==
  /\ pc[r] = "exist"
  /\ LET row == web[Id(r)] IN
       \/ Executed /\ row # NoRow /\ Decide(r, row.creator = PUBLIC_OWNER_ID)
       \/ Failed(r) /\ row # NoRow /\ Decide(r, FALSE)
       \/ /\ (row = NoRow /\ Executed) \/ Failed(r)
          /\ Goto(r, "insert") /\ UNCHANGED cause
  /\ UNCHANGED <<db, call, last, allow, next, saved, shown, want>>

(* Faulty variant, for mutation: the ids of report and user are swapped. *)
SwappedRow(r) == [creator |-> Id(r), writer |-> r]

RowOf(r) == [creator |-> IF call[r].isPublic THEN PUBLIC_OWNER_ID ELSE User(r),
             writer  |-> r]

(* The report of r is written under id k: the end of both saves. *)
Wrote(r, k) ==
  /\ web' = [web EXCEPT ![k] = RowOf(r)]
  /\ saved' = [saved EXCEPT ![r] = k]
  /\ Reply(r, 0)

(* UpdateReport: replace into nla_report_info_web. *)
UpdateReport(r) ==
  /\ pc[r] = "update"
  /\ \/ Executed /\ Wrote(r, Id(r))
     \/ Failed(r) /\ Reply(r, 1) /\ UNCHANGED <<web, saved>>
  /\ UNCHANGED <<def_cfg_web, hdr, info, def_cfg, call, last, allow, next, shown, want>>

(* The id a new report is given. *)
NewId(r) == IF Id(r) = 0 THEN last[r] ELSE Id(r)

(* Faulty variant, for mutation: the new row replaces one with its id. *)
ReplaceNewReport(r) ==
  /\ pc[r] = "insert"
  /\ Executed
  /\ Wrote(r, NewId(r))
  /\ UNCHANGED <<def_cfg_web, hdr, info, def_cfg, call, last, allow, next, shown, want>>

(* SaveNewReport: insert into nla_report_info_web, whose key is report_id. *)
SaveNewReport(r) ==
  /\ pc[r] = "insert"
  /\ \/ Executed /\ web[NewId(r)] = NoRow /\ Wrote(r, NewId(r))
     \/ /\ (web[NewId(r)] # NoRow /\ Executed) \/ Failed(r)
        /\ Reply(r, 1)
        /\ UNCHANGED <<web, saved>>
  /\ UNCHANGED <<def_cfg_web, hdr, info, def_cfg, call, last, allow, next, shown, want>>

-----------------------------------------------------------------------------
(* DeleteReport.                                                           *)

(* isReportPublic: what the creator of a row that was found leads to. *)
Found(r, creator) ==
  \/ creator = PUBLIC_OWNER_ID /\ Goto(r, "ask_allow") /\ UNCHANGED cause
  \/ creator = User(r) /\ Goto(r, "del_web") /\ UNCHANGED cause
  \/ creator \notin {PUBLIC_OWNER_ID, User(r)} /\ Reply(r, 6)

OldCreatorOf(k) == IF k \in OldIds THEN hdr[k] ELSE NoOne
WebCreatorOf(k) == IF k \in Ids THEN web[k].creator ELSE NoOne

(* It takes the id as an unsigned short. *)
AskedId(r) == Id(r) % ShortIds

(* A faulty AskHdr, for mutation: nla_report_hdr is not looked at. *)
SkipHdr(r) ==
  /\ pc[r] = "ask_hdr"
  /\ Goto(r, "ask_web")
  /\ UNCHANGED <<db, call, last, allow, next, cause, saved, shown, failures, clean, want>>

(* It looks in nla_report_hdr first ... *)
AskHdr(r) ==
  /\ pc[r] = "ask_hdr"
  /\ LET creator == OldCreatorOf(AskedId(r)) IN
       \/ creator # NoOne /\ Executed /\ Found(r, creator)
       \/ /\ (creator = NoOne /\ Executed) \/ Failed(r)
          /\ Goto(r, "ask_web") /\ UNCHANGED cause
  /\ UNCHANGED <<db, call, last, allow, next, saved, shown, want>>

(* ... then in nla_report_info_web. *)
AskWeb(r) ==
  /\ pc[r] = "ask_web"
  /\ \/ Executed /\ Found(r, WebCreatorOf(AskedId(r)))
     \/ Failed(r) /\ Reply(r, 6)
  /\ UNCHANGED <<db, call, last, allow, next, saved, shown, want>>

(* A public report; the delete goes on if the right cannot be read. *)
AskAllow(r) ==
  /\ pc[r] = "ask_allow"
  /\ \/ Executed /\ User(r) \notin Publishers /\ Reply(r, 2)
     \/ /\ (User(r) \in Publishers /\ Executed) \/ Failed(r)
        /\ Goto(r, "del_web") /\ UNCHANGED cause
  /\ UNCHANGED <<db, call, last, allow, next, saved, shown, want>>

(* Faulty variant, for mutation: the old workspace is forgotten. *)
ForgetOldWorkspace(here) ==
  LET n == CHOOSE m \in 1..5 : Deletes[m] = here
  IN  IF n >= 4 THEN "reply" ELSE Deletes[n + 1]

(* The five deletes, none of which is checked for success. *)
AfterDelete(here) ==
  LET n == CHOOSE m \in 1..5 : Deletes[m] = here
  IN  IF n = 5 THEN "reply" ELSE Deletes[n + 1]

Without(rows, k) == {row \in rows : row[2] # k}

DeleteRows(r) ==
  LET k == Id(r)
      from(table) == pc[r] = table
  IN
  /\ \E n \in 1..5 : from(Deletes[n])
  /\ \/ Failed(r) /\ UNCHANGED <<db, want>>
     \/ /\ Executed
        /\ web' = IF from("del_web") THEN [web EXCEPT ![k] = NoRow] ELSE web
        /\ def_cfg_web' = [u \in Users |->
             IF from("del_def_cfg_web") THEN Without(def_cfg_web[u], k) ELSE def_cfg_web[u]]
        /\ want' = [u \in Users |->
             IF from("del_def_cfg_web") /\ want[u] # Unknown THEN Without(want[u], k) ELSE want[u]]
        /\ hdr' = IF from("del_hdr") /\ k \in OldIds THEN [hdr EXCEPT ![k] = NoOne] ELSE hdr
        /\ info' = IF from("del_info") THEN info \ {k} ELSE info
        /\ def_cfg' = [u \in Users |->
             IF from("del_def_cfg") THEN Without(def_cfg[u], k) ELSE def_cfg[u]]
  /\ Goto(r, AfterDelete(pc[r]))
  /\ UNCHANGED <<call, last, allow, next, cause, saved, shown>>

-----------------------------------------------------------------------------
(* SaveWorkspase.                                                          *)

(* Faulty variant, for mutation: the old rows are not deleted. *)
KeepWorkspace(r) ==
  /\ pc[r] = "ws_delete"
  /\ Goto(r, "ws_insert")
  /\ UNCHANGED <<db, call, last, allow, next, cause, saved, shown, failures, clean, want>>

(* The old rows are deleted, and if that fails they stay ...               *)
DeleteWorkspace(r) ==
  /\ pc[r] = "ws_delete"
  /\ \/ Executed /\ def_cfg_web' = [def_cfg_web EXCEPT ![User(r)] = {}]
     \/ Failed(r) /\ UNCHANGED def_cfg_web
  /\ Goto(r, "ws_insert")
  /\ UNCHANGED <<web, hdr, info, def_cfg, call, last, allow, next, cause, saved, shown, want>>

(* ... and the new ones are inserted one by one until one fails. *)
Items(r) == call[r].items

InsertWorkspace(r) ==
  /\ pc[r] = "ws_insert"
  /\ next[r] <= Len(Items(r))
  /\ \/ /\ Executed
        /\ def_cfg_web' = [def_cfg_web EXCEPT ![User(r)] = @ \cup {<<next[r], Items(r)[next[r]]>>}]
        /\ next' = [next EXCEPT ![r] = @ + 1]
        /\ UNCHANGED <<pc, cause>>
     \/ Failed(r) /\ Reply(r, 1) /\ UNCHANGED <<def_cfg_web, next>>
  /\ UNCHANGED <<web, hdr, info, def_cfg, call, last, allow, saved, shown, want>>

EndWorkspace(r) ==
  /\ pc[r] = "ws_insert"
  /\ next[r] > Len(Items(r))
  /\ Reply(r, 0)
  /\ want' = IF clean[r] THEN [want EXCEPT ![User(r)] = Rows(Items(r))] ELSE want
  /\ UNCHANGED <<db, call, last, allow, next, saved, shown, failures, clean>>

-----------------------------------------------------------------------------
(* DefaultWorkspace: TryLoadNewDefConf, and LoadOldDefConf when the user   *)
(* has no new rows or they cannot be read.                                 *)
TryLoadNewDefConf(r) ==
  /\ pc[r] = "load_new"
  /\ \/ /\ Executed
        /\ def_cfg_web[User(r)] # {}
        /\ shown' = [shown EXCEPT ![r] = def_cfg_web[User(r)]]
        /\ Reply(r, 0)
     \/ /\ (def_cfg_web[User(r)] = {} /\ Executed) \/ Failed(r)
        /\ Goto(r, "load_old") /\ UNCHANGED <<cause, shown>>
  /\ UNCHANGED <<db, call, last, allow, next, saved, want>>

LoadOldDefConf(r) ==
  /\ pc[r] = "load_old"
  /\ \/ Executed /\ shown' = [shown EXCEPT ![r] = def_cfg[User(r)]]
     \/ Failed(r) /\ UNCHANGED shown
  /\ Reply(r, 0)
  /\ UNCHANGED <<db, call, last, allow, next, saved, want>>

-----------------------------------------------------------------------------
(* The reply is sent and the locals of the request are gone; what a save   *)
(* or a delete was about is kept for the properties.                       *)
Answer(r) ==
  /\ pc[r] = "reply"
  /\ Goto(r, "done")
  /\ call' = [call EXCEPT ![r] = IF @.op \in {"save", "delete"} THEN @ ELSE NoCall]
  /\ last' = [last EXCEPT ![r] = 0]
  /\ allow' = [allow EXCEPT ![r] = FALSE]
  /\ next' = [next EXCEPT ![r] = 1]
  /\ cause' = [cause EXCEPT ![r] = 0]
  /\ shown' = [shown EXCEPT ![r] = {}]
  /\ clean' = [clean EXCEPT ![r] = TRUE]
  /\ UNCHANGED <<db, saved, failures, want>>

Step(r) ==
  \/ GetLastReportNumber(r) \/ IsAllowPublic(r) \/ IsReportExist(r)
  \/ UpdateReport(r) \/ SaveNewReport(r)
  \/ AskHdr(r) \/ AskWeb(r) \/ AskAllow(r) \/ DeleteRows(r)
  \/ DeleteWorkspace(r) \/ InsertWorkspace(r) \/ EndWorkspace(r)
  \/ TryLoadNewDefConf(r) \/ LoadOldDefConf(r)
  \/ Answer(r)

(* All requests have been made: the bound of the model. *)
AllAnswered == (\A r \in Requests : pc[r] = "done") /\ UNCHANGED vars

Next ==
  \/ \E r \in Requests : Step(r) \/ \E c \in Calls : Call(r, c)
  \/ AllAnswered

Spec == Init /\ [][Next]_vars

-----------------------------------------------------------------------------
(* A report that was answered as saved is in the table as it was saved,    *)
(* whatever other saves, some with the same freshly computed id, did at    *)
(* the same time: it changes only by a request that names its id.          *)
SavedIsKept ==
  \A r \in Requests :
    saved[r] # 0 =>
      \/ web[saved[r]] = RowOf(r)
      \/ \E s \in Requests \ {r} : Id(s) = saved[r]

(* When a delete none of whose statements failed is answered 0, no table   *)
(* mentions the report any more, neither the new nor the old ones.         *)
Mentions(k) ==
  \/ web[k] # NoRow \/ OldCreatorOf(k) # NoOne \/ k \in info
  \/ \E u \in Users : \E row \in def_cfg_web[u] \cup def_cfg[u] : row[2] = k

DeleteIsComplete ==
  \A r \in Requests :
    call[r].op = "delete" /\ pc[r] = "reply" /\ cause[r] = 0 /\ clean[r] =>
      ~Mentions(Id(r))

(* A report that exists is changed by who may: made public or deleted when *)
(* public with the right to publish, deleted when private by its creator,  *)
(* and never made private again.  DeleteReport judges a report that has an *)
(* old one by that.  The checks are not repeated when the row is written,  *)
(* so they say nothing once a statement has failed or another request      *)
(* about the report came between (SaveReport, DeleteReport), nor about an  *)
(* id that an unsigned short cuts off (isReportPublic).                    *)
CreatorOf(k) == IF OldCreatorOf(k) # NoOne THEN OldCreatorOf(k) ELSE WebCreatorOf(k)

MayDelete(u, k) ==
  IF CreatorOf(k) = PUBLIC_OWNER_ID THEN u \in Publishers ELSE CreatorOf(k) = u

DeletedByAnother(r) ==
  \E s \in Requests \ {r} : call[s].op = "delete" /\ Id(s) = Id(r)

RightsRespected ==
  [][\A r \in Requests, k \in Ids :
       pc'[r] # pc[r] /\ web[k] # NoRow /\ web'[k] # web[k] =>
         CASE call[r].op = "save" ->
                IF call[r].isPublic THEN User(r) \in Publishers
                ELSE clean[r] => web[k].creator # PUBLIC_OWNER_ID
           [] call[r].op = "delete" ->
                clean[r] /\ k < ShortIds /\ ~DeletedByAnother(r) => MayDelete(User(r), k)
           [] OTHER -> FALSE]_vars

(* What a user loads is what he last saved, without the reports deleted    *)
(* since, and the old workspace when nothing is left of it.                *)
SavedIsLoaded ==
  \A r \in Requests :
    call[r].op = "load" /\ pc[r] = "reply" /\ clean[r] /\ want[User(r)] # Unknown =>
      shown[r] = IF want[User(r)] = {} THEN def_cfg[User(r)] ELSE want[User(r)]

=============================================================================
