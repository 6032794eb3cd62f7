# AccRealTime: a TLA+ model

AccRealTime shows call-centre supervisors what agents, groups, DNIS numbers and
IVR ports are doing. Two programs make it up:

* `src/csa_web` - a multi-threaded gSOAP server (C++). It answers reports from
  the call centre's online tables, logs supervisors in through the session
  manager, and forwards commands to agents.
* `src/Backend` - the web application `webNLA` (Java servlets). It registers
  with one of two `csa_web` servers, keeps the registration alive, logs its
  users in, and polls the reports.

This directory holds TLA+ modules translated from that code, TLC configurations
that check them, and proofs that TLAPS checks. The source is the reference:
`PROJECT.json` maps every definition to the lines it models.

## 1. The system

### Parts of `csa_web`

| Part | State | Operations | Talks to |
|---|---|---|---|
| Connection front end (`csa_web_main.cpp`, `csa_web_thmanager.cpp`, `csa_web_online_srv_th.cpp`, `csa_web_srv_th_interface.h`) | per pool thread: `m_crit`, `m_status`, `m_soap`, `m_event`; the heap of `CsaWebServer` copies | accept, scan, hand over, wait, serve, delete | every SOAP operation runs inside `serve()` |
| Report gate (`do_reports_area`) | one flag per report code, unprotected | test and set in six reports, clear in the pool thread | front end, reports |
| Tickets (`csa_web_ticket.cpp`) | `tab` (ticket -> `sup_data_t`), `app_id_map`, a lock | login, logout, sweep of an application, verification | session manager (external), all reports |
| Trace (`csa_web_trace.cpp`) | `tab` (address -> application and counters), a lock | add, remove, count logins | `csa_gsoap_th_mngr` (external), login, logout |
| Application supervision (`ApplicationRegister`, `ApplicationKeepAlive`, `ThMngr_c::RemoveAplication`) | `ha_status_is_active`, the registered applications (external) | register, keep alive, expire | tickets, trace, HA status (external) |
| Entity tables (groups, agents, super groups, DNIS, IVR, mailboxes) | one `std::map` with one shared iterator each, a lock each, reloaded from the database on request | load, iterate, look up | reports |
| Limits (`csa_web_limits.cpp`) | red and yellow limits per group and statistic, a lock | reload row by row, colour of a value | reports, login |
| Reports and replies (`csa_web_serverMT.cpp`, `*_reply.cpp`) | per request: reply, `m_ReportCode` | some forty SOAP operations | all of the above |
| Saved reports and workspaces (`csa_web_report.cpp`) | rows of five database tables | save, delete, save a workspace, load it | database |

`csa_web_lock.cpp` gives every table the same three calls: `csa_web_TryLock`
(200 attempts, 5 ms apart, then error 700), `csa_web_TryLockInfinite` (the same
without a limit) and `csa_web_UnLock`. Nothing releases a lock on an exception.

### Parts of `webNLA`

| Part | State | Operations |
|---|---|---|
| `NLAService` | static: the connected server, two ports | register, keep-alive task, fail-over |
| `NLAContext`, `SessionData` | list of sessions, a ticket and a port each | login, relogin, refresh, logout |
| `AbsUpdater` and its subclasses | a port and a server each, collections that expire | timer task: reconnect, update |
| Servlets, tags, pages | - | presentation |

### What is hard, and what makes each part correct

* **Front end.** The main thread polls the pool with `Trylock` while each pool
  thread holds its lock through a whole job; `m_soap` is never reset, so only
  the order of event, status and lock keeps a thread from serving a deleted
  object. Correct when every accepted connection gets to exactly one thread, is
  closed, and no thread touches a deleted object.
* **Gate.** Test, set and clear are separate unlocked steps of many threads.
  Correct when a report is refused only while it really runs, a flag is never
  left at 1, and (what the code does not achieve) one thread runs it at a time.
* **Tickets, trace, supervision.** Calls to the session manager happen inside
  the ticket lock; `sup_data` pointers are used after it; the HA status is kept
  in one variable for all threads and read again after being stored; expiry,
  re-registration, keep-alives and logins of one application race; one branch
  keeps the trace lock. Correct when ticket table and session manager agree,
  an expired application's users get logged out, and every request is answered.
* **Entity tables.** One table serves users with different rights and is
  reloaded in place; two operations touch a table without its lock; locks nest
  agents -> groups -> limits. Correct when a reply holds what its user may see
  and every early return releases what it holds.
* **Limits.** All limits are deleted and loaded again on every login, row by
  row, with an unsigned short that counts down; rows may be unreadable and
  result sets end early. Correct when nobody sees half of a load and every
  colour agrees with the rows.
* **Saved reports.** An operation is up to five SQL statements without a
  transaction, any of which may fail, next to other requests for the same
  report. Correct when a saved report is kept, a delete is complete, and what a
  user loads is what he saved.
* **Web application.** Keep-alive, nine updater timers and user requests share
  static fields; each of them may fail over and log every session in again.
  Correct when the application finds the active server and the updaters follow.

The complete list, with lines, is under "hazards" in `PROJECT.json`.

## 2. Modules

| Module | What it is |
|---|---|
| `ConnectionService` | abstract: what the front end promises its clients - one waiting connection, a fixed number of service slots |
| `LoginService` | abstract: what login and logout promise - a user and his ticket come and go in one step |
| `ThreadPool` | the front end, one action per step that another thread can observe |
| `ReportGate` | `do_reports_area`: the flags, the gated reports, the pool thread's clean-up |
| `SupervisorSessions` | tickets, trace, application supervision, HA flag and session manager |
| `EntityTables` | the shared tables of groups, agents and limits, their nested locks, and the requests that load and walk them |
| `Limits` | the load of the limits row by row, and the colours |
| `SavedReports` | saved reports and workspaces, statement by statement |
| `NlaService` | the web application's connection: registration, keep-alive, updaters, sessions |
| `ThreadPoolProofs`, `ReportGateProofs`, `SupervisorSessionsProofs`, `EntityTablesProofs`, `LimitsProofs`, `SavedReportsProofs`, `NlaServiceProofs` | inductive invariants and theorems of the module they are named after |
| `MCSessions`, `MCEntities`, `MCLimits`, `MCReports`, `MCNla` | constant definitions for TLC |

How they compose: `ThreadPool` runs a request as one step of `serve()`; the
other C++ modules are about what several such requests do to one shared
structure, and their threads are the pool's threads. The structures share few
variables, so they are modules of their own and meet where the code meets:
`SupervisorSessions` ends a login where `EntityTables` (`UserLogin`) takes the
limits' lock and reloads; `EntityTables` has that reload as two steps under the
lock, `Limits` has its loops; `NlaService` takes from `SupervisorSessions` that a
registration logs the application's users out. Definitions named `Faulty...`
(and a few others that say so) are the plausible bugs that the properties were
tried against; no action uses them.

### ThreadPool

`dpc` is the program counter of the main thread, `wpc[w]` of pool thread `w`;
`dsoap` and `wsoap[w]` are their local pointers; `crit`, `status`, `msoap` and
`event` are the members of `InteractWithManager_c` and `WebNlaServeThread_c`;
`heap` is the set of allocated soap objects, so a stale pointer is one that is
not in `heap`, and `Accept` may allocate any free address again. `SetSoap` and
`SetStatus` are one step (both happen under `m_crit`, which readers take);
`SignalEvent` and `Unlock` are separate, because the sleeping thread can wake in
between. `serve()` is one step: what a request does to shared tables is the
subject of the other modules. Two things come from libraries outside the
repository and are assumptions: `m_event` resets itself when a wait succeeds,
and a wait with `MAX_TIMEOUT` does not end by itself. The mutant
`SpuriousWakeup` shows what happens otherwise: the thread serves its previous,
deleted object.

`ServiceSpec` maps the abstract `waiting` to the object that is accepted and not
handed over, and `slot[w]` to the thread's `Job`: `m_soap` from the moment
`m_status` is `WORKING` until the object is deleted.

### ReportGate

`area` is the set of codes whose flag is 1, `code[t]` the `m_ReportCode` of the
thread's request, `taken[t]` the local copy the pool thread makes before it
deletes the object. Reading the flag (`Refuse`, `Admit`) and setting it (`Set`)
are separate steps, as are `Test` and `Clear`. `LateHeader` names the reports
that refuse before `responseInfoHeader` is assigned (`AgentsList`): the write
through the null pointer ends in the pool thread's `catch(...)` or ends the
process, after which everything starts again.

### SupervisorSessions

One program counter per pool thread and one for the external monitor that calls
`RemoveAplication`. A section under the ticket lock is several steps because it
calls the session manager; one under the trace lock calls nothing and is one
step, with `traceOwner` only ever set by the branch of
`ChangeNumberByLicenceType` that does not unlock. Login `n` is the session
manager's client `n`; tickets are named after the login that first used the
string, so that a collision (same user, same clock reading) is a login that gets
the ticket of an earlier one. `data[p]` is the client of the `sup_data` a thread
points to; once that is deleted, its licence type reads as anything.
`TicketsBusy` stands for 200 failed attempts, which need another holder.
`Reentrant` covers both kinds of `BswCritSection_c`, which is not in the
repository: with a re-entrant one the thread that leaked the lock still passes.

`ImplementsLogins` maps a login of `LoginService` to the insertion of the ticket
and a logout to its erasure: `LoggedIn` leaves out the user who is accepted and
not inserted yet, and keeps the one who is logged out and not erased yet;
`Accepted` does the same with the number of logins. All steps but
`LoginInsert`, `ReturnTicketErase` and `SweepOne` are stutters. A login that gets
the ticket string of an earlier one hides that entry in `LoginService` too: the
earlier user stays logged in, and no logout takes him away.

### EntityTables

`groupstab` and `agentstab` are the keys of the two maps, `it` the one iterator
member each of them has, `limits` the groups with a vector, `lock` the owner of
each table's lock. `Handlers` says of each of nineteen requests whether it
verifies a ticket, whose lock it takes, what it loads and how it goes on; the
actions are common to all and are the steps of that: lock or error 700, the
select, the loop that inserts, the walk, the nested lock of `BriefAgents`, the
verification of a group in the limits, the colours. Rows are left out except for
the ids in them. `LoadGroupList` clears the table and fills it with the groups of
the user who asks; `GroupList` also loads the agents, without their lock, which
may send the iterator of a walk anywhere; `Successors` of an erased element, or of
the end, is anything. The database changes between the select of one request and
that of another, at most `MaxChanges` times.

### Limits

A result set is a sequence of rows, some of which cannot be read, and the count
`GetRecordCount` reports, which may be larger than what `Next()` delivers. A
load is one step per row: `at` rows have been fetched, `left` is
`left_records_num`, of `CountWord` values (2^16 in the code). The loop over the
groups is entered on the counter and left after a readable row with the counter
at 0 (`More`); when the rows are over before that, the outer loop asks for the
next row for ever (`Spin`). The loop over the limits simply ends. `limit` has one
entry per cell of the vectors; numbers from 1000 are states. `UpLimits` and
`DownLimits` are the statistics for which `Init_ErsIdLookUpList` sets `Up` and
`Down`. Limits and values are unsigned longs of `Word` values that are compared
as ints (`Signed`). `Colour` is `GetColorOfSTATE` and `GetColorOfERS`, which
differ in the vector and in the test of the group number.

### SavedReports

One step per SQL statement and per failure of one. `web`, `def_cfg_web` are the
tables of the web application, `hdr`, `info`, `def_cfg` those of the older desktop
application. A row is its creator and the request that wrote it last. `clean[r]`
is a history variable: no statement of the request failed and no other request
that was in progress at the same time wrote to what it is about (`Disturbed`).
`want[u]` is the workspace the user last saved undisturbed. Two saves may compute
the same next id, as `last` is read in a statement of its own; the insert of an
existing key fails. `isReportPublic` takes the id as an unsigned short, of
`ShortIds` values (`AskedId`); the deletes take the whole id. `MayDelete` judges
as `DeleteReport` does, by the old report of that id if there is one.

### NlaService

The static fields of `NLAService`, `AbsUpdater` and `SessionData` are variables;
each thread has a program counter. A call of a server is one step, with the
outcomes the server's state allows: an exception when it is not `up`, what it
says of the active server otherwise. `register` holds the monitor through its
steps: the clearing of the fields (`Register`), the connection to the primary
(`RegisterPrimary`) or the secondary, the registration, the connection to the
other server and the registration there. `keepAlive` is not synchronized and
comes between any two of them. A registration that throws (`Throw`) ends in the
`catch` of the caller: `keepAlive` called from its `try` then clears the port of
whatever server is connected and registers once more (`KeepAliveCatch`, with
`InCatch` for that second time, whose exception is logged); `reconnect` of the
updaters gives up. The two calls `createConnection(getConnectedServer())` and
`getConnectedServer()` of `AbsUpdater.run` are steps between which others run. One
updater stands for the nine, which one `java.util.Timer` thread runs and which
share the static fields.

`ticket[i]` is the server on which the ticket that session `i` holds is valid: a
login on the active server sets it, a registration there, a crash or a change of
role clears it. An updater whose ticket is not valid where it polls gets error
500 and registers again (`UpdaterError`). The model starts when the application
has registered and the users have logged in, before the first run of an updater.

## 3. Runs

| Run | Bounds | Shows |
|---|---|---|
| `ThreadPool` | 2 threads, 3 addresses | types, `NoUseAfterDelete`, `ExclusiveJobs`, `NoLostConnection`, `NoLostWakeup`, `ConnectionsClosed`, and the refinement `ServiceSpec` with fairness. Two threads and three addresses make the pool full with one connection waiting, and make addresses be reused. The state space has no other bound. |
| `ReportGate` | 3 threads, 2 reports, one of them `LateHeader` | types, `NoStuckFlag`, `FlagCleared`. Three threads are one admitted twice over plus one refused; two reports show that a thread clears only its own flag. |
| `Sessions` | 2 threads and the monitor, 1 application, 2 logins, re-entrant locks | types, `TicketLock`, `SessionsMatchTickets`, `TracedAreSupervised`, and the refinement `ImplementsLogins`. Two logins are enough for a collision, for a sweep against a logout and for a late count; the pool threads are symmetric. |
| `SessionsLive` | 1 thread and the monitor, 1 application, 2 logins, locks not re-entrant | `ExpiredUsersLoggedOut`, `RequestsAnswered`: even with the trace lock leaked for good. |
| `EntityTables` | 2 requests, an admin who sees all groups and a clerk who sees one, 2 groups of which one comes and goes, 1 agent, 1 change, seven kinds of requests | types, `LocksReleased`, `GroupRepliesExact`, `LimitsWhole`, `RequestsReturn`. The seven kinds have every combination of lock, load and work that `Handlers` has, except the unlocked walk; two users with different rights are what a shared table can confuse. |
| `Limits` | 2 threads, 2 groups, the second beyond `MaxGroup`; 3 results for the groups (whole, with an unreadable row, short) and 8 for the limits (empty, short, entries given twice, unreadable rows, states, rows of no entry, counts that wrap); `CountWord` 4, `Word` 8 | types, `LimitsAreLoaded`, `ColoursAreRight`, `CallsReturn`. The small words make wrapping and negative limits happen. |
| `SavedReports` | 3 requests of which up to 2 save a report, 2 users of whom one may publish, ids up to 4, a private and a public old report, workspaces of no and of two reports, 1 failing statement, `ShortIds` 4 | types, `SavedIsKept`, `DeleteIsComplete`, `SavedIsLoaded`, `RightsRespected`. Three requests are two that race and one that reads; the requests are symmetric. |
| `NlaService` | keep-alive, updater and session timers, 1 session, 1 loss or change of role of a server | types, `OnePort`, `MistakesAreRaces`, `FindsActive`, `UpdatersReturn`. One change is a fail-over, at any step of the first connection of the updaters or later; take-overs and recoveries are not bounded. |

`MaxLogins` bounds logins, `MaxChanges` changes of the database or of the
servers, `MaxFailures` failing statements, `MaxSaves` saves of reports and `MaxId`
report ids; `VisorModulus` is the real 2^16. `ShortIds` (65536 in the code) is 4 in the run, above every id a
client names there, so no id is cut off: the run says nothing of larger ids,
which `RightsRespected` excepts. With `ShortIds` 2 and without that exception it
fails, as a delete is then judged by another report. `CHECK_DEADLOCK` is on everywhere; `AllAnswered` is the end of
`SavedReports`, whose requests are made once each.

Four runs state what a comment or a log message of the code says and end in a
counterexample ("findings" in `PROJECT.json`):

| Run | Says | Does |
|---|---|---|
| `GateExclusion` | a report in process in one thread is refused in another | two threads pass the test before either sets the flag |
| `SessionsInactiveKeepAlive` | a keep-alive on a server that became inactive logs the users out | any other request has already overwritten the shared flag |
| `EntityIteration` | the groups are walked under their lock | `LoginManagerAvailableGroupsForAgent` walks them without it, with the iterator that `GroupList` uses: groups are skipped |
| `NlaUpdaters` | an updater that is connected to the wrong server reconnects | a server is lost and keep-alive registers with the other one between the updater's two calls: it has a port to the lost server, takes it for the other's and polls it for ever, as every call throws and the `catch` keeps the port |

### Fairness

`ThreadPool`: the main thread never stops scanning (weak fairness of
`Dispatch`), every pool thread runs, and `Lock` is strongly fair: the main thread
holds a section for a few instructions and then sleeps 50 ms, so a thread that
blocks on its section gets it. Nothing obliges a client to connect.
`ReportGate`: weak fairness of each thread; a report ends or throws.
`SupervisorSessions`: weak fairness of each thread's steps and of the removal;
the session manager answers (its calls are synchronous with a time-out); strong
fairness of the steps behind `csa_web_TryLockInfinite`, which polls every 5 ms a
lock that keeps being released. Arrival of requests, expiry and HA changes are
not fair. `EntityTables` and `Limits`: strong fairness of each thread's next
step; the only step that waits is again that poll, for the lock of the limits.
The start of a request is not fair. `Spin` is not a step of progress, so
`CallsReturn` has to except the calls that wait for a load whose list of groups
ends early or does not fit the counter: that thread keeps the lock for good.
`NlaService`: weak fairness of the threads of the keep-alive timer, of the
updaters' and of the sessions', which fire periodically (a session's every
minute, `UPDATE_TIMEOUT`); nothing of `alive.jsp`, and not that a thread gets a
monitor that others keep taking. `FindsActive` and `UpdatersReturn` are about
histories in which one server is active and reachable from some time on;
`UpdatersReturn` also assumes that the tasks stop overlapping, because keep-alive
and updater can undo each other's work for ever. It asks that the updaters end up
with a port to that server and a ticket that is valid there, and excepts exactly
the outcome that `NlaUpdaters` exhibits: a port to a server that stays lost,
recorded as one to the active server. As long as the wrong server answers, the
updaters do come back: it gives them error 500, and they reconnect.

## 4. Proofs

TLAPS checks these for all values of the constants that satisfy the assumptions
named in the modules (at least one thread, `NoSoap` is no address, `NoReport` no
report, no thread is the one that stands for nobody, sets are of the kind the
code has).

* `ThreadPoolProofs`. The invariant `PoolInv` conjoins `Control` (types; who
  holds each section; what the main thread has in hand; a FINISHED thread rests
  and is not signalled; `NoLostWakeup`) with `Jobs` (a WORKING thread's `m_soap`
  is allocated and is what it serves), `ExclusiveJobs` and `NoLostConnection`.
  None of the properties is inductive alone: that a deleted object is nobody
  else's job needs `ExclusiveJobs`, which needs that a thread that gets a job
  sleeps, which needs the lock discipline. From it follow `PoolTypeCorrect`,
  `NothingUsedAfterDelete`, `JobsAreExclusive`, `NoConnectionIsLost`,
  `NoWakeupIsLost`, and `PoolImplementsService` (`Spec => Service!Spec`).
* `ReportGateProofs`. `GateInv` adds to the types and `NoStuckFlag` that a
  thread's `m_ReportCode` is the report it asked for or 0. The argument for
  `NoStuckFlag`: whoever raises a flag sets its own `m_ReportCode` in the same
  step and keeps the obligation until its own `Test`; a flag lowered by another
  thread only weakens the claim.
* `SupervisorSessionsProofs`. `SessionsInv` = `TypeOK`, `TicketLock` and what a
  thread under the lock is in the middle of: `Requesting` (whom it asks about),
  `Inserting` (the client it adds is logged in and the newest), `Erasing` (the
  one it removes is logged out already), `Numbered` (clients are numbered in
  order, so a hidden entry is hidden by a later login), `Entries` and `Entered`
  (the two directions of `SessionsMatchTickets`). `SessionsMatchTickets` speaks
  of a table between two steps of a locked section, so it needs all of them;
  `TracedAreSupervised` needs only the types, because `traceOwner` never returns
  to `NoProc` once a thread has kept the lock. `SessionsImplementLogins`
  (`Spec => ImplementsLogins`) uses `TicketLock` (at most one process is between
  the two halves), `Inserting` and `Numbered` (the number of a login is the one
  after those accepted, and a ticket it shares was given before), `Erasing` and
  `Entries` (the user whose ticket is found is logged in until then).
* `EntityTablesProofs`. `TablesInv` = types, `Control` (where a request can be,
  given which one it is), `LocksHeld` (a lock is held by a request exactly at the
  places `Holds` names) and `WholeOrReloading`. `AnsweredHoldsNothing`,
  `LimitsNeverHalfLoaded` and `TablesExclusive` follow. `GroupRepliesAreExact`
  adds `Loaded` (how much of its groups a request has inserted and passed) and
  holds under `NoUnlockedWalk`, that clients do not make the one request that
  walks the groups without their lock; the run `EntityIteration` shows why.
  `LocksTakenInOrder` is why no requests wait for each other in a circle: whoever
  holds a lock only asks for one that comes later in agents, groups, limits. It
  is the part of `RequestsReturn` that does not depend on fairness, for any
  number of requests.
* `LimitsProofs`. `LimitsInv` = types, `Holding` (the lock is held exactly by
  the thread that loads), `Asking`, and how far a load has come: `LoadingGroups`
  (vectors are those of the readable rows so far, nothing is in use, and the
  counter is what is left if the count fits), `LoadingLimits` (each entry is the
  last readable row for it so far), `Whole` (a load that is over is complete).
  That the counter agrees with the position is what makes a load not stop early;
  it fails for counts that do not fit, which `Fits` excepts. `ColoursAreRight`
  is an action property: the step that answers reads the entries, which
  `LimitsInv` relates to the rows. Two theorems are about `Colour` in any state
  of the right types: `WorseIsNeverBetter` (colours follow the order of values
  below 2^31, even with the red limit on the wrong side of the yellow one) and
  `HugeValuesAreWhite` (from 2^31 on they do not, as values are cast to int).
* `SavedReportsProofs`. `ReportsInv` = types, `Places`, `Clash` (of two requests
  in progress that disturb each other neither is `clean`), `SavedIsKept` (the
  insert of an existing key fails, and only a request that names the id writes
  the row), `Gone` (how many of the tables an undisturbed delete has cleaned),
  `Wanted`, `Inserted` and `Loads` (the same for workspaces), `Rights` (past its
  checks, an undisturbed request has the right to what it is about to do).
  `RightsAreRespected` follows for the step that writes or deletes the row. What
  it excepts is what the code leaves open: a statement that failed, another
  request about the same report in progress or a second delete of it, and ids
  that an unsigned short does not hold.
* `NlaServiceProofs`. `ServiceInv` = types, `Answers` (what a thread has read of
  `connectedServer` is a server or none), `Monitor` (inside `register`, from the
  clearing of the fields on, exactly the owner), `Opened` (which ports a registration can have open at each of its
  steps, although keep-alive closes them without the monitor), `OnePort`, and
  `Unrecorded` (while the updaters reconnect they have no server, and their port
  is that of the server they asked for). `OnePort` alone is not inductive: that
  the second port is opened only after the first is given up needs `Opened`,
  and that no other registration comes between needs `Monitor`.
  `MistakesOnlyByRaces` is an action property: only `UpdaterServer` can create a
  mistake, and `Unrecorded` gives what it starts from.

Only model-checked: liveness (`ConnectionsClosed`, `FlagCleared`,
`ExpiredUsersLoggedOut`, `RequestsAnswered`, `RequestsReturn`, `CallsReturn`,
`FindsActive`, `UpdatersReturn`) and the fairness half of `ServiceSpec`, because
TLAPS has no means for fairness and `ENABLED`. Every invariant and every action
property of the runs that pass is also a theorem.

## 5. Not modelled

* Most lines under `src/` are gSOAP (vendored runtime and generated code, twice,
  for two platforms); most of the rest puts values into replies or presents
  them. The components that decide something concurrently are modelled; as a
  share of all lines that is small and cannot become large.
* Reports: `AgentsPerGroupInfo` and `AgentNeedHelp`, which build their lists from
  online data only; the reports of super groups, DNIS, IVR and mailboxes, whose
  tables are loaded and walked under one lock each as the groups are; commands
  to agents, which a library outside the repository carries out; the data of a
  row, but for its colour.
* `GetSupAgentExtensionSM`, `ReportListData` and the font and language column of
  a workspace: they change nothing the properties are about.
* The number of visors is in the model (it wraps, and is changed through a
  `sup_data` that may be gone), but no property says what it counts: a sweep does
  not change it.
* What is in the model and no property speaks of: that `GroupList` reloads the
  agents under another request's walk, beyond locks and answers; what statements
  that fail leave of a workspace; reports whose ids an unsigned short cuts off;
  how often the nine updaters repeat the logins after a fail-over.
* A `sup_data` that a report uses after the lock of the tickets has been
  released, and that a logout or a sweep may have deleted by then.
* The local login (`GetTicketLocal`, `ReturnTicket`, compiled without
  `_SM_AUTHENTICATION_`), the single-threaded predecessor
  `csa_web_server.cpp`, dead counters of the trace table, start-up.
* An exception inside `serve()` after a table's lock has been taken, which leaves
  it taken: the calls that could throw are in libraries outside the repository.
* Data races inside `std::map` (`app_id_map`, the tables touched without a
  lock): their steps are atomic here.
* Web application: login and logout of a session (the list of sessions is
  constant), the expiring collections of the updaters, `ProcessActivity`, pages,
  tags and servlets.
* Limits of states from `CSA_LAST_STATE` on, a constant outside the repository:
  the code tests 480 and would write beyond the vector if that is larger.

## 6. Plan

Built, in this order: the front end with its abstract specification, the gate,
sessions, saved reports, the web application's connection, the entity tables,
the limits, the proofs about each of them, and the abstract login service. What
is left:

1. The composition of the gate with the pool: `serve()` of `ThreadPool` as the
   steps of `ReportGate`, so that a refusal and a full pool meet.
2. The tables of super groups, DNIS, IVR and mailboxes as further handlers of
   `EntityTables`, and `AgentsPerGroupInfo`.
3. An abstract colour service in which a load of the limits is one step, and
   `Limits` shown to implement it for result sets that fit the counter.
4. That no table is loaded by two requests at once in `EntityTables`, without the
   exception of `NoUnlockedWalk`, for the replies that do not walk.
5. Login and logout of web sessions, with a list of sessions that changes under
   the updaters.
