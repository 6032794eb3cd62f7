-------------------------- MODULE SupervisorSessions --------------------------
(***************************************************************************)
(* Login, logout and application supervision in csa_web: the ticket table  *)
(* (TICKET_tab), the trace table (TRACE_Map_c), the session manager (SM)   *)
(* behind them and the HA status, as the SOAP operations UserLogin,        *)
(* UserLogout, ApplicationRegister and ApplicationKeepAlive and the        *)
(* callback ThMngr_c::RemoveAplication use them.                           *)
(*                                                                         *)
(* Each table has its own lock (csa_web_lock.cpp).  csa_web_TryLock gives  *)
(* up after 200 tries, which is possible only while another thread holds   *)
(* the lock; csa_web_TryLockInfinite waits.  A section that runs under the *)
(* trace lock calls nothing and is one step; the sections of the ticket    *)
(* table call the session manager and are several steps.                   *)
(*                                                                         *)
(* External: the session manager, CsaGsoapThMngr_c, which supervises the   *)
(* keep-alives of the registered applications, and the HA status.          *)
(***************************************************************************)
EXTENDS Naturals

CONSTANTS
  Threads,     \* pool threads, each serving one request at a time
  Monitor,     \* the thread of CsaGsoapThMngr_c that calls RemoveAplication
  NoProc,      \* nobody, for a lock that is free
  Apps,        \* application ids of the web applications
  NoApp,       \* no application
  Hosts,       \* addresses the applications call from
  HostOf,      \* the address of each application
  MaxLogins,   \* bound: logins the session manager accepts
  VisorModulus,\* 2^16, the range of the unsigned short n_visors
  Reentrant    \* whether a thread can lock its BswCritSection_c again

ASSUME SessionsAssumption ==
  /\ Monitor \notin Threads
  /\ NoProc \notin Threads \cup {Monitor}
  /\ NoApp \notin Apps
  /\ HostOf \in [Apps -> Hosts]
  /\ MaxLogins \in Nat
  /\ VisorModulus \in Nat \ {0}
  /\ Reentrant \in BOOLEAN

Procs == Threads \cup {Monitor}

(* The n-th login the session manager accepted is its client n; the first  *)
(* ticket with a given string is named after the login it was made for.    *)
Clients == 1..MaxLogins
Tickets == Clients
NoSession == [app |-> NoApp, client |-> 0]

VARIABLES
  pc,            \* of each process: where it is,
  app,           \* the application its request is for,
  ticket,        \* the ticket of a logout request,
  data,          \* the client of the sup_data it points to,
  cause,         \* errorCause of a login's reply,
  then,          \* where it goes on after a call
  tab,           \* TICKET_tab::tab
  issued,        \* the ticket each accepted login got (0: none yet)
  logins,        \* how many logins the session manager has accepted
  sessions,      \* the clients the session manager has logged in
  ticketOwner,   \* who holds the lock of the ticket table
  knownApps,     \* the keys of TICKET_tab::app_id_map
  trace,         \* TRACE_Map_c::tab, the application traced per address
  visors,        \* its n_visors
  traceOwner,    \* who holds the lock of the trace table
  registered,    \* the applications CsaGsoapThMngr_c supervises
  haActive,      \* whether the HA layer says this server is active
  ha_status_is_active  \* the variable of that name

control  == <<pc, app, ticket, data, cause, then>>
locals   == <<app, ticket, data, cause, then>>
ticketsV == <<tab, issued, logins, sessions, ticketOwner>>
traceV   == <<trace, visors, traceOwner>>
haV      == <<haActive, ha_status_is_active>>
vars == <<control, ticketsV, knownApps, traceV, registered, haV>>

HoldsTickets == {"login_sm", "login_insert", "return_erase", "sweep"}
Pcs == HoldsTickets \cup
       {"idle", "login_gate", "login_lock", "login_count", "login_reply",
        "logout_count", "return_lock", "reg_switch", "reg_update",
        "sweep_lock", "add", "add_register", "ka_status", "ka_update",
        "remove", "done"}

TypeOK ==
  /\ pc \in [Procs -> Pcs]
  /\ app \in [Procs -> Apps \cup {NoApp}]
  /\ ticket \in [Procs -> 0..MaxLogins]
  /\ data \in [Procs -> 0..MaxLogins]
  /\ cause \in [Procs -> {"none", "inactive", "busy", "refused"}]
  /\ then \in [Procs -> {"done", "reg_update", "ka_status"}]
  /\ tab \in [Tickets -> [app : Apps, client : Clients] \cup {NoSession}]
  /\ issued \in [Clients -> 0..MaxLogins]
  /\ logins \in 0..MaxLogins
  /\ sessions \subseteq Clients
  /\ ticketOwner \in Procs \cup {NoProc}
  /\ knownApps \subseteq Apps
  /\ trace \in [Hosts -> Apps \cup {NoApp}]
  /\ visors \in [Hosts -> 0..(VisorModulus - 1)]
  /\ traceOwner \in Procs \cup {NoProc}
  /\ registered \subseteq Apps
  /\ haActive \in BOOLEAN
  /\ ha_status_is_active \in BOOLEAN

Init ==
  /\ pc = [p \in Procs |-> "idle"]
  /\ app = [p \in Procs |-> NoApp]
  /\ ticket = [p \in Procs |-> 0]
  /\ data = [p \in Procs |-> 0]
  /\ cause = [p \in Procs |-> "none"]
  /\ then = [p \in Procs |-> "done"]
  /\ tab = [k \in Tickets |-> NoSession]
  /\ issued = [n \in Clients |-> 0]
  /\ logins = 0
  /\ sessions = {}
  /\ ticketOwner = NoProc
  /\ knownApps = {}
  /\ trace = [h \in Hosts |-> NoApp]
  /\ visors = [h \in Hosts |-> 0]
  /\ traceOwner = NoProc
  /\ registered = {}
  /\ haActive \in BOOLEAN
  /\ ha_status_is_active = FALSE

Host(p) == HostOf[app[p]]

TicketsOf(a) == {k \in Tickets : tab[k].app = a}

Goto(p, there) == pc' = [pc EXCEPT ![p] = there]

(* The request has been answered: its locals are gone. *)
Done(p) ==
  /\ Goto(p, "idle")
  /\ app' = [app EXCEPT ![p] = NoApp]
  /\ ticket' = [ticket EXCEPT ![p] = 0]
  /\ data' = [data EXCEPT ![p] = 0]
  /\ cause' = [cause EXCEPT ![p] = "none"]
  /\ then' = [then EXCEPT ![p] = "done"]

-----------------------------------------------------------------------------
(* csa_web_lock.cpp on the ticket table.                                   *)

LockTickets(p) == ticketOwner = NoProc /\ ticketOwner' = p
UnlockTickets  == ticketOwner' = NoProc
TicketsBusy    == ticketOwner # NoProc

-----------------------------------------------------------------------------
(* Faulty variants, for mutation.                                          *)

(* A counter that is not an unsigned short. *)
FaultyMinus(v) == v - 1

(* ReturnTicketSM returns from the "not found" branch without UnLock. *)
ReturnWithoutUnlock(p) ==
  /\ pc[p] = "return_lock"
  /\ LockTickets(p)
  /\ tab[ticket[p]] = NoSession
  /\ Done(p)
  /\ UNCHANGED <<tab, issued, logins, sessions, knownApps, traceV, registered, haV>>

(* ReturnTicketSM logs out the client of the sup_data that UserLogout has, *)
(* and not the one of the entry it finds. *)
ReturnTicketStale(p) ==
  /\ pc[p] = "return_lock"
  /\ LockTickets(p)
  /\ tab[ticket[p]] # NoSession
  /\ sessions' = sessions \ {data[p]}
  /\ Goto(p, "return_erase")
  /\ UNCHANGED <<locals, tab, issued, logins, knownApps, traceV, registered, haV>>

(* The users are taken off the table and stay logged in. *)
SweepTableOnly(p) ==
  /\ pc[p] = "sweep"
  /\ \E k \in TicketsOf(app[p]) : tab' = [tab EXCEPT ![k] = NoSession]
  /\ UNCHANGED <<control, issued, logins, sessions, ticketOwner, knownApps, traceV,
                 registered, haV>>

(* The iteration over the table ends before its end. *)
SweepSome(p) ==
  /\ pc[p] = "sweep"
  /\ UnlockTickets
  /\ Goto(p, then[p])
  /\ UNCHANGED <<locals, tab, issued, logins, sessions, knownApps, traceV,
                 registered, haV>>

(* The users are logged out, the trace entry stays. *)
RemoveUsersOnly ==
  /\ pc[Monitor] = "remove"
  /\ Goto(Monitor, "sweep_lock")
  /\ UNCHANGED <<locals, ticketsV, knownApps, traceV, registered, haV>>

-----------------------------------------------------------------------------
(* UserLogin.                                                              *)

(* The status of the server is stored in the shared flag; if it is not     *)
(* active the reply gets errorCause 300 ...                                *)
UserLogin(p, a) ==
  /\ pc[p] = "idle"
  /\ ha_status_is_active' = haActive
  /\ app' = [app EXCEPT ![p] = a]
  /\ cause' = [cause EXCEPT ![p] = IF haActive THEN "none" ELSE "inactive"]
  /\ Goto(p, "login_gate")
  /\ UNCHANGED <<ticket, data, then, ticketsV, knownApps, traceV, registered,
                 haActive>>

(* ... and the flag is read again, whatever another thread stored there. *)
LoginGate(p) ==
  /\ pc[p] = "login_gate"
  /\ Goto(p, IF ha_status_is_active THEN "login_lock" ELSE "login_reply")
  /\ UNCHANGED <<locals, ticketsV, knownApps, traceV, registered, haV>>

LoginLock(p) ==
  /\ pc[p] = "login_lock"
  /\ LockTickets(p)
  /\ Goto(p, "login_sm")
  /\ UNCHANGED <<locals, tab, issued, logins, sessions, knownApps, traceV,
                 registered, haV>>

(* TryLock gave up: 700, MT SERVER BUSY. *)
LoginBusy(p) ==
  /\ pc[p] = "login_lock"
  /\ TicketsBusy
  /\ cause' = [cause EXCEPT ![p] = "busy"]
  /\ Goto(p, "login_reply")
  /\ UNCHANGED <<app, ticket, data, then, ticketsV, knownApps, traceV,
                 registered, haV>>

(* LoginWebVisorSync: the session manager accepts the user ... *)
LoginAccepted(p) ==
  /\ pc[p] = "login_sm"
  /\ logins < MaxLogins
  /\ logins' = logins + 1
  /\ sessions' = sessions \cup {logins'}
  /\ data' = [data EXCEPT ![p] = logins']
  /\ Goto(p, "login_insert")
  /\ UNCHANGED <<app, ticket, cause, then, tab, issued, ticketOwner, knownApps,
                 traceV, registered, haV>>

(* ... or not: wrong credentials, no licence, already logged in. *)
LoginRefused(p) ==
  /\ pc[p] = "login_sm"
  /\ UnlockTickets
  /\ cause' = [cause EXCEPT ![p] = "refused"]
  /\ Goto(p, "login_reply")
  /\ UNCHANGED <<app, ticket, data, then, tab, issued, logins, sessions,
                 knownApps, traceV, registered, haV>>

(* GetTicketFromSystem makes the ticket from the user's name and the time. *)
(* It is the string of an earlier login if the clock has not advanced      *)
(* since, and the entry of that login is then overwritten.                 *)
LoginInsert(p) ==
  /\ pc[p] = "login_insert"
  /\ \E k \in {data[p]} \cup {issued[n] : n \in {m \in Clients : issued[m] # 0}} :
       /\ tab' = [tab EXCEPT ![k] = [app |-> app[p], client |-> data[p]]]
       /\ issued' = [issued EXCEPT ![data[p]] = k]
  /\ UnlockTickets
  /\ Goto(p, "login_count")
  /\ UNCHANGED <<locals, logins, sessions, knownApps, traceV, registered, haV>>

-----------------------------------------------------------------------------
(* TRACE_Map_c.                                                            *)

(* csa_web_TryLock of the trace table succeeds if nobody holds it, and for *)
(* the thread that holds it if the critical section can be re-entered.     *)
TraceFree(p) == traceOwner = NoProc \/ (Reentrant /\ traceOwner = p)

(* license_type of a sup_data is FULL_VISOR; one that another thread has   *)
(* deleted meanwhile may show anything.  (The sup_data that a later login  *)
(* with the same ticket has hidden is never deleted.)                      *)
Alive(n) == n \in sessions \/ \E k \in Tickets : tab[k].client = n

Plus(v)  == (v + 1) % VisorModulus
Minus(v) == (v + VisorModulus - 1) % VisorModulus

(* ChangeNumberByLicenceType: n_visors of the caller's address changes,    *)
(* unless the licence read is another one.  The lock is not released if    *)
(* the address is not in the table.                                        *)
ChangeNumberByLicenceType(p, insert) ==
  \/ /\ TraceFree(p)
     /\ trace[Host(p)] # NoApp
     /\ \/ visors' = [visors EXCEPT ![Host(p)] = IF insert THEN Plus(@) ELSE Minus(@)]
        \/ ~Alive(data[p]) /\ UNCHANGED visors
     /\ UNCHANGED <<trace, traceOwner>>
  \/ /\ TraceFree(p)
     /\ trace[Host(p)] = NoApp
     /\ traceOwner' = p
     /\ UNCHANGED <<trace, visors>>
  \/ ~TraceFree(p) /\ UNCHANGED traceV

(* AddAplication: a new entry, counters at zero, replaces the one of the   *)
(* address.                                                                *)
AddToTrace(p) ==
  /\ trace' = [trace EXCEPT ![Host(p)] = app[p]]
  /\ visors' = [visors EXCEPT ![Host(p)] = 0]
  /\ UNCHANGED traceOwner

LoginCount(p) ==
  /\ pc[p] = "login_count"
  /\ ChangeNumberByLicenceType(p, TRUE)
  /\ Goto(p, "login_reply")
  /\ UNCHANGED <<locals, ticketsV, knownApps, registered, haV>>

LoginReply(p) ==
  /\ pc[p] = "login_reply"
  /\ Done(p)
  /\ UNCHANGED <<ticketsV, knownApps, traceV, registered, haV>>

-----------------------------------------------------------------------------
(* UserLogout.                                                             *)

(* The reply of a login that got ticket k has been sent. *)
Delivered(k) ==
  \E n \in Clients :
    /\ issued[n] = k
    /\ \A p \in Procs : pc[p] \in {"login_count", "login_reply"} => data[p] # n

(* VerifyTicketGetData; a ticket that is not in the table gets 500 and     *)
(* changes nothing.                                                        *)
UserLogout(p, k) ==
  /\ pc[p] = "idle"
  /\ ticketOwner = NoProc
  /\ tab[k] # NoSession
  /\ Delivered(k)
  /\ app' = [app EXCEPT ![p] = tab[k].app]
  /\ ticket' = [ticket EXCEPT ![p] = k]
  /\ data' = [data EXCEPT ![p] = tab[k].client]
  /\ Goto(p, "logout_count")
  /\ UNCHANGED <<cause, then, ticketsV, knownApps, traceV, registered, haV>>

LogoutCount(p) ==
  /\ pc[p] = "logout_count"
  /\ ChangeNumberByLicenceType(p, FALSE)
  /\ Goto(p, "return_lock")
  /\ UNCHANGED <<locals, ticketsV, knownApps, registered, haV>>

(* ReturnTicketSM finds the ticket again and logs its client out ... *)
ReturnTicketFound(p) ==
  /\ pc[p] = "return_lock"
  /\ LockTickets(p)
  /\ tab[ticket[p]] # NoSession
  /\ sessions' = sessions \ {tab[ticket[p]].client}
  /\ Goto(p, "return_erase")
  /\ UNCHANGED <<locals, tab, issued, logins, knownApps, traceV, registered, haV>>

(* ... or finds it gone: errorCause 1. *)
ReturnTicketGone(p) ==
  /\ pc[p] = "return_lock"
  /\ ticketOwner = NoProc
  /\ tab[ticket[p]] = NoSession
  /\ Done(p)
  /\ UNCHANGED <<ticketsV, knownApps, traceV, registered, haV>>

ReturnTicketErase(p) ==
  /\ pc[p] = "return_erase"
  /\ tab' = [tab EXCEPT ![ticket[p]] = NoSession]
  /\ UnlockTickets
  /\ Done(p)
  /\ UNCHANGED <<issued, logins, sessions, knownApps, traceV, registered, haV>>

-----------------------------------------------------------------------------
(* LogoutUsersPerApplicationIdSM, called with the caller's "then" set.     *)

SweepLock(p) ==
  /\ pc[p] = "sweep_lock"
  /\ LockTickets(p)
  /\ Goto(p, "sweep")
  /\ UNCHANGED <<locals, tab, issued, logins, sessions, knownApps, traceV,
                 registered, haV>>

SweepOne(p) ==
  /\ pc[p] = "sweep"
  /\ \E k \in TicketsOf(app[p]) :
       /\ sessions' = sessions \ {tab[k].client}
       /\ tab' = [tab EXCEPT ![k] = NoSession]
  /\ UNCHANGED <<control, issued, logins, ticketOwner, knownApps, traceV,
                 registered, haV>>

SweepEnd(p) ==
  /\ pc[p] = "sweep"
  /\ TicketsOf(app[p]) = {}
  /\ UnlockTickets
  /\ Goto(p, then[p])
  /\ UNCHANGED <<locals, tab, issued, logins, sessions, knownApps, traceV,
                 registered, haV>>

-----------------------------------------------------------------------------
(* ApplicationRegister.                                                    *)

ApplicationRegister(p, a) ==
  /\ pc[p] = "idle"
  /\ ha_status_is_active' = haActive
  /\ app' = [app EXCEPT ![p] = a]
  /\ Goto(p, "reg_switch")
  /\ UNCHANGED <<ticket, data, cause, then, ticketsV, knownApps, traceV,
                 registered, haActive>>

(* On an active server the users of the application are logged out; only   *)
(* an application whose keep-alive time is not known is added.  (KA_NORMAL *)
(* and KA_TOO_OLD do the same.)                                            *)
RegisterSwitch(p) ==
  /\ pc[p] = "reg_switch"
  /\ Goto(p, IF haActive THEN "sweep_lock" ELSE "done")
  /\ then' = [then EXCEPT ![p] = IF app[p] \in knownApps THEN "done" ELSE "reg_update"]
  /\ UNCHANGED <<app, ticket, data, cause, ticketsV, knownApps, traceV,
                 registered, haV>>

(* UpdateApplicationKeepAliveTime. *)
RegisterUpdate(p) ==
  /\ pc[p] = "reg_update"
  /\ knownApps' = knownApps \cup {app[p]}
  /\ then' = [then EXCEPT ![p] = "done"]
  /\ Goto(p, "add")
  /\ UNCHANGED <<app, ticket, data, cause, ticketsV, traceV, registered, haV>>

(* TRACE_Map_c::AddAplication, then CsaGsoapThMngr_c::ApplicationRegister  *)
(* without the lock ...                                                    *)
AddAplication(p) ==
  /\ pc[p] = "add"
  /\ TraceFree(p)
  /\ AddToTrace(p)
  /\ Goto(p, "add_register")
  /\ UNCHANGED <<locals, ticketsV, knownApps, registered, haV>>

AddRegister(p) ==
  /\ pc[p] = "add_register"
  /\ registered' = registered \cup {app[p]}
  /\ Goto(p, then[p])
  /\ UNCHANGED <<locals, ticketsV, knownApps, traceV, haV>>

(* ... or nothing at all if the trace table stays locked. *)
AddBusy(p) ==
  /\ pc[p] = "add"
  /\ ~TraceFree(p)
  /\ Goto(p, then[p])
  /\ UNCHANGED <<locals, ticketsV, knownApps, traceV, registered, haV>>

-----------------------------------------------------------------------------
(* ApplicationKeepAlive.                                                   *)

(* A server that was active and is not logs the application's users out;   *)
(* otherwise an application that is not supervised is added.               *)
ApplicationKeepAlive(p, a) ==
  /\ pc[p] = "idle"
  /\ app' = [app EXCEPT ![p] = a]
  /\ then' = [then EXCEPT ![p] = "ka_status"]
  /\ Goto(p, IF ha_status_is_active /\ ~haActive THEN "sweep_lock"
             ELSE IF a \notin registered THEN "add" ELSE "ka_status")
  /\ UNCHANGED <<ticket, data, cause, ticketsV, knownApps, traceV, registered,
                 haV>>

KeepAliveStatus(p) ==
  /\ pc[p] = "ka_status"
  /\ ha_status_is_active' = haActive
  /\ Goto(p, "ka_update")
  /\ UNCHANGED <<locals, ticketsV, knownApps, traceV, registered, haActive>>

(* UpdateApplicationKeepAliveTime. *)
KeepAliveUpdate(p) ==
  /\ pc[p] = "ka_update"
  /\ knownApps' = knownApps \cup {app[p]}
  /\ Goto(p, "done")
  /\ UNCHANGED <<locals, ticketsV, traceV, registered, haV>>

Return(p) ==
  /\ pc[p] = "done"
  /\ Done(p)
  /\ UNCHANGED <<ticketsV, knownApps, traceV, registered, haV>>

-----------------------------------------------------------------------------
(* ThMngr_c::RemoveAplication, called back when CsaGsoapThMngr_c has seen  *)
(* no keep-alive of a supervised application for too long (external).      *)

KeepAliveExpired(a) ==
  /\ pc[Monitor] = "idle"
  /\ a \in registered
  /\ registered' = registered \ {a}
  /\ app' = [app EXCEPT ![Monitor] = a]
  /\ Goto(Monitor, "remove")
  /\ UNCHANGED <<ticket, data, cause, then, ticketsV, knownApps, traceV, haV>>

(* TRACE_Map_c::RemoveAplication erases the entry if there is one, and the *)
(* users are logged out ...                                                *)
RemoveAplication ==
  /\ pc[Monitor] = "remove"
  /\ TraceFree(Monitor)
  /\ trace' = [trace EXCEPT ![Host(Monitor)] =
                 IF @ = app[Monitor] THEN NoApp ELSE @]
  /\ visors' = [visors EXCEPT ![Host(Monitor)] =
                  IF trace[Host(Monitor)] = app[Monitor] THEN 0 ELSE @]
  /\ Goto(Monitor, "sweep_lock")
  /\ UNCHANGED <<locals, ticketsV, knownApps, traceOwner, registered, haV>>

(* ... unless the trace table stays locked: BSWRC_FAIL, nobody logged out. *)
RemoveBusy ==
  /\ pc[Monitor] = "remove"
  /\ ~TraceFree(Monitor)
  /\ Goto(Monitor, "done")
  /\ UNCHANGED <<locals, ticketsV, knownApps, traceV, registered, haV>>

-----------------------------------------------------------------------------
(* The HA layer changes the status of the server (external). *)
HaSwitch ==
  /\ haActive' = ~haActive
  /\ UNCHANGED <<control, ticketsV, knownApps, traceV, registered,
                 ha_status_is_active>>

Request(p) ==
  \/ \E a \in Apps : UserLogin(p, a) \/ ApplicationRegister(p, a)
                     \/ ApplicationKeepAlive(p, a)
  \/ \E k \in Tickets : UserLogout(p, k)

Step(p) ==
  \/ LoginGate(p) \/ LoginLock(p) \/ LoginBusy(p) \/ LoginAccepted(p)
  \/ LoginRefused(p) \/ LoginInsert(p) \/ LoginCount(p) \/ LoginReply(p)
  \/ LogoutCount(p) \/ ReturnTicketFound(p) \/ ReturnTicketGone(p)
  \/ ReturnTicketErase(p)
  \/ SweepLock(p) \/ SweepOne(p) \/ SweepEnd(p)
  \/ RegisterSwitch(p) \/ RegisterUpdate(p)
  \/ AddAplication(p) \/ AddRegister(p) \/ AddBusy(p)
  \/ KeepAliveStatus(p) \/ KeepAliveUpdate(p) \/ Return(p)

(* The steps behind a csa_web_TryLockInfinite. *)
WaitedForLock(p) == SweepLock(p) \/ ReturnTicketFound(p) \/ ReturnTicketGone(p)

Next ==
  \/ \E p \in Threads : Request(p)
  \/ \E p \in Procs : Step(p)
  \/ \E a \in Apps : KeepAliveExpired(a)
  \/ RemoveAplication \/ RemoveBusy
  \/ HaSwitch

Spec == Init /\ [][Next]_vars

(* The threads run and the session manager answers.  The ticket table is   *)
(* polled every 5 ms, so a thread that waits for it without limit gets it  *)
(* if it keeps being released.                                             *)
Fairness ==
  /\ \A p \in Procs : WF_vars(Step(p)) /\ SF_vars(WaitedForLock(p))
  /\ WF_vars(RemoveAplication \/ RemoveBusy)

FairSpec == Spec /\ Fairness

-----------------------------------------------------------------------------
(* A lock on the ticket table is held exactly by the thread that works on  *)
(* the table, and by none that has finished its request.                   *)
TicketLock == \A p \in Procs : ticketOwner = p <=> pc[p] \in HoldsTickets

(* Every ticket stands for a user the session manager has logged in, and   *)
(* no user is logged in without a ticket, unless a thread is between the   *)
(* two or a later login got the same ticket string and hid the entry.      *)
SessionsMatchTickets ==
  LET removing == {tab[ticket[p]].client : p \in {q \in Procs : pc[q] = "return_erase"}}
      adding   == {data[p] : p \in {q \in Procs : pc[q] = "login_insert"}}
      listed   == {tab[k].client : k \in Tickets} \ {0}
  IN /\ listed \ removing \subseteq sessions
     /\ \A n \in sessions \ (listed \cup adding) :
          \E m \in Clients : m > n /\ issued[m] = issued[n]

(* An application in the trace table is supervised, or is about to be, or  *)
(* its removal is under way: only the removal that a missed keep-alive     *)
(* triggers logs its users out, so an entry nobody supervises would keep   *)
(* them for ever.  The exception is an entry whose removal failed because  *)
(* a thread has kept the lock of the trace table.                          *)
TracedAreSupervised ==
  traceOwner = NoProc =>
    \A a \in Apps :
      trace[HostOf[a]] = a =>
        \/ a \in registered
        \/ \E p \in Procs : pc[p] \in {"add_register", "remove"} /\ app[p] = a

(* Login and logout implement the login service: the session manager and   *)
(* the ticket table, which are changed one after the other under the lock  *)
(* of the table, change for everybody else in one step.  A login takes     *)
(* effect when its ticket is inserted, a logout when it is erased: until   *)
(* then the user who is being logged in does not count, and the one who is *)
(* being logged out still does.                                            *)
SomeAt(there) == {p \in Procs : pc[p] = there}

LoggedIn == (sessions \ {data[p] : p \in SomeAt("login_insert")})
              \cup {tab[ticket[p]].client : p \in SomeAt("return_erase")}
Accepted == IF SomeAt("login_insert") = {} THEN logins ELSE logins - 1

Logins == INSTANCE LoginService WITH
  tickets <- tab, users <- LoggedIn, accepted <- Accepted, given <- issued

ImplementsLogins == Logins!Spec

(* The users an expired application had when the callback took its trace   *)
(* entry out are all logged out.                                           *)
ExpiredUsersLoggedOut ==
  \A a \in Apps, k \in Tickets :
    pc[Monitor] = "sweep_lock" /\ app[Monitor] = a /\ tab[k].app = a
      ~> tab[k] = NoSession

(* Every request is answered, whatever the other threads do. *)
RequestsAnswered == \A p \in Procs : pc[p] # "idle" ~> pc[p] = "idle"

-----------------------------------------------------------------------------
(* What comments of the code say and the code does not do.                 *)

(* A keep-alive that finds the server not active logs the users of its     *)
(* application out: "Server was ACTIVE becomes NOT ACTIVE, Logout all      *)
(* users for app_id" (csa_web_serverMT.cpp:3198).                          *)
InactiveKeepAliveLogsOut ==
  [][\A p \in Threads, a \in Apps :
       ApplicationKeepAlive(p, a) /\ ~haActive /\ TicketsOf(a) # {}
         => pc'[p] = "sweep_lock"]_vars

=============================================================================
