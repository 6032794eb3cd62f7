----------------------- MODULE SupervisorSessionsProofs -----------------------
(***************************************************************************)
(* Proofs about SupervisorSessions: for any number of threads,             *)
(* applications and logins, the types, the lock of the ticket table, the   *)
(* agreement of tickets and logged-in users, and the supervision of the    *)
(* traced applications.                                                    *)
(***************************************************************************)
EXTENDS SupervisorSessions, TLAPS

(* A request is for an application, and a logout has a ticket. *)
Requesting ==
  \A p \in Procs :
    /\ pc[p] # "idle" => app[p] \in Apps
    /\ pc[p] \in {"logout_count", "return_lock", "return_erase"} => ticket[p] \in Tickets

(* The user who is being inserted is the last one the session manager has  *)
(* logged in.                                                              *)
Inserting ==
  \A p \in Procs : pc[p] = "login_insert" =>
    data[p] = logins /\ logins \in sessions /\ issued[logins] = 0

(* The ticket that is being erased is of a user who is logged out.         *)
Erasing ==
  \A p \in Procs : pc[p] = "return_erase" =>
    tab[ticket[p]] # NoSession /\ tab[ticket[p]].client \notin sessions

(* Clients are numbered by their logins. *)
Numbered ==
  /\ \A n \in Clients : issued[n] # 0 => n <= logins
  /\ \A n \in sessions : n <= logins

(* An entry is of a client who was given its ticket, and who is logged in  *)
(* but for the entry that is being erased.                                 *)
Entries ==
  \A k \in Tickets : tab[k] # NoSession =>
    /\ issued[tab[k].client] = k
    /\ \/ tab[k].client \in sessions
       \/ \E p \in Procs : pc[p] = "return_erase" /\ ticket[p] = k

(* A client who is logged in is being inserted, or has the entry of his    *)
(* ticket, or a later client has got his ticket.                           *)
Entered ==
  \A n \in sessions :
    IF issued[n] = 0
    THEN \E p \in Procs : pc[p] = "login_insert" /\ data[p] = n
    ELSE \/ tab[issued[n]].client = n
         \/ \E m \in Clients : m > n /\ issued[m] = issued[n]

SessionsInv ==
  /\ TypeOK /\ TicketLock /\ Requesting
  /\ Inserting /\ Erasing /\ Numbered /\ Entries /\ Entered

(* A counter at zero is an unsigned short. *)
LEMMA ZeroVisors == 0 \in 0..(VisorModulus - 1)
  BY SessionsAssumption

LEMMA SessionsInit == Init => SessionsInv
<1> SUFFICES ASSUME Init PROVE SessionsInv
  OBVIOUS
<1>1. TypeOK
  <2>1. /\ pc \in [Procs -> Pcs] /\ app \in [Procs -> Apps \cup {NoApp}]
        /\ cause \in [Procs -> {"none", "inactive", "busy", "refused"}]
        /\ then \in [Procs -> {"done", "reg_update", "ka_status"}]
    BY DEF Init, Pcs
  <2>2. /\ ticket \in [Procs -> 0..MaxLogins] /\ data \in [Procs -> 0..MaxLogins]
        /\ issued \in [Clients -> 0..MaxLogins] /\ logins \in 0..MaxLogins
    BY SessionsAssumption DEF Init
  <2>3. /\ tab \in [Tickets -> [app : Apps, client : Clients] \cup {NoSession}]
        /\ sessions \subseteq Clients /\ knownApps \subseteq Apps /\ registered \subseteq Apps
        /\ trace \in [Hosts -> Apps \cup {NoApp}]
        /\ ticketOwner \in Procs \cup {NoProc} /\ traceOwner \in Procs \cup {NoProc}
        /\ haActive \in BOOLEAN /\ ha_status_is_active \in BOOLEAN
    BY DEF Init
  <2>4. visors \in [Hosts -> 0..(VisorModulus - 1)]
    BY ZeroVisors DEF Init
  <2> QED BY <2>1, <2>2, <2>3, <2>4 DEF TypeOK
<1>2. TicketLock
  BY SessionsAssumption DEF Init, TicketLock, HoldsTickets, Procs
<1>3. Requesting /\ Inserting /\ Erasing /\ Numbered /\ Entries /\ Entered
  BY DEF Init, Requesting, Inserting, Erasing, Numbered, Entries, Entered
<1> QED BY <1>1, <1>2, <1>3 DEF SessionsInv

-----------------------------------------------------------------------------
(* Types.                                                                  *)

(* n_visors stays an unsigned short. *)
LEMMA VisorsWrap ==
  ASSUME NEW v \in 0..(VisorModulus - 1)
  PROVE  Plus(v) \in 0..(VisorModulus - 1) /\ Minus(v) \in 0..(VisorModulus - 1)
<1> DEFINE m == VisorModulus
<1>1. m \in Nat /\ m > 0
  BY SessionsAssumption
<1>2. ASSUME NEW x \in Nat PROVE x % m \in 0..(m - 1)
  <2> HIDE DEF m
  <2> QED BY <1>1, <1>2
<1>3. v + 1 \in Nat /\ v + VisorModulus - 1 \in Nat
  BY <1>1
<1> QED BY <1>2, <1>3 DEF Plus, Minus

LEMMA GotoTypes ==
  ASSUME TypeOK, NEW p \in Procs, NEW there \in Pcs, Goto(p, there)
  PROVE  pc' \in [Procs -> Pcs]
  BY DEF TypeOK, Goto

LEMMA DoneTypes ==
  ASSUME TypeOK, NEW p \in Procs, Done(p)
  PROVE  /\ pc' \in [Procs -> Pcs]
         /\ app' \in [Procs -> Apps \cup {NoApp}]
         /\ ticket' \in [Procs -> 0..MaxLogins]
         /\ data' \in [Procs -> 0..MaxLogins]
         /\ cause' \in [Procs -> {"none", "inactive", "busy", "refused"}]
         /\ then' \in [Procs -> {"done", "reg_update", "ka_status"}]
<1>1. pc' \in [Procs -> Pcs]
  BY DEF TypeOK, Done, Goto, Pcs
<1>2. app' \in [Procs -> Apps \cup {NoApp}]
  BY DEF TypeOK, Done
<1>3. ticket' \in [Procs -> 0..MaxLogins] /\ data' \in [Procs -> 0..MaxLogins]
  BY SessionsAssumption DEF TypeOK, Done
<1>4. /\ cause' \in [Procs -> {"none", "inactive", "busy", "refused"}]
      /\ then' \in [Procs -> {"done", "reg_update", "ka_status"}]
  BY DEF TypeOK, Done
<1> QED BY <1>1, <1>2, <1>3, <1>4

LEMMA CountTypes ==
  ASSUME TypeOK, NEW p \in Procs, NEW insert \in BOOLEAN,
         ChangeNumberByLicenceType(p, insert)
  PROVE  /\ trace' = trace
         /\ visors' \in [Hosts -> 0..(VisorModulus - 1)]
         /\ traceOwner' \in Procs \cup {NoProc}
<1>1. visors' \in [Hosts -> 0..(VisorModulus - 1)]
  <2>1. CASE visors' = [visors EXCEPT ![Host(p)] = IF insert THEN Plus(@) ELSE Minus(@)]
    BY <2>1, VisorsWrap DEF TypeOK
  <2>2. CASE visors' = visors
    BY <2>2 DEF TypeOK
  <2> QED BY <2>1, <2>2 DEF ChangeNumberByLicenceType, traceV
<1> QED BY <1>1 DEF TypeOK, ChangeNumberByLicenceType, traceV

LEMMA SessionsTypes == SessionsInv /\ [Next]_vars => TypeOK'
<1> SUFFICES ASSUME SessionsInv, [Next]_vars PROVE TypeOK'
  OBVIOUS
<1> USE DEF ticketsV, traceV, haV, locals, control
<1>0. TypeOK /\ Requesting /\ Inserting
  BY DEF SessionsInv
<1>m. Monitor \in Procs /\ Threads \subseteq Procs
  BY DEF Procs
<1>1. CASE UNCHANGED vars
  BY <1>0, <1>1 DEF vars, TypeOK
<1>2. ASSUME NEW p \in Threads, Request(p) PROVE TypeOK'
  <2>0. p \in Procs
    BY <1>m
  <2>1. ASSUME NEW a \in Apps,
               UserLogin(p, a) \/ ApplicationRegister(p, a) \/ ApplicationKeepAlive(p, a)
        PROVE  TypeOK'
    <3>1. /\ pc' \in [Procs -> Pcs]
          /\ app' \in [Procs -> Apps \cup {NoApp}]
          /\ cause' \in [Procs -> {"none", "inactive", "busy", "refused"}]
          /\ then' \in [Procs -> {"done", "reg_update", "ka_status"}]
      BY <1>0, <2>0, <2>1
         DEF UserLogin, ApplicationRegister, ApplicationKeepAlive, Goto, Pcs, TypeOK
    <3> QED BY <1>0, <2>0, <2>1, <3>1
            DEF UserLogin, ApplicationRegister, ApplicationKeepAlive, TypeOK
  <2>2. ASSUME NEW k \in Tickets, UserLogout(p, k) PROVE TypeOK'
    <3>1. tab[k].app \in Apps /\ tab[k].client \in 0..MaxLogins /\ k \in 0..MaxLogins
      BY <1>0, <2>2, SessionsAssumption DEF UserLogout, TypeOK, Tickets, Clients
    <3> QED BY <1>0, <2>0, <2>2, <3>1 DEF UserLogout, Goto, Pcs, TypeOK
  <2> QED BY <1>2, <2>1, <2>2 DEF Request
<1>3. ASSUME NEW p \in Procs, Step(p) PROVE TypeOK'
  <2>g. {"login_lock", "login_reply", "login_sm", "login_insert", "return_erase",
         "sweep", "sweep_lock", "done", "ka_update"} \subseteq Pcs
    BY DEF Pcs, HoldsTickets
  <2>1. CASE LoginGate(p) \/ LoginLock(p) \/ LoginBusy(p) \/ LoginRefused(p)
    <3>1. pc' \in [Procs -> Pcs]
      BY <1>0, <2>1, <2>g, GotoTypes DEF LoginGate, LoginLock, LoginBusy, LoginRefused
    <3>2. cause' \in [Procs -> {"none", "inactive", "busy", "refused"}]
      BY <1>0, <2>1 DEF LoginGate, LoginLock, LoginBusy, LoginRefused, TypeOK
    <3> QED BY <1>0, <2>1, <3>1, <3>2 DEF LoginGate, LoginLock, LoginBusy,
            LoginRefused, LockTickets, UnlockTickets, TypeOK
  <2>2. CASE LoginAccepted(p)
    <3>1. logins + 1 \in Clients /\ logins + 1 \in 0..MaxLogins
      BY <1>0, <2>2, SessionsAssumption DEF LoginAccepted, TypeOK, Clients
    <3>2. pc' \in [Procs -> Pcs]
      BY <1>0, <2>2, <2>g, GotoTypes DEF LoginAccepted
    <3>3. sessions' \subseteq Clients /\ data' \in [Procs -> 0..MaxLogins]
      BY <1>0, <2>2, <3>1 DEF LoginAccepted, TypeOK
    <3> QED BY <1>0, <2>2, <3>1, <3>2, <3>3 DEF LoginAccepted, TypeOK
  <2>3. CASE LoginInsert(p)
    <3>1. app[p] \in Apps /\ data[p] \in Clients
      BY <1>0, <2>3 DEF LoginInsert, Requesting, Inserting, TypeOK
    <3>2. PICK k \in {data[p]} \cup {issued[n] : n \in {m \in Clients : issued[m] # 0}} :
            /\ tab' = [tab EXCEPT ![k] = [app |-> app[p], client |-> data[p]]]
            /\ issued' = [issued EXCEPT ![data[p]] = k]
      BY <2>3 DEF LoginInsert
    <3>3. k \in Tickets
      <4>1. CASE k = data[p]
        BY <3>1, <4>1 DEF Tickets
      <4>2. ASSUME NEW n \in Clients, issued[n] # 0, k = issued[n] PROVE k \in Tickets
        BY <1>0, <4>2, SessionsAssumption DEF TypeOK, Clients, Tickets
      <4> QED BY <3>2, <4>1, <4>2
    <3>4. /\ tab' \in [Tickets -> [app : Apps, client : Clients] \cup {NoSession}]
          /\ issued' \in [Clients -> 0..MaxLogins]
      BY <1>0, <3>1, <3>2, <3>3, SessionsAssumption DEF TypeOK, Clients, Tickets
    <3> QED BY <1>0, <2>3, <3>4 DEF LoginInsert, UnlockTickets, Goto, Pcs, TypeOK
  <2>4. CASE LoginCount(p) \/ LogoutCount(p)
    <3>1. pc' \in [Procs -> Pcs]
      BY <1>0, <2>4 DEF LoginCount, LogoutCount, Goto, Pcs, TypeOK
    <3>2. /\ trace' = trace
          /\ visors' \in [Hosts -> 0..(VisorModulus - 1)]
          /\ traceOwner' \in Procs \cup {NoProc}
      BY <1>0, <2>4, CountTypes DEF LoginCount, LogoutCount
    <3> QED BY <1>0, <2>4, <3>1, <3>2 DEF LoginCount, LogoutCount, TypeOK
  <2>5. CASE LoginReply(p) \/ Return(p) \/ ReturnTicketGone(p)
    BY <1>0, <2>5, DoneTypes DEF LoginReply, Return, ReturnTicketGone, TypeOK
  <2>6. CASE ReturnTicketFound(p)
    <3>1. pc' \in [Procs -> Pcs]
      BY <1>0, <2>6, <2>g, GotoTypes DEF ReturnTicketFound
    <3> QED BY <1>0, <2>6, <3>1 DEF ReturnTicketFound, LockTickets, TypeOK
  <2>7. CASE ReturnTicketErase(p)
    <3>1. tab' \in [Tickets -> [app : Apps, client : Clients] \cup {NoSession}]
      BY <1>0, <2>7 DEF ReturnTicketErase, TypeOK
    <3> QED BY <1>0, <2>7, <3>1, DoneTypes DEF ReturnTicketErase, UnlockTickets, TypeOK
  <2>8. CASE SweepLock(p) \/ RegisterSwitch(p) \/ KeepAliveStatus(p)
    <3>1. pc' \in [Procs -> Pcs]
      BY <1>0, <2>8, <2>g, GotoTypes DEF SweepLock, RegisterSwitch, KeepAliveStatus
    <3>2. then' \in [Procs -> {"done", "reg_update", "ka_status"}]
      BY <1>0, <2>8 DEF SweepLock, RegisterSwitch, KeepAliveStatus, TypeOK
    <3> QED BY <1>0, <2>8, <3>1, <3>2 DEF SweepLock, RegisterSwitch, KeepAliveStatus,
            LockTickets, TypeOK
  <2>9. CASE SweepOne(p)
    BY <1>0, <2>9 DEF SweepOne, TicketsOf, TypeOK
  <2>10. CASE SweepEnd(p) \/ AddBusy(p)
    <3>1. then[p] \in Pcs
      BY <1>0 DEF TypeOK, Pcs
    <3>2. pc' \in [Procs -> Pcs]
      BY <1>0, <2>10, <3>1, GotoTypes DEF SweepEnd, AddBusy
    <3> QED BY <1>0, <2>10, <3>2 DEF SweepEnd, AddBusy, UnlockTickets, TypeOK
  <2>11. CASE RegisterUpdate(p) \/ KeepAliveUpdate(p)
    <3>1. app[p] \in Apps
      BY <1>0, <2>11 DEF RegisterUpdate, KeepAliveUpdate, Requesting
    <3> QED BY <1>0, <2>11, <3>1 DEF RegisterUpdate, KeepAliveUpdate, Goto, Pcs, TypeOK
  <2>12. CASE AddAplication(p)
    <3>1. visors' \in [Hosts -> 0..(VisorModulus - 1)]
      BY <1>0, <2>12, ZeroVisors DEF AddAplication, AddToTrace, TypeOK
    <3> QED BY <1>0, <2>12, <3>1 DEF AddAplication, AddToTrace, Goto, Pcs, TypeOK
  <2>13. CASE AddRegister(p)
    <3>1. app[p] \in Apps /\ then[p] \in Pcs
      BY <1>0, <2>13 DEF AddRegister, Requesting, TypeOK, Pcs
    <3>2. pc' \in [Procs -> Pcs]
      BY <1>0, <2>13, <3>1, GotoTypes DEF AddRegister
    <3> QED BY <1>0, <2>13, <3>1, <3>2 DEF AddRegister, TypeOK
  <2> QED BY <1>3, <2>1, <2>2, <2>3, <2>4, <2>5, <2>6, <2>7, <2>8, <2>9, <2>10,
             <2>11, <2>12, <2>13 DEF Step
<1>4. ASSUME NEW a \in Apps, KeepAliveExpired(a) PROVE TypeOK'
  BY <1>0, <1>m, <1>4 DEF KeepAliveExpired, Goto, Pcs, TypeOK
<1>5. CASE RemoveAplication
  <2>1. /\ visors' \in [Hosts -> 0..(VisorModulus - 1)]
        /\ trace' \in [Hosts -> Apps \cup {NoApp}]
    BY <1>0, <1>5, ZeroVisors DEF RemoveAplication, TypeOK
  <2> QED BY <1>0, <1>m, <1>5, <2>1 DEF RemoveAplication, Goto, Pcs, TypeOK
<1>6. CASE RemoveBusy
  BY <1>0, <1>m, <1>6 DEF RemoveBusy, Goto, Pcs, TypeOK
<1>7. CASE HaSwitch
  BY <1>0, <1>7 DEF HaSwitch, TypeOK
<1> QED BY <1>1, <1>2, <1>3, <1>4, <1>5, <1>6, <1>7 DEF Next

-----------------------------------------------------------------------------
(* The lock of the ticket table.                                           *)

(* A process keeps, takes or releases the lock, and moves accordingly.     *)
LEMMA LockMoves ==
  ASSUME TypeOK, TicketLock, NEW p \in Procs, NEW there, Goto(p, there),
         \/ ticketOwner' = ticketOwner /\ (pc[p] \in HoldsTickets <=> there \in HoldsTickets)
         \/ LockTickets(p) /\ there \in HoldsTickets
         \/ UnlockTickets /\ pc[p] \in HoldsTickets /\ there \notin HoldsTickets
  PROVE  TicketLock'
<1> SUFFICES ASSUME NEW q \in Procs
             PROVE  ticketOwner' = q <=> pc'[q] \in HoldsTickets
  BY DEF TicketLock
<1>1. NoProc \notin Procs
  BY SessionsAssumption DEF Procs
<1>2. pc'[p] = there /\ (q # p => pc'[q] = pc[q])
  BY DEF TypeOK, Goto
<1> QED BY <1>1, <1>2 DEF TicketLock, LockTickets, UnlockTickets

LEMMA SessionsLock == SessionsInv /\ [Next]_vars => TicketLock'
<1> SUFFICES ASSUME SessionsInv, [Next]_vars PROVE TicketLock'
  OBVIOUS
<1> USE DEF ticketsV, locals, control
<1>0. TypeOK /\ TicketLock
  BY DEF SessionsInv
<1>m. Monitor \in Procs /\ Threads \subseteq Procs
  BY DEF Procs
<1>1. CASE UNCHANGED vars
  BY <1>0, <1>1 DEF vars, TicketLock
<1>2. ASSUME NEW p \in Threads, Request(p) PROVE TicketLock'
  <2>1. PICK there : Goto(p, there) /\ there \notin HoldsTickets
    BY <1>2 DEF Request, UserLogin, UserLogout, ApplicationRegister,
       ApplicationKeepAlive, HoldsTickets
  <2>2. pc[p] = "idle" /\ ticketOwner' = ticketOwner
    BY <1>2 DEF Request, UserLogin, UserLogout, ApplicationRegister, ApplicationKeepAlive
  <2> QED BY <1>0, <1>m, <2>1, <2>2, LockMoves DEF HoldsTickets
<1>3. ASSUME NEW p \in Procs, Step(p) PROVE TicketLock'
  <2>0. then[p] \notin HoldsTickets
    BY <1>0 DEF TypeOK, HoldsTickets
  <2>1. CASE LoginLock(p) \/ ReturnTicketFound(p) \/ SweepLock(p)
    BY <1>0, <2>1, LockMoves DEF LoginLock, ReturnTicketFound, SweepLock, HoldsTickets
  <2>2. CASE LoginRefused(p) \/ LoginInsert(p) \/ ReturnTicketErase(p) \/ SweepEnd(p)
    BY <1>0, <2>0, <2>2, LockMoves
       DEF LoginRefused, LoginInsert, ReturnTicketErase, SweepEnd, Done, HoldsTickets
  <2>3. CASE \/ LoginGate(p) \/ LoginBusy(p) \/ LoginCount(p) \/ LoginReply(p)
             \/ LogoutCount(p) \/ ReturnTicketGone(p)
    <3>1. PICK there \in {"login_lock", "login_reply", "return_lock", "idle"} :
            Goto(p, there)
      BY <2>3 DEF LoginGate, LoginBusy, LoginCount, LoginReply, LogoutCount,
         ReturnTicketGone, Done
    <3>2. ticketOwner' = ticketOwner /\ pc[p] \notin HoldsTickets
      BY <2>3 DEF LoginGate, LoginBusy, LoginCount, LoginReply, LogoutCount,
         ReturnTicketGone, HoldsTickets
    <3> QED BY <1>0, <3>1, <3>2, LockMoves DEF HoldsTickets
  <2>4. CASE LoginAccepted(p) \/ SweepOne(p)
    <3>1. CASE LoginAccepted(p)
      BY <1>0, <3>1, LockMoves DEF LoginAccepted, HoldsTickets
    <3>2. CASE SweepOne(p)
      BY <1>0, <3>2 DEF SweepOne, TicketLock
    <3> QED BY <2>4, <3>1, <3>2
  <2>5. CASE \/ RegisterSwitch(p) \/ RegisterUpdate(p) \/ AddAplication(p)
             \/ AddRegister(p) \/ AddBusy(p) \/ KeepAliveStatus(p)
             \/ KeepAliveUpdate(p) \/ Return(p)
    <3>1. PICK there : Goto(p, there) /\ there \notin HoldsTickets
      BY <2>0, <2>5 DEF RegisterSwitch, RegisterUpdate, AddAplication, AddRegister,
         AddBusy, KeepAliveStatus, KeepAliveUpdate, Return, Done, HoldsTickets
    <3>2. ticketOwner' = ticketOwner /\ pc[p] \notin HoldsTickets
      BY <2>5 DEF RegisterSwitch, RegisterUpdate, AddAplication, AddRegister,
         AddBusy, KeepAliveStatus, KeepAliveUpdate, Return, HoldsTickets
    <3> QED BY <1>0, <3>1, <3>2, LockMoves
  <2> QED BY <1>3, <2>1, <2>2, <2>3, <2>4, <2>5 DEF Step
<1>4. ASSUME NEW a \in Apps, KeepAliveExpired(a) PROVE TicketLock'
  BY <1>0, <1>m, <1>4, LockMoves DEF KeepAliveExpired, HoldsTickets
<1>5. CASE RemoveAplication \/ RemoveBusy
  BY <1>0, <1>m, <1>5, LockMoves DEF RemoveAplication, RemoveBusy, HoldsTickets
<1>6. CASE HaSwitch
  BY <1>0, <1>6 DEF HaSwitch, TicketLock
<1> QED BY <1>1, <1>2, <1>3, <1>4, <1>5, <1>6 DEF Next

(* No two processes work on the ticket table. *)
LEMMA OneHolder ==
  ASSUME TicketLock, NEW p \in Procs, NEW q \in Procs,
         pc[p] \in HoldsTickets, pc[q] \in HoldsTickets
  PROVE  p = q
  BY DEF TicketLock

-----------------------------------------------------------------------------
(* Requests.                                                               *)

LEMMA SessionsRequesting == SessionsInv /\ [Next]_vars => Requesting'
<1> SUFFICES ASSUME SessionsInv, [Next]_vars PROVE Requesting'
  OBVIOUS
<1> USE DEF locals, control
<1>0. TypeOK /\ Requesting
  BY DEF SessionsInv
<1>m. Monitor \in Procs /\ Threads \subseteq Procs
  BY DEF Procs
<1>1. CASE UNCHANGED vars
  BY <1>0, <1>1 DEF vars, Requesting
<1>2. ASSUME NEW p \in Threads, Request(p) PROVE Requesting'
  <2>1. ASSUME NEW a \in Apps,
               UserLogin(p, a) \/ ApplicationRegister(p, a) \/ ApplicationKeepAlive(p, a)
        PROVE  Requesting'
    BY <1>0, <1>m, <2>1 DEF UserLogin, ApplicationRegister, ApplicationKeepAlive,
       Goto, Requesting, TypeOK
  <2>2. ASSUME NEW k \in Tickets, UserLogout(p, k) PROVE Requesting'
    <3>1. tab[k].app \in Apps
      BY <1>0, <2>2 DEF UserLogout, TypeOK
    <3> QED BY <1>0, <1>m, <2>2, <3>1 DEF UserLogout, Goto, Requesting, TypeOK
  <2> QED BY <1>2, <2>1, <2>2 DEF Request
<1>3. ASSUME NEW p \in Procs, Step(p) PROVE Requesting'
  <2>1. CASE Done(p)
    BY <1>0, <2>1 DEF Done, Goto, Requesting, TypeOK
  <2>2. ASSUME NEW there, Goto(p, there), pc[p] # "idle",
               there \notin {"logout_count", "return_lock", "return_erase"},
               app' = app, ticket' = ticket
        PROVE  Requesting'
    BY <1>0, <2>2 DEF Goto, Requesting, TypeOK
  <2>3. CASE SweepOne(p)
    BY <1>0, <2>3 DEF SweepOne, Requesting
  <2>4. CASE LogoutCount(p) \/ ReturnTicketFound(p)
    BY <1>0, <2>4 DEF LogoutCount, ReturnTicketFound, Goto, Requesting, TypeOK
  <2>5. CASE LoginReply(p) \/ ReturnTicketGone(p) \/ ReturnTicketErase(p) \/ Return(p)
    BY <2>1, <2>5 DEF LoginReply, ReturnTicketGone, ReturnTicketErase, Return
  <2>6. CASE \/ LoginGate(p) \/ LoginLock(p) \/ LoginBusy(p) \/ LoginAccepted(p)
             \/ LoginRefused(p) \/ LoginInsert(p) \/ LoginCount(p)
    BY <2>2, <2>6 DEF LoginGate, LoginLock, LoginBusy, LoginAccepted, LoginRefused,
       LoginInsert, LoginCount
  <2>7. CASE \/ SweepLock(p) \/ SweepEnd(p) \/ RegisterSwitch(p) \/ RegisterUpdate(p)
             \/ AddAplication(p) \/ AddRegister(p) \/ AddBusy(p)
             \/ KeepAliveStatus(p) \/ KeepAliveUpdate(p)
    <3>1. then[p] \notin {"logout_count", "return_lock", "return_erase"}
      BY <1>0 DEF TypeOK
    <3> QED BY <2>2, <2>7, <3>1 DEF SweepLock, SweepEnd, RegisterSwitch,
            RegisterUpdate, AddAplication, AddRegister, AddBusy, KeepAliveStatus,
            KeepAliveUpdate
  <2> QED BY <1>3, <2>3, <2>4, <2>5, <2>6, <2>7 DEF Step
<1>4. ASSUME NEW a \in Apps, KeepAliveExpired(a) PROVE Requesting'
  BY <1>0, <1>m, <1>4 DEF KeepAliveExpired, Goto, Requesting, TypeOK
<1>5. CASE RemoveAplication \/ RemoveBusy
  BY <1>0, <1>m, <1>5 DEF RemoveAplication, RemoveBusy, Goto, Requesting, TypeOK
<1>6. CASE HaSwitch
  BY <1>0, <1>6 DEF HaSwitch, Requesting
<1> QED BY <1>1, <1>2, <1>3, <1>4, <1>5, <1>6 DEF Next

-----------------------------------------------------------------------------
(* Tickets and users who are logged in.                                    *)

Agreement == Inserting /\ Erasing /\ Numbered /\ Entries /\ Entered

(* Most steps touch neither. *)
LEMMA QuietKeeps ==
  ASSUME TypeOK, Agreement, NEW p \in Procs, NEW there, Goto(p, there),
         {pc[p], there} \cap {"login_insert", "return_erase"} = {},
         UNCHANGED <<tab, issued, logins, sessions>>,
         \A q \in Procs \ {p} : ticket'[q] = ticket[q] /\ data'[q] = data[q]
  PROVE  Agreement'
<1>1. /\ pc'[p] \notin {"login_insert", "return_erase"}
      /\ pc[p] \notin {"login_insert", "return_erase"}
      /\ \A q \in Procs \ {p} : pc'[q] = pc[q]
  BY DEF TypeOK, Goto
<1>2. Inserting' /\ Erasing' /\ Numbered'
  BY <1>1 DEF Agreement, Inserting, Erasing, Numbered
<1>3. Entries'
  BY <1>1 DEF Agreement, Entries
<1>4. Entered'
  BY <1>1 DEF Agreement, Entered
<1> QED BY <1>2, <1>3, <1>4 DEF Agreement

(* The session manager gives the next login the next number. *)
LEMMA AcceptedKeeps ==
  ASSUME SessionsInv, NEW p \in Procs, LoginAccepted(p)
  PROVE  Agreement'
<1> USE DEF locals
<1>0. TypeOK /\ TicketLock /\ Inserting /\ Erasing /\ Numbered /\ Entries /\ Entered
  BY DEF SessionsInv
<1> DEFINE n == logins + 1
<1>1. n \in Clients /\ issued[n] = 0 /\ n \notin sessions
  BY <1>0, SessionsAssumption DEF LoginAccepted, TypeOK, Clients, Numbered
<1>2. /\ pc[p] = "login_sm" /\ pc'[p] = "login_insert" /\ data'[p] = n
      /\ logins' = n /\ sessions' = sessions \cup {n}
      /\ UNCHANGED <<tab, issued, ticket>>
      /\ \A q \in Procs \ {p} : pc'[q] = pc[q] /\ data'[q] = data[q]
  BY <1>0 DEF LoginAccepted, TypeOK, Goto
<1>3. \A q \in Procs \ {p} : pc[q] \notin {"login_insert", "return_erase"}
  BY <1>0, <1>2, OneHolder DEF HoldsTickets
<1>4. Inserting' /\ Erasing'
  BY <1>1, <1>2, <1>3 DEF Inserting, Erasing
<1>5. Numbered'
  BY <1>0, <1>1, <1>2 DEF TypeOK, Clients, Numbered
<1>6. Entries'
  BY <1>0, <1>1, <1>2, <1>3 DEF Entries
<1>7. Entered'
  BY <1>0, <1>1, <1>2, <1>3 DEF Entered
<1> QED BY <1>4, <1>5, <1>6, <1>7 DEF Agreement

(* The new entry may hide that of an earlier client with the same ticket.  *)
LEMMA InsertKeeps ==
  ASSUME SessionsInv, NEW p \in Procs, LoginInsert(p)
  PROVE  Agreement'
<1> USE DEF locals
<1>0. TypeOK /\ TicketLock /\ Inserting /\ Erasing /\ Numbered /\ Entries /\ Entered
  BY DEF SessionsInv
<1>1. /\ data[p] = logins /\ logins \in sessions /\ logins \in Clients
      /\ issued[logins] = 0
  BY <1>0 DEF LoginInsert, Inserting, TypeOK
<1>2. PICK k \in {data[p]} \cup {issued[n] : n \in {m \in Clients : issued[m] # 0}} :
        /\ tab' = [tab EXCEPT ![k] = [app |-> app[p], client |-> data[p]]]
        /\ issued' = [issued EXCEPT ![data[p]] = k]
  BY DEF LoginInsert
<1>3. k \in Tickets /\ k # 0
  <2>1. CASE k = data[p]
    BY <1>1, <2>1 DEF Tickets, Clients
  <2>2. ASSUME NEW n \in Clients, issued[n] # 0, k = issued[n] PROVE k \in Tickets /\ k # 0
    BY <1>0, <2>2, SessionsAssumption DEF TypeOK, Clients, Tickets
  <2> QED BY <1>2, <2>1, <2>2
<1>4. /\ tab'[k].client = logins /\ tab'[k] # NoSession
      /\ \A j \in Tickets \ {k} : tab'[j] = tab[j]
      /\ issued'[logins] = k
      /\ \A n \in Clients \ {logins} : issued'[n] = issued[n]
  <2>1. tab' = [tab EXCEPT ![k] = [app |-> app[p], client |-> logins]]
    BY <1>1, <1>2
  <2>2. tab'[k] = [app |-> app[p], client |-> logins]
    BY <1>0, <1>3, <2>1 DEF TypeOK
  <2>3. logins # 0
    BY <1>1 DEF Clients
  <2> QED BY <1>0, <1>1, <1>2, <1>3, <2>1, <2>2, <2>3 DEF TypeOK, NoSession
<1>5. /\ pc[p] = "login_insert" /\ pc'[p] = "login_count"
      /\ UNCHANGED <<ticket, data, logins, sessions>>
      /\ \A q \in Procs \ {p} : pc'[q] = pc[q]
  BY <1>0 DEF LoginInsert, TypeOK, Goto
<1>6. \A q \in Procs \ {p} : pc[q] \notin {"login_insert", "return_erase"}
  BY <1>0, <1>5, OneHolder DEF HoldsTickets
<1>7. Inserting' /\ Erasing'
  BY <1>5, <1>6 DEF Inserting, Erasing
<1>8. Numbered'
  BY <1>0, <1>1, <1>4, <1>5 DEF Numbered, TypeOK
<1>9. Entries'
  <2> SUFFICES ASSUME NEW j \in Tickets, tab'[j] # NoSession
               PROVE  issued'[tab'[j].client] = j /\ tab'[j].client \in sessions'
    BY DEF Entries
  <2>1. CASE j = k
    BY <1>1, <1>4, <1>5, <2>1
  <2>2. CASE j # k
    <3>1. tab'[j] = tab[j] /\ issued[tab[j].client] = j /\ tab[j].client \in sessions
      BY <1>0, <1>4, <1>5, <1>6, <2>2 DEF Entries
    <3>2. tab[j].client # logins
      BY <1>1, <3>1 DEF Tickets, Clients
    <3> QED BY <1>0, <1>4, <1>5, <3>1, <3>2 DEF TypeOK
  <2> QED BY <2>1, <2>2
<1>10. Entered'
  <2> SUFFICES ASSUME NEW n \in sessions
               PROVE  /\ issued'[n] # 0
                      /\ \/ tab'[issued'[n]].client = n
                         \/ \E m \in Clients : m > n /\ issued'[m] = issued'[n]
    BY <1>5 DEF Entered
  <2>1. CASE n = logins
    BY <1>3, <1>4, <2>1
  <2>2. CASE n # logins
    <3>1. n \in Clients /\ issued'[n] = issued[n] /\ n < logins
      BY <1>0, <1>4, <2>2 DEF TypeOK, Numbered, Clients
    <3>2. issued[n] # 0
      BY <1>0, <1>1, <1>5, <1>6, <2>2 DEF Entered
    <3>3. CASE issued[n] = k
      BY <1>1, <1>4, <3>1, <3>2, <3>3
    <3>4. CASE issued[n] # k
      <4>1. issued[n] \in Tickets
        BY <1>0, <3>1, <3>2, SessionsAssumption DEF TypeOK, Tickets, Clients
      <4>2. CASE tab[issued[n]].client = n
        BY <1>4, <3>1, <3>2, <3>4, <4>1, <4>2
      <4>3. ASSUME NEW m \in Clients, m > n, issued[m] = issued[n]
            PROVE  m > n /\ issued'[m] = issued'[n]
        BY <1>1, <1>4, <3>1, <3>2, <4>3
      <4> QED BY <1>0, <3>1, <3>2, <4>2, <4>3 DEF Entered
    <3> QED BY <3>3, <3>4
  <2> QED BY <2>1, <2>2
<1> QED BY <1>7, <1>8, <1>9, <1>10 DEF Agreement

(* A logout finds the ticket: the user is logged out first. *)
LEMMA FoundKeeps ==
  ASSUME SessionsInv, NEW p \in Procs, ReturnTicketFound(p)
  PROVE  Agreement'
<1> USE DEF locals
<1>0. /\ TypeOK /\ TicketLock /\ Requesting /\ Inserting /\ Erasing /\ Numbered
      /\ Entries /\ Entered
  BY DEF SessionsInv
<1>1. /\ pc[p] = "return_lock" /\ pc'[p] = "return_erase"
      /\ ticket[p] \in Tickets /\ tab[ticket[p]] # NoSession
      /\ sessions' = sessions \ {tab[ticket[p]].client}
      /\ UNCHANGED <<tab, issued, logins, ticket, data>>
      /\ \A q \in Procs \ {p} : pc'[q] = pc[q]
  BY <1>0 DEF ReturnTicketFound, TypeOK, Goto, Requesting
<1>2. \A q \in Procs : pc[q] \notin HoldsTickets
  BY <1>0, SessionsAssumption DEF ReturnTicketFound, LockTickets, TicketLock, Procs
<1>3. Inserting' /\ Erasing'
  BY <1>1, <1>2 DEF Inserting, Erasing, HoldsTickets
<1>4. Numbered'
  BY <1>0, <1>1 DEF Numbered
<1>5. Entries'
  <2> SUFFICES ASSUME NEW k \in Tickets, tab[k] # NoSession
               PROVE  /\ issued[tab[k].client] = k
                      /\ \/ tab[k].client \in sessions'
                         \/ \E q \in Procs : pc'[q] = "return_erase" /\ ticket[q] = k
    BY <1>1 DEF Entries
  <2>1. issued[tab[k].client] = k /\ tab[k].client \in sessions
    BY <1>0, <1>2 DEF Entries, HoldsTickets
  <2>2. CASE k = ticket[p]
    BY <1>1, <2>1, <2>2
  <2>3. CASE k # ticket[p]
    <3>1. tab[k].client # tab[ticket[p]].client
      BY <1>0, <1>1, <2>1, <2>3 DEF Entries
    <3> QED BY <1>1, <2>1, <3>1
  <2> QED BY <2>2, <2>3
<1>6. Entered'
  BY <1>0, <1>1, <1>2 DEF Entered, HoldsTickets
<1> QED BY <1>3, <1>4, <1>5, <1>6 DEF Agreement

LEMMA EraseKeeps ==
  ASSUME SessionsInv, NEW p \in Procs, ReturnTicketErase(p)
  PROVE  Agreement'
<1>0. /\ TypeOK /\ TicketLock /\ Requesting /\ Inserting /\ Erasing /\ Numbered
      /\ Entries /\ Entered
  BY DEF SessionsInv
<1>1. /\ pc[p] = "return_erase" /\ pc'[p] = "idle"
      /\ ticket[p] \in Tickets /\ tab'[ticket[p]] = NoSession
      /\ tab[ticket[p]].client \notin sessions
      /\ \A k \in Tickets \ {ticket[p]} : tab'[k] = tab[k]
      /\ UNCHANGED <<sessions, issued, logins>>
      /\ \A q \in Procs \ {p} :
           pc'[q] = pc[q] /\ ticket'[q] = ticket[q] /\ data'[q] = data[q]
  BY <1>0 DEF ReturnTicketErase, TypeOK, Done, Goto, Requesting, Erasing
<1>2. \A q \in Procs \ {p} : pc[q] \notin {"login_insert", "return_erase"}
  BY <1>0, <1>1, OneHolder DEF HoldsTickets
<1>3. Inserting' /\ Erasing'
  BY <1>1, <1>2 DEF Inserting, Erasing
<1>4. Numbered'
  BY <1>0, <1>1 DEF Numbered
<1>5. Entries'
  BY <1>0, <1>1, <1>2 DEF Entries
<1>6. Entered'
  <2> SUFFICES ASSUME NEW n \in sessions
               PROVE  /\ issued[n] # 0
                      /\ \/ tab'[issued[n]].client = n
                         \/ \E m \in Clients : m > n /\ issued[m] = issued[n]
    BY <1>1 DEF Entered
  <2>1. issued[n] # 0
    BY <1>0, <1>1, <1>2 DEF Entered
  <2>2. issued[n] \in Tickets
    BY <1>0, <2>1, SessionsAssumption DEF TypeOK, Tickets, Clients
  <2>3. CASE tab[issued[n]].client = n
    BY <1>1, <2>1, <2>2, <2>3
  <2> QED BY <1>0, <2>1, <2>3 DEF Entered
<1> QED BY <1>3, <1>4, <1>5, <1>6 DEF Agreement

LEMMA SweepKeeps ==
  ASSUME SessionsInv, NEW p \in Procs, SweepOne(p)
  PROVE  Agreement'
<1>0. /\ TypeOK /\ TicketLock /\ Requesting /\ Inserting /\ Erasing /\ Numbered
      /\ Entries /\ Entered
  BY DEF SessionsInv
<1>1. PICK k \in TicketsOf(app[p]) :
        /\ sessions' = sessions \ {tab[k].client}
        /\ tab' = [tab EXCEPT ![k] = NoSession]
  BY DEF SweepOne
<1>2. /\ pc[p] = "sweep" /\ k \in Tickets
      /\ tab'[k] = NoSession /\ \A j \in Tickets \ {k} : tab'[j] = tab[j]
      /\ UNCHANGED <<pc, ticket, data, issued, logins>>
  BY <1>0, <1>1 DEF SweepOne, TicketsOf, TypeOK, control
<1>3. app[p] \in Apps /\ tab[k].app = app[p]
  BY <1>0, <1>1, <1>2 DEF TicketsOf, Requesting
<1>4. tab[k] # NoSession
  BY <1>3, SessionsAssumption DEF NoSession
<1>5. \A q \in Procs : pc[q] \notin {"login_insert", "return_erase"}
  <2> SUFFICES ASSUME NEW q \in Procs, pc[q] \in {"login_insert", "return_erase"} PROVE FALSE
    OBVIOUS
  <2>1. q = p
    BY <1>0, <1>2, OneHolder DEF HoldsTickets
  <2> QED BY <1>2, <2>1
<1>6. Inserting' /\ Erasing'
  BY <1>2, <1>5 DEF Inserting, Erasing
<1>7. Numbered'
  BY <1>0, <1>1, <1>2 DEF Numbered
<1>8. Entries'
  <2> SUFFICES ASSUME NEW j \in Tickets, tab'[j] # NoSession
               PROVE  issued[tab'[j].client] = j /\ tab'[j].client \in sessions'
    BY <1>2 DEF Entries
  <2>1. j # k /\ tab'[j] = tab[j]
    BY <1>2
  <2>2. issued[tab[j].client] = j /\ tab[j].client \in sessions
    BY <1>0, <1>5, <2>1 DEF Entries
  <2>3. issued[tab[k].client] = k
    BY <1>0, <1>2, <1>4 DEF Entries
  <2> QED BY <1>1, <2>1, <2>2, <2>3
<1>9. Entered'
  <2> SUFFICES ASSUME NEW n \in sessions, n # tab[k].client
               PROVE  /\ issued[n] # 0
                      /\ \/ tab'[issued[n]].client = n
                         \/ \E m \in Clients : m > n /\ issued[m] = issued[n]
    BY <1>1, <1>2 DEF Entered
  <2>1. issued[n] # 0
    BY <1>0, <1>5 DEF Entered
  <2>2. issued[n] \in Tickets
    BY <1>0, <2>1, SessionsAssumption DEF TypeOK, Tickets, Clients
  <2>3. CASE tab[issued[n]].client = n
    BY <1>2, <2>1, <2>2, <2>3
  <2> QED BY <1>0, <2>1, <2>3 DEF Entered
<1> QED BY <1>6, <1>7, <1>8, <1>9 DEF Agreement

LEMMA SessionsAgreement == SessionsInv /\ [Next]_vars => Agreement'
<1> SUFFICES ASSUME SessionsInv, [Next]_vars PROVE Agreement'
  OBVIOUS
<1> USE DEF ticketsV, locals, control
<1>0. TypeOK /\ Agreement
  BY DEF SessionsInv, Agreement
<1>m. Monitor \in Procs /\ Threads \subseteq Procs
  BY DEF Procs
<1>s. ASSUME UNCHANGED <<pc, ticket, data, tab, issued, logins, sessions>>
      PROVE  Agreement'
  <2>1. Inserting' /\ Erasing' /\ Numbered'
    BY <1>0, <1>s DEF Agreement, Inserting, Erasing, Numbered
  <2>2. Entries' /\ Entered'
    BY <1>0, <1>s DEF Agreement, Entries, Entered
  <2> QED BY <2>1, <2>2 DEF Agreement
<1>1. CASE UNCHANGED vars
  BY <1>1, <1>s DEF vars
<1>2. ASSUME NEW p \in Threads, Request(p) PROVE Agreement'
  <2>1. PICK there \in {"login_gate", "logout_count", "reg_switch", "sweep_lock", "add",
                        "ka_status"} : Goto(p, there)
    BY <1>2 DEF Request, UserLogin, UserLogout, ApplicationRegister, ApplicationKeepAlive
  <2>2. /\ pc[p] = "idle" /\ UNCHANGED <<tab, issued, logins, sessions>>
        /\ \A q \in Procs \ {p} : ticket'[q] = ticket[q] /\ data'[q] = data[q]
    BY <1>0, <1>m, <1>2 DEF Request, UserLogin, UserLogout, ApplicationRegister,
       ApplicationKeepAlive, TypeOK
  <2> QED BY <1>0, <1>m, <2>1, <2>2, QuietKeeps
<1>3. ASSUME NEW p \in Procs, Step(p) PROVE Agreement'
  <2>1. CASE LoginAccepted(p)
    BY <2>1, AcceptedKeeps
  <2>2. CASE LoginInsert(p)
    BY <2>2, InsertKeeps
  <2>3. CASE ReturnTicketFound(p)
    BY <2>3, FoundKeeps
  <2>4. CASE ReturnTicketErase(p)
    BY <2>4, EraseKeeps
  <2>5. CASE SweepOne(p)
    BY <2>5, SweepKeeps
  <2>6. CASE LoginReply(p) \/ ReturnTicketGone(p) \/ Return(p)
    <3>1. /\ Goto(p, "idle") /\ pc[p] \notin {"login_insert", "return_erase"}
          /\ UNCHANGED <<tab, issued, logins, sessions>>
          /\ \A q \in Procs \ {p} : ticket'[q] = ticket[q] /\ data'[q] = data[q]
      BY <1>0, <2>6 DEF LoginReply, ReturnTicketGone, Return, Done, TypeOK
    <3> QED BY <1>0, <3>1, QuietKeeps
  <2>7. CASE \/ LoginGate(p) \/ LoginLock(p) \/ LoginBusy(p) \/ LoginRefused(p)
             \/ LoginCount(p) \/ LogoutCount(p)
    <3>1. PICK there \in {"login_lock", "login_reply", "login_sm", "return_lock"} :
            Goto(p, there)
      BY <2>7 DEF LoginGate, LoginLock, LoginBusy, LoginRefused, LoginCount, LogoutCount
    <3>2. /\ pc[p] \notin {"login_insert", "return_erase"}
          /\ UNCHANGED <<tab, issued, logins, sessions, ticket, data>>
      BY <2>7 DEF LoginGate, LoginLock, LoginBusy, LoginRefused, LoginCount, LogoutCount
    <3> QED BY <1>0, <3>1, <3>2, QuietKeeps
  <2>8. CASE \/ SweepLock(p) \/ SweepEnd(p) \/ RegisterSwitch(p) \/ RegisterUpdate(p)
             \/ AddAplication(p) \/ AddRegister(p) \/ AddBusy(p)
             \/ KeepAliveStatus(p) \/ KeepAliveUpdate(p)
    <3>1. then[p] \in {"done", "reg_update", "ka_status"}
      BY <1>0 DEF TypeOK
    <3>2. PICK there \in {"sweep", "done", "reg_update", "ka_status", "sweep_lock", "add",
                          "add_register", "ka_update"} : Goto(p, there)
      BY <2>8, <3>1 DEF SweepLock, SweepEnd, RegisterSwitch, RegisterUpdate,
         AddAplication, AddRegister, AddBusy, KeepAliveStatus, KeepAliveUpdate
    <3>3. /\ pc[p] \notin {"login_insert", "return_erase"}
          /\ UNCHANGED <<tab, issued, logins, sessions, ticket, data>>
      BY <2>8 DEF SweepLock, SweepEnd, RegisterSwitch, RegisterUpdate,
         AddAplication, AddRegister, AddBusy, KeepAliveStatus, KeepAliveUpdate
    <3> QED BY <1>0, <3>2, <3>3, QuietKeeps
  <2> QED BY <1>3, <2>1, <2>2, <2>3, <2>4, <2>5, <2>6, <2>7, <2>8 DEF Step
<1>4. ASSUME NEW a \in Apps, KeepAliveExpired(a) PROVE Agreement'
  BY <1>0, <1>m, <1>4, QuietKeeps DEF KeepAliveExpired
<1>5. CASE RemoveAplication \/ RemoveBusy
  BY <1>0, <1>m, <1>5, QuietKeeps DEF RemoveAplication, RemoveBusy
<1>6. CASE HaSwitch
  BY <1>6, <1>s DEF HaSwitch
<1> QED BY <1>1, <1>2, <1>3, <1>4, <1>5, <1>6 DEF Next

-----------------------------------------------------------------------------
(* SessionsInv holds in every reachable state. *)
THEOREM SessionsInvariant == Spec => []SessionsInv
<1>1. Init => SessionsInv
  BY SessionsInit
<1>2. SessionsInv /\ [Next]_vars => SessionsInv'
  BY SessionsTypes, SessionsLock, SessionsRequesting, SessionsAgreement
     DEF SessionsInv, Agreement
<1> QED BY <1>1, <1>2, PTL DEF Spec

(* Every field keeps its type; n_visors, which is decremented without a    *)
(* test, stays an unsigned short only because it wraps.                    *)
THEOREM SessionsTypeCorrect == Spec => []TypeOK
<1>1. SessionsInv => TypeOK
  BY DEF SessionsInv
<1> QED BY <1>1, SessionsInvariant, PTL

(* The lock of the ticket table is held exactly by the process that works  *)
(* on the table.                                                           *)
THEOREM TicketLockIsExact == Spec => []TicketLock
<1>1. SessionsInv => TicketLock
  BY DEF SessionsInv
<1> QED BY <1>1, SessionsInvariant, PTL

(* Tickets and the users the session manager has logged in agree, but for  *)
(* the login and the logout in progress and for hidden entries.            *)
THEOREM SessionsAndTicketsAgree == Spec => []SessionsMatchTickets
<1>1. SessionsInv => SessionsMatchTickets
  <2> SUFFICES ASSUME SessionsInv PROVE SessionsMatchTickets
    OBVIOUS
  <2> DEFINE removing == {tab[ticket[p]].client : p \in {q \in Procs : pc[q] = "return_erase"}}
             adding   == {data[p] : p \in {q \in Procs : pc[q] = "login_insert"}}
             listed   == {tab[k].client : k \in Tickets} \ {0}
  <2>0. TypeOK /\ Entries /\ Entered
    BY DEF SessionsInv
  <2>1. listed \ removing \subseteq sessions
    <3> SUFFICES ASSUME NEW k \in Tickets, tab[k].client # 0,
                        tab[k].client \notin removing
                 PROVE  tab[k].client \in sessions
      OBVIOUS
    <3>1. tab[k] # NoSession
      BY DEF NoSession
    <3>2. ASSUME NEW p \in Procs, pc[p] = "return_erase", ticket[p] = k PROVE FALSE
      BY <3>2
    <3> QED BY <2>0, <3>1, <3>2 DEF Entries
  <2>2. ASSUME NEW n \in sessions \ (listed \cup adding)
        PROVE  \E m \in Clients : m > n /\ issued[m] = issued[n]
    <3>1. n \in Clients
      BY <2>0 DEF TypeOK
    <3>2. CASE issued[n] = 0
      <4>1. PICK p \in Procs : pc[p] = "login_insert" /\ data[p] = n
        BY <2>0, <3>2 DEF Entered
      <4> QED BY <4>1
    <3>3. CASE issued[n] # 0
      <4>1. issued[n] \in Tickets
        BY <2>0, <3>1, <3>3, SessionsAssumption DEF TypeOK, Tickets, Clients
      <4>2. tab[issued[n]].client # n
        <5>1. n # 0
          BY <3>1 DEF Clients
        <5> QED BY <4>1, <5>1
      <4> QED BY <2>0, <3>3, <4>2 DEF Entered
    <3> QED BY <3>2, <3>3
  <2> QED BY <2>1, <2>2 DEF SessionsMatchTickets
<1> QED BY <1>1, SessionsInvariant, PTL

-----------------------------------------------------------------------------
(* Supervision of the traced applications.                                 *)

SupervisedBy(a) ==
  \/ a \in registered
  \/ \E p \in Procs : pc[p] \in {"add_register", "remove"} /\ app[p] = a

(* A step that leaves the trace alone, and no process on its way between   *)
(* the trace and the supervision. *)
LEMMA SupervisionKept ==
  ASSUME TypeOK, TracedAreSupervised, NEW p \in Procs,
         UNCHANGED <<trace, traceOwner, registered>>,
         pc[p] \notin {"add_register", "remove"},
         \A q \in Procs \ {p} : pc'[q] = pc[q] /\ app'[q] = app[q]
  PROVE  TracedAreSupervised'
  BY DEF TracedAreSupervised

LEMMA SupervisionStep == TypeOK /\ TracedAreSupervised /\ [Next]_vars => TracedAreSupervised'
<1> SUFFICES ASSUME TypeOK, TracedAreSupervised, [Next]_vars PROVE TracedAreSupervised'
  OBVIOUS
<1> USE DEF traceV, locals, control
<1>m. Monitor \in Procs /\ Threads \subseteq Procs
  BY DEF Procs
<1>1. CASE UNCHANGED vars
  BY <1>1 DEF vars, TracedAreSupervised
<1>2. ASSUME NEW p \in Threads, Request(p) PROVE TracedAreSupervised'
  <2>1. /\ UNCHANGED <<trace, traceOwner, registered>> /\ pc[p] = "idle"
        /\ \A q \in Procs \ {p} : pc'[q] = pc[q] /\ app'[q] = app[q]
    BY <1>m, <1>2 DEF Request, UserLogin, UserLogout, ApplicationRegister,
       ApplicationKeepAlive, Goto, TypeOK
  <2> QED BY <1>m, <2>1, SupervisionKept
<1>3. ASSUME NEW p \in Procs, Step(p) PROVE TracedAreSupervised'
  <2>1. CASE LoginCount(p) \/ LogoutCount(p)
    <3>1. /\ trace' = trace /\ registered' = registered /\ app' = app
          /\ traceOwner' \in {traceOwner, p}
          /\ pc[p] \notin {"add_register", "remove"}
          /\ \A q \in Procs \ {p} : pc'[q] = pc[q]
      BY <2>1 DEF LoginCount, LogoutCount, ChangeNumberByLicenceType, Goto, TypeOK
    <3>2. traceOwner' = NoProc => traceOwner = NoProc
      BY <3>1, SessionsAssumption DEF Procs
    <3> QED BY <3>1, <3>2 DEF TracedAreSupervised
  <2>2. CASE AddAplication(p)
    <3> SUFFICES ASSUME traceOwner = NoProc, NEW a \in Apps, trace'[HostOf[a]] = a
                 PROVE  SupervisedBy(a)'
      BY <2>2 DEF AddAplication, AddToTrace, TracedAreSupervised, SupervisedBy
    <3>0. HostOf[a] \in Hosts
      BY SessionsAssumption
    <3>1. /\ pc'[p] = "add_register" /\ app' = app /\ registered' = registered
          /\ pc[p] = "add"
          /\ \A q \in Procs \ {p} : pc'[q] = pc[q]
          /\ trace' = [trace EXCEPT ![Host(p)] = app[p]]
      BY <2>2 DEF AddAplication, AddToTrace, Goto, TypeOK
    <3>2. CASE HostOf[a] = Host(p)
      BY <3>0, <3>1, <3>2 DEF TypeOK, SupervisedBy
    <3>3. CASE HostOf[a] # Host(p)
      BY <3>0, <3>1, <3>3 DEF TypeOK, TracedAreSupervised, SupervisedBy
    <3> QED BY <3>2, <3>3
  <2>3. CASE AddRegister(p)
    <3>1. /\ registered' = registered \cup {app[p]} /\ app' = app
          /\ UNCHANGED <<trace, traceOwner>>
          /\ \A q \in Procs \ {p} : pc'[q] = pc[q]
      BY <2>3 DEF AddRegister, Goto, TypeOK
    <3> QED BY <3>1 DEF TracedAreSupervised
  <2>4. CASE LoginReply(p) \/ ReturnTicketGone(p) \/ ReturnTicketErase(p) \/ Return(p)
    <3>1. /\ UNCHANGED <<trace, traceOwner, registered>>
          /\ pc[p] \notin {"add_register", "remove"}
          /\ \A q \in Procs \ {p} : pc'[q] = pc[q] /\ app'[q] = app[q]
      BY <2>4 DEF LoginReply, ReturnTicketGone, ReturnTicketErase, Return, Done, Goto, TypeOK
    <3> QED BY <3>1, SupervisionKept
  <2>5. CASE \/ LoginGate(p) \/ LoginLock(p) \/ LoginBusy(p) \/ LoginAccepted(p)
             \/ LoginRefused(p) \/ LoginInsert(p) \/ ReturnTicketFound(p)
    <3>1. /\ UNCHANGED <<trace, traceOwner, registered, app>>
          /\ pc[p] \notin {"add_register", "remove"}
          /\ \A q \in Procs \ {p} : pc'[q] = pc[q]
      BY <2>5 DEF LoginGate, LoginLock, LoginBusy, LoginAccepted, LoginRefused,
         LoginInsert, ReturnTicketFound, Goto, TypeOK
    <3> QED BY <3>1, SupervisionKept
  <2>6. CASE \/ SweepLock(p) \/ SweepOne(p) \/ SweepEnd(p) \/ RegisterSwitch(p)
             \/ RegisterUpdate(p) \/ AddBusy(p) \/ KeepAliveStatus(p)
             \/ KeepAliveUpdate(p)
    <3>1. /\ UNCHANGED <<trace, traceOwner, registered, app>>
          /\ pc[p] \notin {"add_register", "remove"}
          /\ \A q \in Procs \ {p} : pc'[q] = pc[q]
      BY <2>6 DEF SweepLock, SweepOne, SweepEnd, RegisterSwitch, RegisterUpdate,
         AddBusy, KeepAliveStatus, KeepAliveUpdate, Goto, TypeOK
    <3> QED BY <3>1, SupervisionKept
  <2> QED BY <1>3, <2>1, <2>2, <2>3, <2>4, <2>5, <2>6 DEF Step
<1>4. ASSUME NEW a \in Apps, KeepAliveExpired(a) PROVE TracedAreSupervised'
  <2>1. /\ registered' = registered \ {a} /\ UNCHANGED <<trace, traceOwner>>
        /\ pc[Monitor] = "idle" /\ pc'[Monitor] = "remove" /\ app'[Monitor] = a
        /\ \A q \in Procs \ {Monitor} : pc'[q] = pc[q] /\ app'[q] = app[q]
    BY <1>m, <1>4 DEF KeepAliveExpired, Goto, TypeOK
  <2> QED BY <1>m, <2>1 DEF TracedAreSupervised
<1>5. CASE RemoveAplication
  <2> SUFFICES ASSUME traceOwner = NoProc, NEW a \in Apps, trace'[HostOf[a]] = a
               PROVE  SupervisedBy(a)'
    BY <1>5 DEF RemoveAplication, TracedAreSupervised, SupervisedBy
  <2>0. HostOf[a] \in Hosts /\ a # NoApp
    BY SessionsAssumption
  <2>1. /\ pc[Monitor] = "remove" /\ app' = app /\ registered' = registered
        /\ \A q \in Procs \ {Monitor} : pc'[q] = pc[q]
        /\ trace' = [trace EXCEPT ![Host(Monitor)] = IF @ = app[Monitor] THEN NoApp ELSE @]
    BY <1>5 DEF RemoveAplication, Goto, TypeOK
  <2>2. trace[HostOf[a]] = a /\ app[Monitor] # a
    BY <2>0, <2>1 DEF TypeOK, Host
  <2>3. SupervisedBy(a)
    BY <2>2 DEF TracedAreSupervised, SupervisedBy
  <2> QED BY <2>1, <2>2, <2>3 DEF SupervisedBy
<1>6. CASE RemoveBusy
  <2>1. traceOwner' = traceOwner /\ traceOwner # NoProc
    BY <1>6 DEF RemoveBusy, TraceFree
  <2> QED BY <2>1 DEF TracedAreSupervised
<1>7. CASE HaSwitch
  BY <1>7 DEF HaSwitch, TracedAreSupervised
<1> QED BY <1>1, <1>2, <1>3, <1>4, <1>5, <1>6, <1>7 DEF Next

(* While the lock of the trace table is free, a traced application is      *)
(* supervised, or its addition or its removal is under way.                *)
THEOREM TracedApplicationsSupervised == Spec => []TracedAreSupervised
<1>1. Init => TracedAreSupervised
  <2> SUFFICES ASSUME Init, NEW a \in Apps PROVE trace[HostOf[a]] # a
    BY DEF TracedAreSupervised
  <2> QED BY SessionsAssumption DEF Init
<1> QED BY <1>1, SupervisionStep, SessionsTypeCorrect, PTL DEF Spec

-----------------------------------------------------------------------------
(* The login service.                                                      *)

LEMMA LoginsInit == Init => Logins!Init
<1> SUFFICES ASSUME Init PROVE Logins!Init
  OBVIOUS
<1>1. SomeAt("login_insert") = {} /\ SomeAt("return_erase") = {}
  BY DEF Init, SomeAt
<1>2. LoggedIn = {} /\ Accepted = 0
  BY <1>1 DEF Init, LoggedIn, Accepted
<1> QED BY <1>2 DEF Init, Logins!Init, Logins!Clients, Logins!NoSession,
        Tickets, Clients, NoSession

(* A step that changes neither table nor sessions, and in which nobody     *)
(* starts or ends an insertion or an erasure, changes nothing.             *)
LEMMA LoginsStutter ==
  ASSUME TypeOK, NEW p \in Procs, NEW there, Goto(p, there),
         {pc[p], there} \cap {"login_insert", "return_erase"} = {},
         UNCHANGED <<tab, issued, logins, sessions>>,
         \A q \in Procs \ {p} : ticket'[q] = ticket[q] /\ data'[q] = data[q]
  PROVE  UNCHANGED Logins!vars
<1>1. /\ pc'[p] \notin {"login_insert", "return_erase"}
      /\ pc[p] \notin {"login_insert", "return_erase"}
      /\ \A q \in Procs \ {p} : pc'[q] = pc[q]
  BY DEF TypeOK, Goto
<1>2. /\ SomeAt("login_insert")' = SomeAt("login_insert")
      /\ SomeAt("return_erase")' = SomeAt("return_erase")
  BY <1>1 DEF SomeAt
<1>3. \A q \in SomeAt("login_insert") \cup SomeAt("return_erase") :
        ticket'[q] = ticket[q] /\ data'[q] = data[q]
  BY <1>1 DEF SomeAt
<1>4. LoggedIn' = LoggedIn
  BY <1>2, <1>3 DEF LoggedIn
<1>5. Accepted' = Accepted
  BY <1>2 DEF Accepted
<1> QED BY <1>4, <1>5 DEF Logins!vars

(* The process that works on the ticket table works alone. *)
LEMMA WorksAlone ==
  ASSUME TicketLock, NEW p \in Procs, pc[p] \in HoldsTickets
  PROVE  /\ SomeAt("login_insert") \subseteq {p}
         /\ SomeAt("return_erase") \subseteq {p}
  BY OneHolder DEF SomeAt, HoldsTickets

(* Between the acceptance and the insertion nobody is logged in. *)
LEMMA AcceptedHides ==
  ASSUME SessionsInv, NEW p \in Procs, LoginAccepted(p)
  PROVE  UNCHANGED Logins!vars
<1> USE DEF locals
<1>0. TypeOK /\ TicketLock /\ Numbered
  BY DEF SessionsInv
<1>1. /\ pc[p] = "login_sm" /\ pc'[p] = "login_insert" /\ data'[p] = logins + 1
      /\ logins' = logins + 1 /\ sessions' = sessions \cup {logins + 1}
      /\ UNCHANGED <<tab, issued, ticket>>
      /\ \A q \in Procs \ {p} : pc'[q] = pc[q]
  BY <1>0 DEF LoginAccepted, TypeOK, Goto
<1>2. logins \in Nat /\ logins + 1 \notin sessions
  BY <1>0, SessionsAssumption DEF TypeOK, Clients, Numbered
<1>3. SomeAt("login_insert") = {} /\ SomeAt("return_erase") = {}
  BY <1>0, <1>1, WorksAlone DEF SomeAt, HoldsTickets
<1>4. SomeAt("login_insert")' = {p} /\ SomeAt("return_erase")' = {}
  BY <1>1, <1>3 DEF SomeAt
<1>5. LoggedIn' = LoggedIn
  BY <1>1, <1>2, <1>3, <1>4 DEF LoggedIn
<1>6. Accepted' = Accepted
  BY <1>1, <1>2, <1>3, <1>4 DEF Accepted
<1> QED BY <1>1, <1>5, <1>6 DEF Logins!vars

(* The insertion is the login. *)
LEMMA InsertLogsIn ==
  ASSUME SessionsInv, NEW p \in Procs, LoginInsert(p)
  PROVE  Logins!Next
<1> USE DEF locals
<1>0. TypeOK /\ TicketLock /\ Requesting /\ Inserting /\ Numbered
  BY DEF SessionsInv
<1>1. /\ pc[p] = "login_insert" /\ pc'[p] = "login_count"
      /\ UNCHANGED <<ticket, data, logins, sessions>>
      /\ \A q \in Procs \ {p} : pc'[q] = pc[q]
  BY <1>0 DEF LoginInsert, TypeOK, Goto
<1>2. /\ data[p] = logins /\ logins \in sessions /\ logins \in Clients
      /\ issued[logins] = 0 /\ app[p] \in Apps
  BY <1>0, <1>1 DEF Inserting, Requesting, TypeOK
<1>3. PICK k \in {logins} \cup {issued[n] : n \in {m \in Clients : issued[m] # 0}} :
        /\ tab' = [tab EXCEPT ![k] = [app |-> app[p], client |-> logins]]
        /\ issued' = [issued EXCEPT ![logins] = k]
  BY <1>2 DEF LoginInsert
<1>4. SomeAt("login_insert") = {p} /\ SomeAt("return_erase") = {}
  BY <1>0, <1>1, WorksAlone DEF SomeAt, HoldsTickets
<1>5. SomeAt("login_insert")' = {} /\ SomeAt("return_erase")' = {}
  BY <1>1, <1>4 DEF SomeAt
<1>6. LoggedIn = sessions \ {logins} /\ LoggedIn' = sessions
  BY <1>1, <1>2, <1>4, <1>5 DEF LoggedIn
<1>7. Accepted = logins - 1 /\ Accepted' = logins /\ Accepted + 1 = logins
  BY <1>1, <1>2, <1>4, <1>5 DEF Accepted, Clients
<1>8. k \in Clients /\ (k = logins \/ \E m \in 1..Accepted : issued[m] = k)
  <2>1. ASSUME NEW n \in Clients, issued[n] # 0, k = issued[n]
        PROVE  k \in Clients /\ n \in 1..Accepted
    <3>1. n <= logins /\ n # logins
      BY <1>0, <1>2, <2>1 DEF Numbered
    <3>2. issued[n] \in 1..MaxLogins
      BY <1>0, <2>1, SessionsAssumption DEF TypeOK
    <3> QED BY <1>2, <1>7, <2>1, <3>1, <3>2 DEF Clients
  <2> QED BY <1>2, <1>3, <2>1
<1>9. Logins!LogIn(app[p], k)
  BY <1>2, <1>3, <1>6, <1>7, <1>8 DEF Logins!LogIn, Logins!Clients, Clients
<1> QED BY <1>2, <1>8, <1>9 DEF Logins!Next, Logins!Clients, Clients

(* While his ticket is being erased, the user counts as logged in. *)
LEMMA FoundHides ==
  ASSUME SessionsInv, NEW p \in Procs, ReturnTicketFound(p)
  PROVE  UNCHANGED Logins!vars
<1> USE DEF locals
<1>0. TypeOK /\ TicketLock /\ Requesting /\ Entries
  BY DEF SessionsInv
<1>1. /\ pc[p] = "return_lock" /\ pc'[p] = "return_erase"
      /\ ticket[p] \in Tickets /\ tab[ticket[p]] # NoSession
      /\ sessions' = sessions \ {tab[ticket[p]].client}
      /\ UNCHANGED <<tab, issued, logins, ticket, data>>
      /\ \A q \in Procs \ {p} : pc'[q] = pc[q]
  BY <1>0 DEF ReturnTicketFound, TypeOK, Goto, Requesting
<1>2. \A q \in Procs : pc[q] \notin HoldsTickets
  BY <1>0, SessionsAssumption DEF ReturnTicketFound, LockTickets, TicketLock, Procs
<1>3. SomeAt("login_insert") = {} /\ SomeAt("return_erase") = {}
  BY <1>2 DEF SomeAt, HoldsTickets
<1>4. SomeAt("login_insert")' = {} /\ SomeAt("return_erase")' = {p}
  BY <1>1, <1>3 DEF SomeAt
<1>5. tab[ticket[p]].client \in sessions
  BY <1>0, <1>1, <1>2 DEF Entries, HoldsTickets
<1>6. LoggedIn' = LoggedIn
  BY <1>1, <1>3, <1>4, <1>5 DEF LoggedIn
<1>7. Accepted' = Accepted
  BY <1>1, <1>3, <1>4 DEF Accepted
<1> QED BY <1>1, <1>6, <1>7 DEF Logins!vars

(* The erasure is the logout ... *)
LEMMA EraseLogsOut ==
  ASSUME SessionsInv, NEW p \in Procs, ReturnTicketErase(p)
  PROVE  Logins!Next
<1>0. TypeOK /\ TicketLock /\ Requesting /\ Erasing
  BY DEF SessionsInv
<1>1. /\ pc[p] = "return_erase" /\ pc'[p] = "idle"
      /\ ticket[p] \in Tickets /\ tab[ticket[p]] # NoSession
      /\ tab[ticket[p]].client \notin sessions
      /\ tab' = [tab EXCEPT ![ticket[p]] = NoSession]
      /\ UNCHANGED <<sessions, issued, logins>>
      /\ \A q \in Procs \ {p} : pc'[q] = pc[q]
  BY <1>0 DEF ReturnTicketErase, TypeOK, Done, Goto, Requesting, Erasing
<1>2. SomeAt("login_insert") = {} /\ SomeAt("return_erase") = {p}
  BY <1>0, <1>1, WorksAlone DEF SomeAt, HoldsTickets
<1>3. SomeAt("login_insert")' = {} /\ SomeAt("return_erase")' = {}
  BY <1>1, <1>2 DEF SomeAt
<1>4. /\ LoggedIn = sessions \cup {tab[ticket[p]].client}
      /\ LoggedIn' = sessions
  BY <1>1, <1>2, <1>3 DEF LoggedIn
<1>5. LoggedIn' = LoggedIn \ {tab[ticket[p]].client}
  BY <1>1, <1>4
<1>6. Accepted' = Accepted
  BY <1>1, <1>2, <1>3 DEF Accepted
<1>7. Logins!LogOut(ticket[p])
  BY <1>1, <1>5, <1>6 DEF Logins!LogOut, Logins!NoSession, NoSession
<1> QED BY <1>1, <1>7 DEF Logins!Next, Logins!Clients, Tickets, Clients

(* ... and so is each step of the sweep. *)
LEMMA SweepLogsOut ==
  ASSUME SessionsInv, NEW p \in Procs, SweepOne(p)
  PROVE  Logins!Next
<1>0. TypeOK /\ TicketLock /\ Requesting
  BY DEF SessionsInv
<1>1. PICK k \in TicketsOf(app[p]) :
        /\ sessions' = sessions \ {tab[k].client}
        /\ tab' = [tab EXCEPT ![k] = NoSession]
  BY DEF SweepOne
<1>2. pc[p] = "sweep" /\ UNCHANGED <<pc, ticket, data, issued, logins>>
  BY DEF SweepOne, control
<1>3. k \in Tickets /\ tab[k] # NoSession
  BY <1>0, <1>1, <1>2, SessionsAssumption DEF TicketsOf, Requesting, NoSession
<1>4. SomeAt("login_insert") = {} /\ SomeAt("return_erase") = {}
  BY <1>0, <1>2, WorksAlone DEF SomeAt, HoldsTickets
<1>5. SomeAt("login_insert")' = {} /\ SomeAt("return_erase")' = {}
  BY <1>2, <1>4 DEF SomeAt
<1>6. LoggedIn' = LoggedIn \ {tab[k].client} /\ Accepted' = Accepted
  BY <1>1, <1>2, <1>4, <1>5 DEF LoggedIn, Accepted
<1>7. Logins!LogOut(k)
  BY <1>1, <1>2, <1>3, <1>6 DEF Logins!LogOut, Logins!NoSession, NoSession
<1> QED BY <1>3, <1>7 DEF Logins!Next, Logins!Clients, Tickets, Clients

LEMMA LoginsStep == SessionsInv /\ [Next]_vars => [Logins!Next]_(Logins!vars)
<1> SUFFICES ASSUME SessionsInv, [Next]_vars
             PROVE  Logins!Next \/ UNCHANGED Logins!vars
  OBVIOUS
<1> USE DEF ticketsV, locals, control
<1>0. TypeOK
  BY DEF SessionsInv
<1>m. Monitor \in Procs /\ Threads \subseteq Procs
  BY DEF Procs
<1>s. ASSUME UNCHANGED <<pc, ticket, data, tab, issued, logins, sessions>>
      PROVE  UNCHANGED Logins!vars
  BY <1>s DEF Logins!vars, LoggedIn, Accepted, SomeAt
<1>1. CASE UNCHANGED vars
  BY <1>1, <1>s DEF vars
<1>2. ASSUME NEW p \in Threads, Request(p) PROVE UNCHANGED Logins!vars
  <2>1. PICK there \in {"login_gate", "logout_count", "reg_switch", "sweep_lock", "add",
                        "ka_status"} : Goto(p, there)
    BY <1>2 DEF Request, UserLogin, UserLogout, ApplicationRegister, ApplicationKeepAlive
  <2>2. /\ pc[p] = "idle" /\ UNCHANGED <<tab, issued, logins, sessions>>
        /\ \A q \in Procs \ {p} : ticket'[q] = ticket[q] /\ data'[q] = data[q]
    BY <1>0, <1>m, <1>2 DEF Request, UserLogin, UserLogout, ApplicationRegister,
       ApplicationKeepAlive, TypeOK
  <2> QED BY <1>0, <1>m, <2>1, <2>2, LoginsStutter
<1>3. ASSUME NEW p \in Procs, Step(p) PROVE Logins!Next \/ UNCHANGED Logins!vars
  <2>1. CASE LoginAccepted(p)
    BY <2>1, AcceptedHides
  <2>2. CASE LoginInsert(p)
    BY <2>2, InsertLogsIn
  <2>3. CASE ReturnTicketFound(p)
    BY <2>3, FoundHides
  <2>4. CASE ReturnTicketErase(p)
    BY <2>4, EraseLogsOut
  <2>5. CASE SweepOne(p)
    BY <2>5, SweepLogsOut
  <2>6. CASE LoginReply(p) \/ ReturnTicketGone(p) \/ Return(p)
    <3>1. /\ Goto(p, "idle") /\ pc[p] \notin {"login_insert", "return_erase"}
          /\ UNCHANGED <<tab, issued, logins, sessions>>
          /\ \A q \in Procs \ {p} : ticket'[q] = ticket[q] /\ data'[q] = data[q]
      BY <1>0, <2>6 DEF LoginReply, ReturnTicketGone, Return, Done, TypeOK
    <3> QED BY <1>0, <3>1, LoginsStutter
  <2>7. CASE \/ LoginGate(p) \/ LoginLock(p) \/ LoginBusy(p) \/ LoginRefused(p)
             \/ LoginCount(p) \/ LogoutCount(p)
    <3>1. PICK there \in {"login_lock", "login_reply", "login_sm", "return_lock"} :
            Goto(p, there)
      BY <2>7 DEF LoginGate, LoginLock, LoginBusy, LoginRefused, LoginCount, LogoutCount
    <3>2. /\ pc[p] \notin {"login_insert", "return_erase"}
          /\ UNCHANGED <<tab, issued, logins, sessions, ticket, data>>
      BY <2>7 DEF LoginGate, LoginLock, LoginBusy, LoginRefused, LoginCount, LogoutCount
    <3> QED BY <1>0, <3>1, <3>2, LoginsStutter
  <2>8. CASE \/ SweepLock(p) \/ SweepEnd(p) \/ RegisterSwitch(p) \/ RegisterUpdate(p)
             \/ AddAplication(p) \/ AddRegister(p) \/ AddBusy(p)
             \/ KeepAliveStatus(p) \/ KeepAliveUpdate(p)
    <3>1. then[p] \in {"done", "reg_update", "ka_status"}
      BY <1>0 DEF TypeOK
    <3>2. PICK there \in {"sweep", "done", "reg_update", "ka_status", "sweep_lock", "add",
                          "add_register", "ka_update"} : Goto(p, there)
      BY <2>8, <3>1 DEF SweepLock, SweepEnd, RegisterSwitch, RegisterUpdate,
         AddAplication, AddRegister, AddBusy, KeepAliveStatus, KeepAliveUpdate
    <3>3. /\ pc[p] \notin {"login_insert", "return_erase"}
          /\ UNCHANGED <<tab, issued, logins, sessions, ticket, data>>
      BY <2>8 DEF SweepLock, SweepEnd, RegisterSwitch, RegisterUpdate,
         AddAplication, AddRegister, AddBusy, KeepAliveStatus, KeepAliveUpdate
    <3> QED BY <1>0, <3>2, <3>3, LoginsStutter
  <2> QED BY <1>3, <2>1, <2>2, <2>3, <2>4, <2>5, <2>6, <2>7, <2>8 DEF Step
<1>4. ASSUME NEW a \in Apps, KeepAliveExpired(a) PROVE UNCHANGED Logins!vars
  BY <1>0, <1>m, <1>4, LoginsStutter DEF KeepAliveExpired
<1>5. CASE RemoveAplication \/ RemoveBusy
  BY <1>0, <1>m, <1>5, LoginsStutter DEF RemoveAplication, RemoveBusy
<1>6. CASE HaSwitch
  BY <1>6, <1>s DEF HaSwitch
<1> QED BY <1>1, <1>2, <1>3, <1>4, <1>5, <1>6 DEF Next

(* Login and logout, each of which changes the session manager and the     *)
(* ticket table in two steps that other requests can run between,          *)
(* implement the service in which each is a single step.                   *)
THEOREM SessionsImplementLogins == Spec => ImplementsLogins
<1> QED BY SessionsInvariant, LoginsInit, LoginsStep, PTL
       DEF Spec, ImplementsLogins, Logins!Spec

=============================================================================
