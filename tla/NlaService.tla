------------------------------ MODULE NlaService ------------------------------
(***************************************************************************)
(* The web application's connection to the two csa_web servers: the static *)
(* state of NLAService, AbsUpdater and SessionData, and the threads that   *)
(* share it - the keep-alive timer, alive.jsp, the timer of the updaters   *)
(* and the timer of the sessions.                                          *)
(*                                                                         *)
(* register, createConnection and getConnectedServer are synchronized;     *)
(* keepAlive is not.  A remote call throws when the server cannot be       *)
(* reached.  A port that is not null is named after its server.            *)
(*                                                                         *)
(* External: the servers.  One that is reached says which of the two is    *)
(* active; the active one logs users in, and logs out all users of the     *)
(* application when that registers (SupervisorSessions).  Sessions are     *)
(* logged in already; what they and the updaters read is left out.         *)
(***************************************************************************)
EXTENDS Naturals, Sequences

CONSTANTS
  KeepAlive,  \* the thread of KeepAliveTask
  Probe,      \* a servlet thread that serves alive.jsp
  Updater,    \* the thread of AbsUpdater's timer
  Refresher,  \* the thread of a SessionData's timer
  Threads,    \* those of them that run
  Nobody,     \* for the monitor of NLAService
  Sessions,   \* NLAContext.sessions, in their order
  MaxChanges  \* how often a server is lost or gives up its role, a bound

ASSUME NlaAssumption ==
  /\ Threads \subseteq {KeepAlive, Probe, Updater, Refresher}
  /\ Updater \notin {KeepAlive, Probe, Refresher}
  /\ Nobody \notin Threads
  /\ Sessions \in Seq(STRING) /\ Sessions # <<>>
  /\ MaxChanges \in Nat

NOT_CONNECTED    == 0
PRIMARY_SERVER   == 1
SECONDARY_SERVER == 2
Servers  == {PRIMARY_SERVER, SECONDARY_SERVER}
Other(s) == 3 - s
Null     == 0      \* a port that is null
StandAlone == 3    \* "ACTIVE_SA", whichever server it is
InCatch    == 1    \* keepAlive registers for the second time
Indices  == DOMAIN Sessions

VARIABLES
  (* the servers *)
  active,    \* the active server, or 0
  alone,     \* whether its status is ACTIVE_SA
  up,        \* the servers that can be reached
  changes,   \* counted up to MaxChanges
  ticket,    \* per session, the server its ticket is valid on, or Null
  (* NLAService *)
  connectedServer,
  ports,     \* the servers whose wsEMIS_port_P, wsEMIS_port_S is not null
  monitor,   \* who is in register, which takes several steps
  (* AbsUpdater and SessionData *)
  updater_port, updater_connected_server,
  session_port, session_data_connected_server,
  (* threads *)
  pc,
  arg,       \* the server in a call, what a keep-alive was told, or
             \* whether it registers from its catch
  next,      \* the session to log in again
  after      \* what the updater does after that

servers == <<active, alone, up, changes>>
service == <<connectedServer, ports, monitor>>
updater == <<updater_port, updater_connected_server>>
session == <<session_port, session_data_connected_server>>
locals  == <<arg, next, after>>
vars == <<servers, ticket, service, updater, session, pc, locals>>

Pcs == {"idle", "ka_call", "ka_told", "ka_catch",
        "reg", "reg_primary", "reg_secondary", "reg_call", "reg_other", "reg_other_call",
        "up_reconnect", "up_arg", "up_create", "up_server", "up_sessions",
        "up_update", "up_error",
        "se_test", "se_create", "se_server", "se_login", "se_catch"}

(* Types of the shared connection state and of the threads' positions.     *)
TypeOK ==
  /\ active \in Servers \cup {0} /\ alone \in BOOLEAN /\ up \subseteq Servers
  /\ changes \in 0..MaxChanges
  /\ ticket \in [Indices -> Servers \cup {Null}]
  /\ connectedServer \in Servers \cup {NOT_CONNECTED}
  /\ ports \subseteq Servers
  /\ monitor \in Threads \cup {Nobody}
  /\ {updater_port, session_port} \subseteq Servers \cup {Null}
  /\ {updater_connected_server, session_data_connected_server}
       \subseteq Servers \cup {NOT_CONNECTED}
  /\ pc \in [Threads -> Pcs]
  /\ arg \in [Threads -> 0..StandAlone]
  /\ next \in [Threads -> Indices]
  /\ after \in {"up_update", "idle"}

(* The web application has started with the active server, and the users   *)
(* have logged in; the updaters have not run yet.                          *)
Init ==
  /\ active \in Servers /\ up = Servers /\ alone = FALSE /\ changes = 0
  /\ ticket = [i \in Indices |-> active]
  /\ connectedServer = active /\ ports = {active} /\ monitor = Nobody
  /\ updater_port = Null /\ updater_connected_server = NOT_CONNECTED
  /\ session_port = active /\ session_data_connected_server = active
  /\ pc = [t \in Threads |-> "idle"]
  /\ arg = [t \in Threads |-> 0]
  /\ next = [t \in Threads |-> 1]
  /\ after = "idle"

Goto(t, there) == pc' = [pc EXCEPT ![t] = there]

Continue(t, there) == Goto(t, there) /\ UNCHANGED locals

(* The thread's task is over. *)
Idle(t) ==
  /\ Goto(t, "idle")
  /\ arg' = [arg EXCEPT ![t] = 0]
  /\ next' = [next EXCEPT ![t] = 1]
  /\ after' = IF t = Updater THEN "idle" ELSE after

Remember(t, server) == arg' = [arg EXCEPT ![t] = server] /\ UNCHANGED <<next, after>>

(* A synchronized method can be entered. *)
Free == monitor = Nobody

-----------------------------------------------------------------------------
(* The servers.                                                            *)

Change == changes < MaxChanges /\ changes' = changes + 1

Forgotten(s) == [i \in Indices |-> IF ticket[i] = s THEN Null ELSE ticket[i]]

(* Users may be logged out by a server that crashes or becomes passive. *)
MayForget(s) == ticket' \in {ticket, Forgotten(s)}

Lose(s) ==
  /\ Change
  /\ s \in up
  /\ up' = up \ {s}
  /\ MayForget(s)
  /\ UNCHANGED <<active, alone, service, updater, session, pc, locals>>

(* A server that comes back ends the other's standing alone. *)
Return(s) ==
  /\ s \notin up
  /\ up' = up \cup {s}
  /\ alone' = (alone /\ active = s)
  /\ UNCHANGED <<active, changes, ticket, service, updater, session, pc, locals>>

Switch ==
  /\ Change
  /\ active' \in (Servers \cup {0}) \ {active}
  /\ alone' = FALSE
  /\ IF active = 0 THEN UNCHANGED ticket ELSE MayForget(active)
  /\ UNCHANGED <<up, service, updater, session, pc, locals>>

(* The other server takes over from one that is lost. *)
Failover ==
  /\ active \notin up
  /\ active' \in up
  /\ alone' = FALSE
  /\ UNCHANGED <<up, changes, ticket, service, updater, session, pc, locals>>

StandsAlone ==
  /\ active # 0 /\ Other(active) \notin up /\ ~alone
  /\ alone' = TRUE
  /\ UNCHANGED <<active, up, changes, ticket, service, updater, session, pc, locals>>

ServersInfo == IF alone THEN StandAlone ELSE active

(* A faulty connectToActive, for mutation: there is an active server. *)
AnyActive(info) == info # 0

(* createConnection connects to the server that is reported as active; for *)
(* mutation, too.                                                          *)
ConnectReported(t) == connectedServer' = ServersInfo

(* connectToActive: "a && b || c" accepts a stand-alone server whether or  *)
(* not it is the connected one.                                            *)
connectToActive(info) == info = StandAlone \/ (info # 0 /\ info = connectedServer)

(* applicationRegister: an active server logs the users out. *)
Registered(s) == ticket' = IF active = s THEN Forgotten(s) ELSE ticket

-----------------------------------------------------------------------------
(* Faulty variants, for mutation.                                          *)

(* Updaters reconnect only without a port. *)
OnlyWithoutPort(t) ==
  /\ pc[t] = "idle" /\ Free
  /\ IF updater_port = Null
     THEN updater_connected_server' = NOT_CONNECTED /\ Continue(t, "up_reconnect")
     ELSE Continue(t, "up_update") /\ UNCHANGED updater_connected_server
  /\ UNCHANGED <<servers, ticket, service, updater_port, session>>

(* Updaters keep the server they recorded when they give up their port.    *)
RecordKept(t) ==
  /\ pc[t] = "idle" /\ Free
  /\ IF updater_port = Null \/ updater_connected_server # connectedServer
     THEN updater_port' = Null /\ Continue(t, "up_reconnect")
     ELSE Continue(t, "up_update") /\ UNCHANGED updater_port
  /\ UNCHANGED <<servers, ticket, service, updater_connected_server, session>>

-----------------------------------------------------------------------------
(* register(true), of keepAlive and of the updater's reconnect.            *)

Leave(t) ==
  /\ monitor' = Nobody
  /\ IF t = Updater THEN Continue(t, "up_arg") ELSE Idle(t)

(* A keep-alive that registers in its try clause goes to its catch; that   *)
(* of the registration there, and that of reconnect, are logged.           *)
Throw(t) ==
  /\ monitor' = Nobody
  /\ IF t = KeepAlive /\ arg[t] # InCatch THEN Continue(t, "ka_catch") ELSE Idle(t)

Stay(t, there) == Continue(t, there) /\ UNCHANGED monitor

(* first_time clears everything ...                                        *)
Register(t) ==
  /\ pc[t] = "reg" /\ Free
  /\ monitor' = t
  /\ connectedServer' = NOT_CONNECTED /\ ports' = {}
  /\ Continue(t, "reg_primary")
  /\ UNCHANGED <<servers, ticket, updater, session>>

(* ... then createConnection(PRIMARY_SERVER), whose exception is logged.   *)
RegisterPrimary(t) ==
  /\ pc[t] = "reg_primary"
  /\ IF PRIMARY_SERVER \in up
     THEN /\ connectedServer' = PRIMARY_SERVER /\ ports' = {PRIMARY_SERVER}
          /\ Stay(t, "reg_call")
     ELSE Stay(t, "reg_secondary") /\ UNCHANGED <<connectedServer, ports>>
  /\ UNCHANGED <<servers, ticket, updater, session>>

(* A faulty RegisterCall, for mutation: the port stays open. *)
RegisterCallPortOpen(t) ==
  LET s == connectedServer IN
  /\ pc[t] = "reg_call"
  /\ \/ s \notin ports /\ Leave(t) /\ UNCHANGED ticket
     \/ s \notin ports \cap up /\ Throw(t) /\ UNCHANGED ticket
     \/ /\ s \in ports \cap up
        /\ Registered(s)
        /\ IF connectToActive(ServersInfo) THEN Leave(t) ELSE Stay(t, "reg_other")
  /\ UNCHANGED <<servers, connectedServer, ports, updater, session>>

(* createConnection(SECONDARY_SERVER); with neither, return false. *)
RegisterSecondary(t) ==
  /\ pc[t] = "reg_secondary"
  /\ IF SECONDARY_SERVER \in up
     THEN /\ connectedServer' = SECONDARY_SERVER /\ ports' = {SECONDARY_SERVER}
          /\ Stay(t, "reg_call")
     ELSE Leave(t) /\ UNCHANGED <<connectedServer, ports>>
  /\ UNCHANGED <<servers, ticket, updater, session>>

(* applicationRegister on the connected server; its exception is not       *)
(* caught.  keepAlive may have cleared the port, which leads to the        *)
(* UNKNOWEN case, or to an exception if it did so after the test.          *)
RegisterCall(t) ==
  LET s == connectedServer IN
  /\ pc[t] = "reg_call"
  /\ \/ s \notin ports /\ Leave(t) /\ UNCHANGED <<ticket, ports>>
     \/ s \notin ports \cap up /\ Throw(t) /\ UNCHANGED <<ticket, ports>>
     \/ /\ s \in ports \cap up
        /\ Registered(s)
        /\ IF connectToActive(ServersInfo)
           THEN Leave(t) /\ UNCHANGED ports
           ELSE Stay(t, "reg_other") /\ ports' = ports \ {s}
  /\ UNCHANGED <<servers, connectedServer, updater, session>>

(* The server is not the active one: createConnection to the other ... *)
RegisterOther(t) ==
  LET s == Other(connectedServer) IN
  /\ pc[t] = "reg_other"
  /\ IF s \in up
     THEN connectedServer' = s /\ ports' = ports \cup {s} /\ Stay(t, "reg_other_call")
     ELSE Throw(t) /\ UNCHANGED <<connectedServer, ports>>
  /\ UNCHANGED <<servers, ticket, updater, session>>

(* ... and applicationRegister, whose answer is not looked at. *)
RegisterOtherCall(t) ==
  LET s == connectedServer IN
  /\ pc[t] = "reg_other_call"
  /\ IF s \in ports \cap up
     THEN Registered(s) /\ Leave(t)
     ELSE Throw(t) /\ UNCHANGED ticket
  /\ UNCHANGED <<servers, connectedServer, ports, updater, session>>

-----------------------------------------------------------------------------
(* keepAlive(isReconnect) of the timer (TRUE) and of isConnected (FALSE).  *)
isReconnect(t) == t = KeepAlive

RegisterOrReturn(t) ==
  IF isReconnect(t)
  THEN Goto(t, "reg") /\ Remember(t, 0)
  ELSE Idle(t)

KeepAliveStart(t) ==
  /\ pc[t] = "idle"
  /\ IF connectedServer \in ports
     THEN Goto(t, "ka_call") /\ Remember(t, connectedServer)
     ELSE RegisterOrReturn(t)
  /\ UNCHANGED <<servers, ticket, service, updater, session>>

(* applicationKeepAlive; the port may have become null. *)
KeepAliveCall(t) ==
  /\ pc[t] = "ka_call"
  /\ IF arg[t] \in ports \cap up
     THEN Goto(t, "ka_told") /\ Remember(t, ServersInfo)
     ELSE Goto(t, "ka_catch") /\ Remember(t, 0)
  /\ UNCHANGED <<servers, ticket, service, updater, session>>

(* connectedServer may have become another than the one that answered. *)
KeepAliveTold(t) ==
  /\ pc[t] = "ka_told"
  /\ IF connectToActive(arg[t]) THEN Idle(t) ELSE RegisterOrReturn(t)
  /\ UNCHANGED <<servers, ticket, service, updater, session>>

(* catch: the port of the server that is connected now becomes null, and   *)
(* the timer's keep-alive registers, whether or not that is what failed.   *)
KeepAliveCatch(t) ==
  /\ pc[t] = "ka_catch"
  /\ ports' = ports \ {connectedServer}
  /\ IF isReconnect(t) THEN Goto(t, "reg") /\ Remember(t, InCatch) ELSE Idle(t)
  /\ UNCHANGED <<servers, ticket, connectedServer, monitor, updater, session>>

-----------------------------------------------------------------------------
(* createConnection(arg): sets connectedServer and returns the port, null  *)
(* for NOT_CONNECTED; thrown if the server cannot be reached.              *)
CreateThrows(t)    == arg[t] \in Servers \ up
createConnection(t) ==
  connectedServer' = IF arg[t] = NOT_CONNECTED THEN connectedServer ELSE arg[t]

(* AbsUpdater.run, of a collection that is in use. *)
UpdaterRun(t) ==
  /\ pc[t] = "idle" /\ Free
  /\ IF updater_port = Null \/ updater_connected_server # connectedServer
     THEN /\ updater_port' = Null
          /\ updater_connected_server' = NOT_CONNECTED
          /\ Continue(t, "up_reconnect")
     ELSE Continue(t, "up_update") /\ UNCHANGED updater
  /\ UNCHANGED <<servers, ticket, service, session>>

UpdaterReconnect(t) ==
  /\ pc[t] = "up_reconnect" /\ Free
  /\ IF connectedServer # NOT_CONNECTED
     THEN Goto(t, "up_arg") /\ after' = "up_update" /\ UNCHANGED <<arg, next>>
     ELSE Continue(t, "up_update")
  /\ UNCHANGED <<servers, ticket, service, updater, session>>

(* wsEMIS_port = createConnection(getConnectedServer()): two synchronized  *)
(* calls, the second of which sets connectedServer.                        *)
UpdaterArg(t) ==
  /\ pc[t] = "up_arg" /\ Free
  /\ Goto(t, "up_create") /\ Remember(t, connectedServer)
  /\ UNCHANGED <<servers, ticket, service, updater, session>>

UpdaterCreate(t) ==
  /\ pc[t] = "up_create" /\ Free
  /\ IF CreateThrows(t)
     THEN Idle(t) /\ UNCHANGED <<connectedServer, updater_port>>
     ELSE createConnection(t) /\ updater_port' = arg[t] /\ Continue(t, "up_server")
  /\ UNCHANGED <<servers, ticket, ports, monitor, updater_connected_server, session>>

UpdaterServer(t) ==
  /\ pc[t] = "up_server" /\ Free
  /\ updater_connected_server' = connectedServer
  /\ Goto(t, "up_sessions") /\ Remember(t, 0)
  /\ UNCHANGED <<servers, ticket, service, updater_port, session>>

(* sessions.get(i).reconnect() for all; an exception ends the loop. *)
UpdaterSessions(t) ==
  /\ pc[t] = "up_sessions"
  /\ session_port' = Null
  /\ Continue(t, "se_test")
  /\ UNCHANGED <<servers, ticket, service, updater, session_data_connected_server>>

(* onUpdate with the ticket of the first session, of an updater whose      *)
(* report verifies it: error 500 leads to reconnect(), which starts with   *)
(* another register(true).                                                 *)
UpdaterUpdate(t) ==
  /\ pc[t] = "up_update"
  /\ IF updater_port \in up /\ ticket[1] # updater_port
     THEN updater_connected_server' = NOT_CONNECTED /\ Continue(t, "up_error")
     ELSE Idle(t) /\ UNCHANGED updater_connected_server
  /\ UNCHANGED <<servers, ticket, service, updater_port, session>>

UpdaterError(t) ==
  /\ pc[t] = "up_error" /\ Free
  /\ IF connectedServer # NOT_CONNECTED
     THEN Goto(t, "reg") /\ after' = "idle" /\ UNCHANGED <<arg, next>>
     ELSE Idle(t)
  /\ UNCHANGED <<servers, ticket, service, updater, session>>

-----------------------------------------------------------------------------
(* SessionData.                                                            *)

(* refresh of session i, by its task. *)
Refresh(t, i) ==
  /\ pc[t] = "idle"
  /\ session_port = Null \/ (Free /\ session_data_connected_server # connectedServer)
  /\ session_port' = Null
  /\ next' = [next EXCEPT ![t] = i]
  /\ Goto(t, "se_test")
  /\ UNCHANGED <<servers, ticket, service, updater, session_data_connected_server,
                 arg, after>>

(* relogin: if wsEMIS_port is null, createConnection(getConnectedServer()) *)
ReloginTest(t) ==
  /\ pc[t] = "se_test"
  /\ IF session_port = Null
     THEN Free /\ Goto(t, "se_create") /\ Remember(t, connectedServer)
     ELSE Continue(t, "se_login")
  /\ UNCHANGED <<servers, ticket, service, updater, session>>

ReloginFails(t) == IF t = Refresher THEN Continue(t, "se_catch") ELSE Idle(t)

ReloginCreate(t) ==
  /\ pc[t] = "se_create" /\ Free
  /\ IF CreateThrows(t)
     THEN ReloginFails(t) /\ UNCHANGED <<connectedServer, session_port>>
     ELSE createConnection(t) /\ session_port' = arg[t] /\ Goto(t, "se_server") /\ Remember(t, 0)
  /\ UNCHANGED <<servers, ticket, ports, monitor, updater, session_data_connected_server>>

ReloginServer(t) ==
  /\ pc[t] = "se_server" /\ Free
  /\ session_data_connected_server' = connectedServer
  /\ Goto(t, "se_login") /\ Remember(t, 0)
  /\ UNCHANGED <<servers, ticket, service, updater, session_port>>

(* relogin returns: refresh is over, the loop over the sessions goes on. *)
Relogged(t) ==
  CASE t # Refresher /\ next[t] < Len(Sessions) ->
         /\ Goto(t, "up_sessions")
         /\ next' = [next EXCEPT ![t] = @ + 1] /\ UNCHANGED <<arg, after>>
    [] t # Refresher /\ next[t] = Len(Sessions) /\ after = "up_update" ->
         /\ Goto(t, "up_update")
         /\ next' = [next EXCEPT ![t] = 1] /\ UNCHANGED <<arg, after>>
    [] OTHER -> Idle(t)

(* userLogin: an active server issues a ticket, which takes the place of   *)
(* the one the session had; another one refuses with an errorCause.        *)
ReloginLogin(t) ==
  LET s == session_port
      i == next[t]
      connected == s # Null /\ session_data_connected_server # NOT_CONNECTED IN
  /\ pc[t] = "se_login"
  /\ \/ ~connected /\ Relogged(t) /\ UNCHANGED <<ticket, session_port>>
     \/ connected /\ s \notin up /\ ReloginFails(t) /\ UNCHANGED <<ticket, session_port>>
     \/ /\ connected /\ s \in up /\ s # active
        /\ session_port' = Null
        /\ Relogged(t) /\ UNCHANGED ticket
     \/ /\ connected /\ s \in up /\ s = active
        /\ ticket' = [ticket EXCEPT ![i] = s]
        /\ Relogged(t) /\ UNCHANGED session_port
  /\ UNCHANGED <<servers, service, updater, session_data_connected_server>>

(* refresh's catch. *)
RefreshCatch(t) ==
  /\ pc[t] = "se_catch"
  /\ session_port' = Null
  /\ Idle(t)
  /\ UNCHANGED <<servers, ticket, service, updater, session_data_connected_server>>

-----------------------------------------------------------------------------
RegisterSteps(t) ==
  \/ Register(t) \/ RegisterPrimary(t) \/ RegisterSecondary(t) \/ RegisterCall(t)
  \/ RegisterOther(t) \/ RegisterOtherCall(t)

KeepAliveSteps(t) ==
  /\ t \in {KeepAlive, Probe}
  /\ KeepAliveStart(t) \/ KeepAliveCall(t) \/ KeepAliveTold(t) \/ KeepAliveCatch(t)

UpdaterSteps(t) ==
  /\ t = Updater
  /\ \/ UpdaterRun(t) \/ UpdaterReconnect(t) \/ UpdaterArg(t) \/ UpdaterCreate(t)
     \/ UpdaterServer(t) \/ UpdaterSessions(t) \/ UpdaterUpdate(t) \/ UpdaterError(t)

ReloginSteps(t) ==
  ReloginTest(t) \/ ReloginCreate(t) \/ ReloginServer(t) \/ ReloginLogin(t)

RefreshSteps(t) ==
  /\ t = Refresher
  /\ (\E i \in Indices : Refresh(t, i)) \/ RefreshCatch(t)

Run(t) ==
  RegisterSteps(t) \/ KeepAliveSteps(t) \/ UpdaterSteps(t) \/ ReloginSteps(t) \/ RefreshSteps(t)

Environment == (\E s \in Servers : Lose(s) \/ Return(s)) \/ Switch \/ Failover \/ StandsAlone

Next == (\E t \in Threads : Run(t)) \/ Environment

Spec == Init /\ [][Next]_vars

(* The timers of keep-alive, updaters and sessions keep firing, and a      *)
(* thread for which the monitor stays free takes it.  Nothing is assumed   *)
(* of alive.jsp, nor that the monitor goes to whoever has waited longest.  *)
FairSpec == Spec /\ \A t \in Threads \cap {KeepAlive, Updater, Refresher} : WF_vars(Run(t))

-----------------------------------------------------------------------------
(* The ports of the two servers are never open together: a registration    *)
(* gives up the one before it opens the other, although keep-alive, which  *)
(* is not synchronized, and the updaters' createConnection come between    *)
(* its calls (wsEMIS_port_P and wsEMIS_port_S of NLAService.register).     *)
OnePort == ports # Servers

(* The port is of one server, and is taken for the other's.                *)
Mistaken ==
  updater_port \in Servers /\ updater_connected_server = Other(updater_port)

(* The updaters take the port of one server for the other's only if the    *)
(* connection changed between their createConnection(arg) and their        *)
(* getConnectedServer (AbsUpdater.run): a port and a record that were      *)
(* right do not part later.                                                *)
MistakesAreRaces ==
  [][~Mistaken /\ Mistaken'
       => /\ pc[Updater] = "up_server"
          /\ connectedServer = Other(arg[Updater])]_vars

(* Server s is active and can be reached in the end.  MaxChanges bounds    *)
(* the changes, so what can be reached settles as well: a primary that is  *)
(* lost whenever it has just been connected to would keep the application  *)
(* from the secondary, since applicationRegister's exception is not caught.*)
Settles(s) == <>[](active = s /\ s \in up)

(* The web application keeps finding its way to the active server,         *)
(* whatever the threads overwrite for each other (NLAService.register and  *)
(* createConnection, which the updaters call with a server they read       *)
(* before).                                                                *)
FindsActive ==
  \A s \in Servers : Settles(s) => []<>(connectedServer = s /\ s \in ports)

(* The tasks have come to run one after the other: keep-alive and updater  *)
(* can otherwise undo each other's work for ever.                          *)
OneAtATime == \A t, u \in Threads : t = u \/ "idle" \in {pc[t], pc[u]}

Follows(s) == updater_port = s /\ ticket[1] = s

(* The updaters come to poll the active server, with the ticket of a       *)
(* session that is logged in there again, whatever keep-alive changed      *)
(* between their createConnection and their getConnectedServer, and        *)
(* however often a registration has logged the users out.  Only one thing  *)
(* keeps them away: a server they have mistaken for the active one and     *)
(* that is lost, so that no call ever tells them (AbsUpdater.run).         *)
UpdatersReturn ==
  \A s \in Servers :
    Settles(s) /\ <>[]OneAtATime => <>[]Follows(s) \/ <>[](Mistaken /\ Other(s) \notin up)

(* "no connection or connected to wrong server, reconnect" (AbsUpdater.run *)
(* logs it): the updaters do not stay connected to the wrong server.       *)
UpdatersFollow ==
  \A s \in Servers : Settles(s) /\ <>[]OneAtATime => <>[]Follows(s)

=============================================================================
