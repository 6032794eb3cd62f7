--------------------------- MODULE NlaServiceProofs ---------------------------
(***************************************************************************)
(* Proofs about NlaService, for any of the threads, any number of sessions *)
(* and any number of changes of the servers: the inductive invariant       *)
(* ServiceInv, the invariants it implies, and what it takes for the        *)
(* updaters to mistake one server for the other.                           *)
(***************************************************************************)
EXTENDS NlaService, TLAPS

(* A server that a thread has read from connectedServer. *)
Asked == {"up_create", "up_server", "se_create", "se_server"}

Answers == \A t \in Threads : pc[t] \in Asked => arg[t] \in Servers \cup {NOT_CONNECTED}

(* Inside register. *)
Registering == {"reg_primary", "reg_secondary", "reg_call", "reg_other", "reg_other_call"}

Monitor == \A t \in Threads : pc[t] \in Registering <=> monitor = t

(* What register has opened so far; keep-alive can only close it. *)
Opened ==
  \A t \in Threads :
    /\ pc[t] \in {"reg_primary", "reg_secondary", "reg_other"} => ports = {}
    /\ pc[t] \in {"reg_call", "reg_other_call"} => ports \subseteq {connectedServer}
    /\ pc[t] \in {"reg_call", "reg_other", "reg_other_call"} => connectedServer \in Servers

(* The updaters have no server while they reconnect, and their port is     *)
(* that of the server they asked for.                                      *)
Reconnecting ==
  {"up_reconnect", "up_arg", "up_create", "up_server", "up_error", "reg"} \cup Registering

Unrecorded ==
  Updater \in Threads =>
    /\ pc[Updater] \in Reconnecting => updater_connected_server = NOT_CONNECTED
    /\ pc[Updater] = "up_server" => updater_port = arg[Updater]

Exclusion == Monitor /\ Opened /\ OnePort

ServiceInv == TypeOK /\ Answers /\ Exclusion /\ Unrecorded

-----------------------------------------------------------------------------
LEMMA OnePortMeans ==
  \A P \in SUBSET Servers : P # Servers <=> \E s \in Servers : P \subseteq {s}
<1> SUFFICES ASSUME NEW P \in SUBSET Servers
             PROVE  P # Servers <=> \E s \in Servers : P \subseteq {s}
  OBVIOUS
<1>1. Servers = {1, 2}
  BY DEF Servers, PRIMARY_SERVER, SECONDARY_SERVER
<1>2. ASSUME P # Servers PROVE \E s \in Servers : P \subseteq {s}
  <2>1. 1 \notin P \/ 2 \notin P
    BY <1>1, <1>2
  <2> QED BY <1>1, <2>1
<1>3. ASSUME NEW s \in Servers, P \subseteq {s} PROVE P # Servers
  <2>1. 1 \notin P \/ 2 \notin P
    BY <1>1, <1>3
  <2> QED BY <1>1, <2>1
<1> QED BY <1>2, <1>3

LEMMA ServiceInit == Init => ServiceInv
<1> SUFFICES ASSUME Init PROVE ServiceInv
  OBVIOUS
<1> USE NlaAssumption DEF Init, Servers, PRIMARY_SERVER, SECONDARY_SERVER
<1>1. TypeOK
  <2>1. 1 \in Indices
    BY DEF Indices
  <2>2. ticket \in [Indices -> Servers \cup {Null}]
    BY DEF Null
  <2>3. /\ active \in Servers \cup {0} /\ up \subseteq Servers /\ changes \in 0..MaxChanges
        /\ ports \subseteq Servers /\ monitor \in Threads \cup {Nobody}
    OBVIOUS
  <2>5. alone \in BOOLEAN
    OBVIOUS
  <2>4. /\ pc \in [Threads -> Pcs] /\ arg \in [Threads -> 0..StandAlone]
        /\ next \in [Threads -> Indices] /\ after \in {"up_update", "idle"}
    BY <2>1 DEF Pcs, StandAlone
  <2> QED BY <2>2, <2>3, <2>4, <2>5 DEF TypeOK, NOT_CONNECTED, Null
<1>2. Answers /\ Opened
  BY DEF Answers, Asked, Opened
<1>4. Monitor
  BY DEF Monitor, Registering
<1>5. OnePort
  BY OnePortMeans DEF OnePort
<1>3. Unrecorded
  BY DEF Unrecorded, Reconnecting, Registering
<1> QED BY <1>1, <1>2, <1>3, <1>4, <1>5 DEF ServiceInv, Exclusion

-----------------------------------------------------------------------------
(* Where a thread goes, and what it remembers, are of their types.         *)
LEMMA MoveTypes ==
  ASSUME TypeOK, NEW t \in Threads
  PROVE  /\ \A there \in Pcs :
              Goto(t, there) => pc' \in [Threads -> Pcs]
         /\ \A there \in Pcs :
              Continue(t, there) => pc' \in [Threads -> Pcs] /\ UNCHANGED locals
         /\ \A a \in 0..StandAlone :
              Remember(t, a) => /\ arg' \in [Threads -> 0..StandAlone]
                                /\ UNCHANGED <<next, after>>
         /\ Idle(t) => /\ pc' \in [Threads -> Pcs]
                       /\ arg' \in [Threads -> 0..StandAlone]
                       /\ next' \in [Threads -> Indices]
                       /\ after' \in {"up_update", "idle"}
<1>1. 1 \in Indices
  BY NlaAssumption DEF Indices
<1>2. "idle" \in Pcs /\ 0 \in 0..StandAlone
  BY DEF Pcs, StandAlone
<1> QED BY <1>1, <1>2 DEF TypeOK, Goto, Continue, Remember, Idle

LocalTypes ==
  /\ pc \in [Threads -> Pcs]
  /\ arg \in [Threads -> 0..StandAlone]
  /\ next \in [Threads -> Indices]
  /\ after \in {"up_update", "idle"}

LEMMA Destinations ==
  /\ \A x \in {"idle", "ka_call", "ka_told", "ka_catch",
               "reg", "reg_primary", "reg_secondary", "reg_call", "reg_other", "reg_other_call",
               "up_reconnect", "up_arg", "up_create", "up_server", "up_sessions",
               "up_update", "up_error",
               "se_test", "se_create", "se_server", "se_login", "se_catch"} : x \in Pcs
  /\ \A a \in Servers \cup {0} : a \in 0..StandAlone
BY DEF Pcs, Servers, PRIMARY_SERVER, SECONDARY_SERVER, StandAlone

(* Every step of a thread keeps the types of what threads remember.        *)
LEMMA RunLocalTypes ==
  ASSUME TypeOK, NEW t \in Threads, Run(t) PROVE LocalTypes'
<1> USE MoveTypes, Destinations DEF LocalTypes, locals
<1>0. LocalTypes /\ connectedServer \in Servers \cup {0} /\ ServersInfo \in 0..StandAlone
  BY DEF TypeOK, NOT_CONNECTED, ServersInfo, StandAlone, Servers, PRIMARY_SERVER, SECONDARY_SERVER
<1> USE <1>0
<1>1. Leave(t) \/ Throw(t) => LocalTypes'
  BY DEF Leave, Throw
<1>2. \A there \in Pcs : Stay(t, there) => LocalTypes'
  BY DEF Stay
<1>3. CASE RegisterSteps(t)
  BY <1>3, <1>1, <1>2 DEF RegisterSteps, Register, RegisterPrimary, RegisterSecondary, RegisterCall,
     RegisterOther, RegisterOtherCall
<1>4. RegisterOrReturn(t) => LocalTypes'
  BY DEF RegisterOrReturn, Goto, Remember, TypeOK
<1>5. CASE KeepAliveSteps(t)
  <2>1. InCatch \in 0..StandAlone
    BY DEF InCatch, StandAlone
  <2>2. CASE KeepAliveCatch(t)
    BY <2>1, <2>2 DEF KeepAliveCatch
  <2>3. CASE KeepAliveStart(t) \/ KeepAliveCall(t) \/ KeepAliveTold(t)
    BY <1>4, <2>3 DEF KeepAliveStart, KeepAliveCall, KeepAliveTold, Goto, Remember, TypeOK
  <2> QED BY <1>5, <2>2, <2>3 DEF KeepAliveSteps
<1>6. CASE UpdaterSteps(t)
  BY <1>6 DEF UpdaterSteps, UpdaterRun, UpdaterReconnect, UpdaterArg, UpdaterCreate,
     UpdaterServer, UpdaterSessions, UpdaterUpdate, UpdaterError, Goto, Remember, TypeOK
<1>7. Relogged(t) => LocalTypes'
  <2>1. CASE t # Refresher /\ next[t] < Len(Sessions)
    <3>1. next[t] + 1 \in Indices
      <4>1. Len(Sessions) \in Nat /\ Indices = 1..Len(Sessions)
        BY NlaAssumption DEF Indices
      <4>2. next[t] \in Indices
        BY DEF TypeOK
      <4> QED BY <2>1, <4>1, <4>2
    <3>2. Relogged(t) => /\ Goto(t, "up_sessions")
                         /\ next' = [next EXCEPT ![t] = @ + 1] /\ UNCHANGED <<arg, after>>
      BY <2>1 DEF Relogged
    <3> QED BY <3>1, <3>2 DEF Goto, TypeOK
  <2>2. CASE t # Refresher /\ next[t] = Len(Sessions) /\ after = "up_update"
    <3>1. 1 \in Indices
      BY NlaAssumption DEF Indices
    <3>2. ~(next[t] < Len(Sessions))
      BY <2>2, NlaAssumption DEF Indices, TypeOK
    <3> QED BY <2>2, <3>1, <3>2 DEF Relogged, Goto, TypeOK
  <2> QED BY <2>1, <2>2 DEF Relogged
<1>8. CASE ReloginSteps(t)
  <2>1. ReloginFails(t) => LocalTypes'
    BY DEF ReloginFails
  <2> QED BY <1>8, <1>7, <2>1 DEF ReloginSteps, ReloginTest, ReloginCreate, ReloginServer,
        ReloginLogin, Goto, Remember, TypeOK
<1>9. CASE RefreshSteps(t)
  BY <1>9 DEF RefreshSteps, Refresh, RefreshCatch, Goto, TypeOK
<1> QED BY <1>3, <1>5, <1>6, <1>8, <1>9 DEF Run

(* The types of what is shared. *)
SharedTypes ==
  /\ active \in Servers \cup {0} /\ alone \in BOOLEAN /\ up \subseteq Servers
  /\ changes \in 0..MaxChanges
  /\ ticket \in [Indices -> Servers \cup {Null}]
  /\ connectedServer \in Servers \cup {NOT_CONNECTED}
  /\ ports \subseteq Servers
  /\ monitor \in Threads \cup {Nobody}
  /\ {updater_port, session_port} \subseteq Servers \cup {Null}
  /\ {updater_connected_server, session_data_connected_server}
       \subseteq Servers \cup {NOT_CONNECTED}

LEMMA RunSharedTypes ==
  ASSUME TypeOK, Answers, Opened, NEW t \in Threads, Run(t) PROVE SharedTypes'
<1> USE DEF SharedTypes, TypeOK, servers, service, updater, session, Servers,
    PRIMARY_SERVER, SECONDARY_SERVER, Null, NOT_CONNECTED
<1>1. CASE RegisterSteps(t)
  <2>1. monitor' \in Threads \cup {Nobody}
    BY <1>1 DEF RegisterSteps, Register, RegisterPrimary, RegisterSecondary, RegisterCall, RegisterOther,
       RegisterOtherCall, Leave, Throw, Stay
  <2>2. \A s \in Servers : Registered(s) => ticket' \in [Indices -> Servers \cup {Null}]
    BY DEF Registered, Forgotten
  <2>3. ticket' \in [Indices -> Servers \cup {Null}]
    BY <1>1, <2>2 DEF RegisterSteps, Register, RegisterPrimary, RegisterSecondary, RegisterCall, RegisterOther,
       RegisterOtherCall
  <2>4. connectedServer' \in Servers \cup {NOT_CONNECTED} /\ ports' \subseteq Servers
    BY <1>1 DEF RegisterSteps, Register, RegisterPrimary, RegisterSecondary, RegisterCall, RegisterOther,
       RegisterOtherCall
  <2>5. UNCHANGED <<servers, updater, session>>
    BY <1>1 DEF RegisterSteps, Register, RegisterPrimary, RegisterSecondary, RegisterCall, RegisterOther,
       RegisterOtherCall
  <2> QED BY <2>1, <2>3, <2>4, <2>5
<1>2. CASE KeepAliveSteps(t)
  BY <1>2 DEF KeepAliveSteps, KeepAliveStart, KeepAliveCall, KeepAliveTold, KeepAliveCatch
<1>3. CASE UpdaterSteps(t)
  BY <1>3 DEF UpdaterSteps, UpdaterRun, UpdaterReconnect, UpdaterArg, UpdaterCreate,
     UpdaterServer, UpdaterSessions, UpdaterUpdate, UpdaterError, createConnection, Answers, Asked
<1>4. CASE ReloginSteps(t)
  <2>1. CASE ReloginLogin(t)
    BY <2>1 DEF ReloginLogin
  <2>2. CASE ReloginTest(t) \/ ReloginCreate(t) \/ ReloginServer(t)
    BY <2>2 DEF ReloginTest, ReloginCreate, ReloginServer, createConnection, Answers, Asked
  <2> QED BY <1>4, <2>1, <2>2 DEF ReloginSteps
<1>5. CASE RefreshSteps(t)
  BY <1>5 DEF RefreshSteps, Refresh, RefreshCatch
<1> QED BY <1>1, <1>2, <1>3, <1>4, <1>5 DEF Run

LEMMA EnvironmentTypes ==
  ASSUME TypeOK, Environment
  PROVE  SharedTypes' /\ UNCHANGED <<service, updater, session, pc, locals>>
<1> USE DEF SharedTypes, TypeOK, Servers, PRIMARY_SERVER, SECONDARY_SERVER
<1>1. UNCHANGED <<service, updater, session, pc, locals>>
  BY DEF Environment, Lose, Return, Switch, Failover, StandsAlone
<1>2. \A s \in Servers : MayForget(s) => ticket' \in [Indices -> Servers \cup {Null}]
  BY DEF MayForget, Forgotten
<1>3. Change => changes' \in 0..MaxChanges
  BY NlaAssumption DEF Change
<1>4. /\ active' \in Servers \cup {0} /\ alone' \in BOOLEAN /\ up' \subseteq Servers
      /\ changes' \in 0..MaxChanges /\ ticket' \in [Indices -> Servers \cup {Null}]
  BY <1>2, <1>3 DEF Environment, Lose, Return, Switch, Failover, StandsAlone
<1> QED BY <1>1, <1>4 DEF service, updater, session

-----------------------------------------------------------------------------
(* A step moves its own thread.                                            *)
LEMMA OthersStay ==
  ASSUME TypeOK, NEW t \in Threads, Run(t), NEW u \in Threads \ {t}
  PROVE  pc'[u] = pc[u] /\ arg'[u] = arg[u]
<1> USE DEF TypeOK, Goto, Continue, Remember, Idle, Leave, Throw, Stay, locals
<1>1. CASE RegisterSteps(t)
  BY <1>1 DEF RegisterSteps, Register, RegisterPrimary, RegisterSecondary, RegisterCall,
     RegisterOther, RegisterOtherCall
<1>2. CASE KeepAliveSteps(t)
  BY <1>2 DEF KeepAliveSteps, KeepAliveStart, KeepAliveCall, KeepAliveTold, KeepAliveCatch,
     RegisterOrReturn
<1>3. CASE UpdaterSteps(t)
  BY <1>3 DEF UpdaterSteps, UpdaterRun, UpdaterReconnect, UpdaterArg, UpdaterCreate,
     UpdaterServer, UpdaterSessions, UpdaterUpdate, UpdaterError
<1>4. CASE ReloginSteps(t)
  <2>1. Relogged(t) => pc'[u] = pc[u] /\ arg'[u] = arg[u]
    BY DEF Relogged
  <2>2. CASE ReloginLogin(t)
    BY <2>1, <2>2 DEF ReloginLogin, ReloginFails
  <2>3. CASE ReloginTest(t) \/ ReloginCreate(t) \/ ReloginServer(t)
    BY <2>3 DEF ReloginTest, ReloginCreate, ReloginServer, ReloginFails
  <2> QED BY <1>4, <2>2, <2>3 DEF ReloginSteps
<1>5. CASE RefreshSteps(t)
  BY <1>5 DEF RefreshSteps, Refresh, RefreshCatch
<1> QED BY <1>1, <1>2, <1>3, <1>4, <1>5 DEF Run

(* What the steps outside register may change of the connection: close a   *)
(* port at any time, connect to another server when nobody registers.      *)
Outside(t) ==
  /\ pc[t] \notin Registering /\ pc'[t] \notin Registering
  /\ UNCHANGED monitor
  /\ ports' \subseteq ports
  /\ connectedServer' = connectedServer \/ Free

LEMMA OutsideSteps ==
  ASSUME TypeOK, NEW t \in Threads,
         KeepAliveSteps(t) \/ UpdaterSteps(t) \/ ReloginSteps(t) \/ RefreshSteps(t)
  PROVE  Outside(t)
<1> USE DEF TypeOK, Goto, Continue, Remember, Idle, locals, service, Outside, Registering
<1>1. CASE KeepAliveSteps(t)
  BY <1>1 DEF KeepAliveSteps, KeepAliveStart, KeepAliveCall, KeepAliveTold, KeepAliveCatch,
     RegisterOrReturn
<1>2. CASE UpdaterSteps(t)
  BY <1>2 DEF UpdaterSteps, UpdaterRun, UpdaterReconnect, UpdaterArg, UpdaterCreate,
     UpdaterServer, UpdaterSessions, UpdaterUpdate, UpdaterError
<1>3. CASE ReloginSteps(t)
  <2>1. Relogged(t) => pc'[t] \notin Registering
    BY DEF Relogged
  <2>2. CASE ReloginLogin(t)
    BY <2>1, <2>2 DEF ReloginLogin, ReloginFails
  <2>3. CASE ReloginTest(t) \/ ReloginCreate(t) \/ ReloginServer(t)
    BY <2>3 DEF ReloginTest, ReloginCreate, ReloginServer, ReloginFails
  <2> QED BY <1>3, <2>2, <2>3 DEF ReloginSteps
<1>4. CASE RefreshSteps(t)
  BY <1>4 DEF RefreshSteps, Refresh, RefreshCatch
<1> QED BY <1>1, <1>2, <1>3, <1>4

LEMMA OutsideExclusion ==
  ASSUME TypeOK, Exclusion, NEW t \in Threads, Run(t), Outside(t) PROVE Exclusion'
<1>1. \A u \in Threads : pc'[u] \in Registering => u # t /\ pc'[u] = pc[u] /\ monitor = u
  BY OthersStay DEF Outside, Exclusion, Monitor
<1>2. Monitor'
  BY OthersStay DEF Outside, Exclusion, Monitor
<1>3. Opened'
  <2> SUFFICES ASSUME NEW u \in Threads, pc'[u] \in Registering
               PROVE  /\ pc'[u] \in {"reg_primary", "reg_secondary", "reg_other"} => ports' = {}
                      /\ pc'[u] \in {"reg_call", "reg_other_call"} => ports' \subseteq {connectedServer'}
                      /\ pc'[u] \in {"reg_call", "reg_other", "reg_other_call"}
                           => connectedServer' \in Servers
    BY DEF Opened, Registering
  <2>1. connectedServer' = connectedServer
    BY <1>1, NlaAssumption DEF Outside, Free
  <2> QED BY <1>1, <2>1 DEF Outside, Exclusion, Opened
<1>4. OnePort'
  BY OnePortMeans DEF OnePort, Outside, Exclusion, TypeOK
<1> QED BY <1>2, <1>3, <1>4 DEF Exclusion

(* register: its thread has the monitor, so that nobody else is inside.    *)
LEMMA RegisterExclusion ==
  ASSUME TypeOK, Exclusion, NEW t \in Threads, RegisterSteps(t) PROVE Exclusion'
<1> Run(t)
  BY DEF Run
<1> USE DEF Goto, Continue, Stay, Idle, locals
<1>0. t # Nobody /\ pc \in [Threads -> Pcs] /\ ports \subseteq Servers
  BY NlaAssumption DEF TypeOK
<1>1. \A u \in Threads \ {t} : pc'[u] = pc[u] /\ pc'[u] \notin Registering
  <2>1. monitor \in {t, Nobody}
    BY DEF RegisterSteps, Register, RegisterPrimary, RegisterSecondary, RegisterCall, RegisterOther,
       RegisterOtherCall, Exclusion, Monitor, Free, Registering
  <2> QED BY <2>1, OthersStay, NlaAssumption DEF Exclusion, Monitor
<1>2. ASSUME NEW there \in Pcs, Stay(t, there) \/ (Continue(t, there) /\ monitor' = t)
      PROVE  pc'[t] = there /\ monitor' \in {t, monitor}
  BY <1>2, <1>0
<1>3. Leave(t) \/ Throw(t) => pc'[t] \in {"up_arg", "ka_catch", "idle"} /\ monitor' = Nobody
  BY <1>0 DEF Leave, Throw
<1>4. ASSUME pc'[t] \in {"up_arg", "ka_catch", "idle"}, monitor' = Nobody, ports' \subseteq ports
      PROVE  Exclusion'
  <2>1. Monitor' /\ Opened'
    BY <1>0, <1>1, <1>4, NlaAssumption DEF Monitor, Opened, Registering
  <2>2. OnePort'
    BY <1>0, <1>4, OnePortMeans DEF OnePort, Exclusion
  <2> QED BY <2>1, <2>2 DEF Exclusion
<1>5. ASSUME pc'[t] \in Registering, monitor' = t, ports' \subseteq Servers,
             pc'[t] \in {"reg_primary", "reg_secondary", "reg_other"} => ports' = {},
             pc'[t] \in {"reg_call", "reg_other_call"} => ports' \subseteq {connectedServer'},
             pc'[t] \in {"reg_call", "reg_other", "reg_other_call"} => connectedServer' \in Servers
      PROVE  Exclusion'
  <2>1. Monitor' /\ Opened'
    BY <1>0, <1>1, <1>5, NlaAssumption DEF Monitor, Opened, Registering
  <2>2. \E s \in Servers : ports' \subseteq {s}
    <3>1. CASE ports' = {}
      BY <3>1 DEF Servers
    <3>2. CASE connectedServer' \in Servers /\ ports' \subseteq {connectedServer'}
      BY <3>2
    <3> QED BY <1>5, <3>1, <3>2 DEF Registering
  <2>3. OnePort'
    BY <1>5, <2>2, OnePortMeans DEF OnePort
  <2> QED BY <2>1, <2>3 DEF Exclusion
<1> USE DEF Servers, PRIMARY_SERVER, SECONDARY_SERVER, NOT_CONNECTED, Other
<1>6. CASE Register(t)
  <2>1. pc'[t] = "reg_primary" /\ monitor' = t /\ ports' = {}
    BY <1>6, <1>0 DEF Register
  <2> QED BY <1>5, <2>1 DEF Registering
<1>7. monitor = t \/ Register(t)
  BY DEF RegisterSteps, RegisterPrimary, RegisterSecondary, RegisterCall, RegisterOther,
       RegisterOtherCall, Exclusion, Monitor, Registering
<1>8. CASE RegisterPrimary(t)
  <2>0. ports = {} /\ monitor = t
    BY <1>8 DEF RegisterPrimary, Exclusion, Opened, Monitor, Registering
  <2>1. CASE PRIMARY_SERVER \in up
    <3>1. /\ connectedServer' = PRIMARY_SERVER /\ ports' = {PRIMARY_SERVER}
          /\ pc'[t] = "reg_call" /\ monitor' = t
      BY <1>8, <2>0, <2>1, <1>0 DEF RegisterPrimary
    <3> QED BY <3>1, <1>5 DEF Registering
  <2>2. CASE PRIMARY_SERVER \notin up
    <3>1. pc'[t] = "reg_secondary" /\ monitor' = t /\ ports' = {}
      BY <1>8, <2>0, <2>2, <1>0 DEF RegisterPrimary
    <3> QED BY <3>1, <1>5 DEF Registering
  <2> QED BY <2>1, <2>2
<1>9. CASE RegisterSecondary(t)
  <2>0. ports = {} /\ monitor = t
    BY <1>9 DEF RegisterSecondary, Exclusion, Opened, Monitor, Registering
  <2>1. CASE SECONDARY_SERVER \in up
    <3>1. /\ connectedServer' = SECONDARY_SERVER /\ ports' = {SECONDARY_SERVER}
          /\ pc'[t] = "reg_call" /\ monitor' = t
      BY <1>9, <2>0, <2>1, <1>0 DEF RegisterSecondary
    <3> QED BY <3>1, <1>5 DEF Registering
  <2>2. CASE SECONDARY_SERVER \notin up
    BY <1>3, <1>4, <1>9, <2>2 DEF RegisterSecondary
  <2> QED BY <2>1, <2>2
<1>10. CASE RegisterCall(t)
  <2>0. ports \subseteq {connectedServer} /\ connectedServer \in Servers /\ monitor = t
    BY <1>10 DEF RegisterCall, Exclusion, Opened, Monitor, Registering
  <2>1. CASE (Leave(t) \/ Throw(t)) /\ UNCHANGED ports
    BY <2>1, <1>3, <1>4
  <2>2. CASE Stay(t, "reg_other") /\ ports' = ports \ {connectedServer}
    <3>1. pc'[t] = "reg_other" /\ monitor' = t /\ ports' = {} /\ connectedServer' \in Servers
      BY <1>10, <2>0, <2>2, <1>0 DEF RegisterCall
    <3> QED BY <3>1, <1>5 DEF Registering
  <2> QED BY <1>10, <2>1, <2>2 DEF RegisterCall
<1>11. CASE RegisterOther(t)
  <2>0. ports = {} /\ connectedServer \in Servers /\ monitor = t
    BY <1>11 DEF RegisterOther, Exclusion, Opened, Monitor, Registering
  <2>1. CASE Throw(t) /\ UNCHANGED ports
    BY <2>1, <1>3, <1>4
  <2>2. CASE /\ connectedServer' = Other(connectedServer)
             /\ ports' = ports \cup {Other(connectedServer)} /\ Stay(t, "reg_other_call")
    <3>1. /\ pc'[t] = "reg_other_call" /\ monitor' = t /\ ports' = {connectedServer'}
          /\ connectedServer' \in Servers
      BY <2>0, <2>2, <1>0
    <3> QED BY <3>1, <1>5 DEF Registering
  <2> QED BY <1>11, <2>1, <2>2 DEF RegisterOther
<1>12. CASE RegisterOtherCall(t)
  BY <1>3, <1>4, <1>12 DEF RegisterOtherCall
<1> QED BY <1>6, <1>9, <1>10, <1>11, <1>12, <1>8 DEF RegisterSteps

-----------------------------------------------------------------------------
LEMMA RunAnswers ==
  ASSUME TypeOK, Answers, NEW t \in Threads, Run(t) PROVE Answers'
<1> USE DEF TypeOK, Goto, Continue, Remember, Idle, locals, Asked, NOT_CONNECTED
<1>0. SUFFICES pc'[t] \in Asked => arg'[t] \in Servers \cup {0}
  BY OthersStay DEF Answers
<1>1. CASE RegisterSteps(t)
  BY <1>1 DEF RegisterSteps, Register, RegisterPrimary, RegisterSecondary, RegisterCall,
     RegisterOther, RegisterOtherCall, Leave, Throw, Stay
<1>2. CASE KeepAliveSteps(t)
  BY <1>2 DEF KeepAliveSteps, KeepAliveStart, KeepAliveCall, KeepAliveTold, KeepAliveCatch,
     RegisterOrReturn
<1>3. CASE UpdaterSteps(t)
  BY <1>3 DEF UpdaterSteps, UpdaterRun, UpdaterReconnect, UpdaterArg, UpdaterCreate,
     UpdaterServer, UpdaterSessions, UpdaterUpdate, UpdaterError, Answers
<1>4. CASE ReloginSteps(t)
  <2>1. Relogged(t) => pc'[t] \notin Asked
    BY DEF Relogged
  <2>2. CASE ReloginLogin(t)
    BY <2>1, <2>2 DEF ReloginLogin, ReloginFails
  <2>3. CASE ReloginTest(t) \/ ReloginCreate(t) \/ ReloginServer(t)
    BY <2>3 DEF ReloginTest, ReloginCreate, ReloginServer, ReloginFails, Answers
  <2> QED BY <1>4, <2>2, <2>3 DEF ReloginSteps
<1>5. CASE RefreshSteps(t)
  BY <1>5 DEF RefreshSteps, Refresh, RefreshCatch
<1> QED BY <1>1, <1>2, <1>3, <1>4, <1>5 DEF Run

-----------------------------------------------------------------------------
(* Nobody but the updater's thread touches the updaters' port and record,  *)
(* and only that thread moves within AbsUpdater.run and reconnect.         *)
LEMMA OthersUpdate ==
  ASSUME TypeOK, NEW t \in Threads, t # Updater, Run(t)
  PROVE  /\ UNCHANGED updater
         /\ Updater \in Threads => pc'[Updater] = pc[Updater] /\ arg'[Updater] = arg[Updater]
<1>1. UNCHANGED updater
  BY DEF Run, RegisterSteps, Register, RegisterPrimary, RegisterSecondary, RegisterCall,
     RegisterOther, RegisterOtherCall, KeepAliveSteps, KeepAliveStart, KeepAliveCall,
     KeepAliveTold, KeepAliveCatch, UpdaterSteps, ReloginSteps, ReloginTest, ReloginCreate,
     ReloginServer, ReloginLogin, RefreshSteps, Refresh, RefreshCatch
<1> QED BY <1>1, OthersStay

LEMMA UpdaterUnrecorded ==
  ASSUME TypeOK, Unrecorded, Updater \in Threads, Run(Updater) PROVE Unrecorded'
<1> DEFINE t == Updater
<1> USE DEF TypeOK, Goto, Continue, Remember, Idle, locals, updater
<1>1. CASE RegisterSteps(t)
  <2>1. UNCHANGED updater /\ pc[t] \in Reconnecting /\ pc'[t] # "up_server"
    BY <1>1 DEF RegisterSteps, Register, RegisterPrimary, RegisterSecondary, RegisterCall,
       RegisterOther, RegisterOtherCall, Leave, Throw, Stay, Reconnecting, Registering
  <2> QED BY <2>1 DEF Unrecorded
<1>2. CASE UpdaterSteps(t)
  BY <1>2 DEF UpdaterSteps, UpdaterRun, UpdaterReconnect, UpdaterArg, UpdaterCreate,
     UpdaterServer, UpdaterSessions, UpdaterUpdate, UpdaterError, Unrecorded, Reconnecting,
     Registering
<1>3. CASE ReloginSteps(t)
  <2>1. Relogged(t) => pc'[t] \notin Reconnecting
    BY DEF Relogged, Reconnecting, Registering
  <2>2. CASE ReloginLogin(t)
    BY <2>1, <2>2 DEF ReloginLogin, ReloginFails, Unrecorded, Reconnecting, Registering
  <2>3. CASE ReloginTest(t) \/ ReloginCreate(t) \/ ReloginServer(t)
    BY <2>3 DEF ReloginTest, ReloginCreate, ReloginServer, ReloginFails, Unrecorded,
       Reconnecting, Registering
  <2> QED BY <1>3, <2>2, <2>3 DEF ReloginSteps
<1> QED BY <1>1, <1>2, <1>3, NlaAssumption DEF Run, KeepAliveSteps, RefreshSteps

-----------------------------------------------------------------------------
LEMMA ServiceStep == ServiceInv /\ [Next]_vars => ServiceInv'
<1> SUFFICES ASSUME ServiceInv, [Next]_vars PROVE ServiceInv'
  OBVIOUS
<1> USE DEF ServiceInv
<1>1. ASSUME NEW t \in Threads, Run(t) PROVE ServiceInv'
  <2>1. TypeOK'
    BY <1>1, RunLocalTypes, RunSharedTypes DEF LocalTypes, SharedTypes, TypeOK, Exclusion
  <2>2. Exclusion'
    BY <1>1, RegisterExclusion, OutsideSteps, OutsideExclusion DEF Run
  <2>3. Unrecorded'
    <3>1. CASE t = Updater
      BY <1>1, <3>1, UpdaterUnrecorded
    <3>2. CASE t # Updater
      BY <1>1, <3>2, OthersUpdate DEF Unrecorded, updater
    <3> QED BY <3>1, <3>2
  <2> QED BY <1>1, <2>1, <2>2, <2>3, RunAnswers
<1>2. CASE Environment
  BY <1>2, EnvironmentTypes DEF TypeOK, SharedTypes, Answers, Exclusion, Monitor, Opened,
     OnePort, Unrecorded, service, updater, session, locals
<1>3. CASE UNCHANGED vars
  BY <1>3 DEF vars, servers, service, updater, session, locals, TypeOK, Answers, Exclusion,
     Monitor, Opened, OnePort, Unrecorded
<1> QED BY <1>1, <1>2, <1>3 DEF Next

LEMMA ServiceInvariant == Spec => []ServiceInv
BY ServiceInit, ServiceStep, PTL DEF Spec

(* The shared connection state and the threads' positions are of their     *)
(* types: a keep-alive's answer is never taken for a server to connect to. *)
THEOREM ServiceTypes == Spec => []TypeOK
BY ServiceInvariant, PTL DEF ServiceInv

(* A registration never leaves the ports of both servers open, whatever    *)
(* keep-alive and the updaters do to the connection meanwhile.             *)
THEOREM OnePortAtATime == Spec => []OnePort
BY ServiceInvariant, PTL DEF ServiceInv, Exclusion

-----------------------------------------------------------------------------
(* The step that makes the mistake is that of getConnectedServer.          *)
LEMMA MistakeStep ==
  ASSUME ServiceInv, [Next]_vars, ~Mistaken, Mistaken'
  PROVE  pc[Updater] = "up_server" /\ connectedServer = Other(arg[Updater])
<1> USE DEF Mistaken, updater
<1>1. PICK t \in Threads : Run(t)
  BY EnvironmentTypes DEF Next, ServiceInv, vars
<1>2. t = Updater /\ UpdaterSteps(t)
  <2>1. t = Updater
    BY <1>1, OthersUpdate DEF ServiceInv
  <2>2. ~UNCHANGED updater
    OBVIOUS
  <2> QED BY <1>1, <2>1, <2>2 DEF Run, RegisterSteps, Register, RegisterPrimary, RegisterSecondary, RegisterCall,
     RegisterOther, RegisterOtherCall, KeepAliveSteps, KeepAliveStart, KeepAliveCall,
     KeepAliveTold, KeepAliveCatch, ReloginSteps, ReloginTest, ReloginCreate,
     ReloginServer, ReloginLogin, RefreshSteps, Refresh, RefreshCatch
<1>3. ~UpdaterCreate(t)
  BY <1>2 DEF UpdaterCreate, ServiceInv, Unrecorded, Reconnecting, Servers, Other,
     PRIMARY_SERVER, SECONDARY_SERVER, NOT_CONNECTED
<1>4. UpdaterServer(t)
  <2>1. ~UNCHANGED updater
    OBVIOUS
  <2>2. updater_connected_server' # NOT_CONNECTED
    <3>1. updater_port' = 1 \/ updater_port' = 2
      BY DEF Servers, PRIMARY_SERVER, SECONDARY_SERVER
    <3>2. updater_connected_server' = 3 - updater_port'
      BY DEF Other
    <3>3. updater_connected_server' = 2 \/ updater_connected_server' = 1
      BY <3>1, <3>2
    <3> QED BY <3>3 DEF NOT_CONNECTED
  <2> QED BY <1>2, <1>3, <2>1, <2>2 DEF UpdaterSteps, UpdaterRun, UpdaterReconnect, UpdaterArg,
        UpdaterSessions, UpdaterUpdate, UpdaterError
<1> QED BY <1>2, <1>4 DEF UpdaterServer, ServiceInv, Unrecorded

(* The updaters take the port of one server for the other's only when the  *)
(* connection has changed between their createConnection and their         *)
(* getConnectedServer.                                                     *)
THEOREM MistakesOnlyByRaces == Spec => MistakesAreRaces
<1>1. ServiceInv /\ [Next]_vars
        => [~Mistaken /\ Mistaken' => /\ pc[Updater] = "up_server"
                                      /\ connectedServer = Other(arg[Updater])]_vars
  BY MistakeStep
<1> QED BY <1>1, ServiceInvariant, PTL DEF Spec, MistakesAreRaces

=============================================================================
