----------------------------- MODULE ConfigReload -----------------------------
(***************************************************************************)
(* The configuration of the service and the servers that follow it.        *)
(*                                                                         *)
(* A control connection sets the configuration (deserialize, save, load)   *)
(* or loads it again; load() ends with notifyReload(), which calls         *)
(* TvnServer::onConfigReload() with the list of listeners locked.  That    *)
(* restarts the main RFB server, the extra ones and the HTTP server where  *)
(* they differ from the configuration.  To delete a server is to wait for  *)
(* its thread, which may be adding a connection to the RfbClientManager;   *)
(* the manager creates the desktop with its own list locked, and the       *)
(* desktop registers as a listener of the configuration.                   *)
(*                                                                         *)
(* TvnServer::m_mutex is only taken where the listeners are locked, and by *)
(* getServerInfo(), which takes nothing else; it is left out.              *)
(***************************************************************************)
EXTENDS Naturals, FiniteSets

CONSTANTS Sessions,     \* threads that load the configuration
          Clients,      \* threads of RFB clients
          Free,         \* nobody owns the mutex
          Configs,      \* the configurations that may be set
          MaxReloads    \* bound: how often it is set or loaded

Owners == Sessions \cup Clients
NoPort == 0

\* The part of ServerConfig that servers depend on.
ServerConfig == [acceptRfb : BOOLEAN, loopbackOnly : BOOLEAN,
                 rfbPort : Nat, extraPorts : SUBSET Nat, httpPort : Nat]

ASSUME ConfigReloadAssumption ==
  /\ Free \notin Owners
  /\ Sessions \cap Clients = {}
  /\ Configs \subseteq ServerConfig
  /\ \A c \in Configs : c.rfbPort # NoPort /\ NoPort \notin c.extraPorts
  /\ MaxReloads \in Nat

VARIABLES
  m_serverConfig,    \* what the program works with
  stored,            \* what the SettingsManager has stored
  configLock,        \* the mutex of the ServerConfig
  torn,              \* a failed deserialize() has left parts of two of them
  m_listeners,       \* the mutex of the Configurator's listeners
  m_rfbServer,       \* {} or {the address of the main server}
  m_servers,         \* addresses of the ExtraRfbServers
  m_effectiveConf,   \* the configuration they were started for
  m_httpServer,      \* {} or {its port}
  adding,            \* servers whose thread is in addNewConnection()
  m_clientListLocker, m_desktop,     \* RfbClientManager
  spc,               \* [Sessions -> where the thread is]
  cpc,               \* [Clients -> where the thread is]
  reloads            \* how often the configuration has been set or loaded

configVars == <<m_serverConfig, stored, configLock, torn>>
serverVars == <<m_rfbServer, m_servers, m_effectiveConf, m_httpServer, adding>>
managerVars == <<m_clientListLocker, m_desktop, cpc>>
vars == <<configVars, m_listeners, serverVars, managerVars, spc, reloads>>

--------------------------------------------------------------------------------
BindHost(c) == IF c.loopbackOnly THEN "localhost" ELSE "any"
Address(c, port) == [host |-> BindHost(c), port |-> port]

MainWanted(c) == IF c.acceptRfb THEN {Address(c, c.rfbPort)} ELSE {}
ExtraWanted(c) ==
  IF c.acceptRfb THEN {Address(c, p) : p \in c.extraPorts} ELSE {}
HttpWanted(c) == {c.httpPort} \ {NoPort}

\* ExtraRfbServers::Conf
ExtraConf(c) == [accept |-> c.acceptRfb, loopback |-> c.loopbackOnly,
                 ports |-> c.extraPorts]

Addresses == [host : {"localhost", "any"}, port : Nat \ {NoPort}]

SessionPC == {"idle", "deserialize", "save", "loadPorts", "loadRest", "notify",
              "main", "stopMain", "startMain", "extra", "stopExtra",
              "startExtra", "http", "notified"}
ClientPC == {"out", "authorized", "creating", "in", "left", "deleting"}

TypeOK ==
  /\ m_serverConfig \in ServerConfig /\ stored \in ServerConfig
  /\ configLock \in Sessions \cup {Free}
  /\ torn \in BOOLEAN
  /\ m_listeners \in Owners \cup {Free}
  /\ m_rfbServer \subseteq Addresses /\ m_servers \subseteq Addresses
  /\ m_effectiveConf \in [accept : BOOLEAN, loopback : BOOLEAN,
                          ports : SUBSET Nat]
  /\ m_httpServer \subseteq Nat
  /\ adding \subseteq m_rfbServer \cup m_servers
  /\ m_clientListLocker \in Clients \cup {Free}
  /\ m_desktop \in BOOLEAN
  /\ spc \in [Sessions -> SessionPC] /\ cpc \in [Clients -> ClientPC]
  /\ reloads \in 0 .. MaxReloads

\* The servers have been started for the configuration that was loaded.
Init ==
  /\ m_serverConfig \in Configs /\ stored = m_serverConfig
  /\ configLock = Free /\ torn = FALSE /\ m_listeners = Free
  /\ m_rfbServer = MainWanted(m_serverConfig)
  /\ m_servers = ExtraWanted(m_serverConfig)
  /\ m_effectiveConf = ExtraConf(m_serverConfig)
  /\ m_httpServer = HttpWanted(m_serverConfig)
  /\ adding = {}
  /\ m_clientListLocker = Free /\ m_desktop = FALSE
  /\ spc = [s \in Sessions |-> "idle"]
  /\ cpc = [c \in Clients |-> "out"]
  /\ reloads = 0

At(s, pc) == spc[s] = pc
Goto(s, pc) == spc' = [spc EXCEPT ![s] = pc]

\* Getters and setters of the configuration wait for its mutex.
ConfigUnlocked == configLock = Free

--------------------------------------------------------------------------------
(* Configurator: setServerConfigMsgRcvd() and reloadConfigMsgRcvd().       *)

CountReload == reloads < MaxReloads /\ reloads' = reloads + 1

\* deserialize() reads from the pipe with the configuration locked.
BeginDeserialize(s) ==
  /\ At(s, "idle") /\ ConfigUnlocked /\ CountReload
  /\ configLock' = s
  /\ Goto(s, "deserialize")
  /\ UNCHANGED <<m_serverConfig, stored, torn, m_listeners, serverVars,
                 managerVars>>

EndDeserialize(s) ==
  /\ At(s, "deserialize")
  /\ m_serverConfig' \in Configs
  /\ configLock' = Free /\ torn' = FALSE
  /\ Goto(s, "save")
  /\ UNCHANGED <<stored, m_listeners, serverVars, managerVars, reloads>>

\* The peer leaves: the port has been assigned, the rest has not, and the
\* exception ends the thread of the connection.  Another one takes its place.
DeserializeFails(s) ==
  /\ At(s, "deserialize")
  /\ \E c \in Configs :
       m_serverConfig' = [m_serverConfig EXCEPT !.rfbPort = c.rfbPort]
  /\ configLock' = Free
  /\ torn' = TRUE
  /\ Goto(s, "idle")
  /\ UNCHANGED <<stored, m_listeners, serverVars, managerVars, reloads>>

Save(s) ==
  /\ At(s, "save") /\ ConfigUnlocked
  /\ stored' = m_serverConfig
  /\ Goto(s, "loadPorts")
  /\ UNCHANGED <<m_serverConfig, configLock, torn, m_listeners, serverVars,
                 managerVars, reloads>>

Reload(s) ==
  /\ At(s, "idle") /\ CountReload
  /\ Goto(s, "loadPorts")
  /\ UNCHANGED <<configVars, m_listeners, serverVars, managerVars>>

\* load() locks the configuration once for the port mappings, and for each
\* setting that follows.
LoadPortMappingContainer(s) ==
  /\ At(s, "loadPorts") /\ ConfigUnlocked
  /\ m_serverConfig' = [m_serverConfig EXCEPT !.extraPorts = stored.extraPorts]
  /\ Goto(s, "loadRest")
  /\ UNCHANGED <<stored, configLock, torn, m_listeners, serverVars,
                 managerVars, reloads>>

LoadServerConfig(s) ==
  /\ At(s, "loadRest") /\ ConfigUnlocked
  /\ m_serverConfig' = [stored EXCEPT !.extraPorts = m_serverConfig.extraPorts]
  /\ torn' = FALSE
  /\ Goto(s, "notify")
  /\ UNCHANGED <<stored, configLock, m_listeners, serverVars, managerVars,
                 reloads>>

--------------------------------------------------------------------------------
(* notifyReload() and TvnServer::onConfigReload().                         *)

NotifyReload(s) ==
  /\ At(s, "notify")
  /\ m_listeners = Free
  /\ m_listeners' = s
  /\ Goto(s, "main")
  /\ UNCHANGED <<configVars, serverVars, managerVars, reloads>>

ChangedIgnoringHost(c) == \* (mutant) bindHost is not compared
  \/ c.acceptRfb # (m_rfbServer # {})
  \/ \E a \in m_rfbServer : a.port # c.rfbPort

\* toggleMainRfbServer, changeMainRfbPort or changeBindHost
Changed(c) ==
  \/ c.acceptRfb # (m_rfbServer # {})
  \/ \E a \in m_rfbServer : a.port # c.rfbPort \/ a.host # BindHost(c)

CheckMainServer(s) ==
  /\ At(s, "main") /\ ConfigUnlocked
  /\ Goto(s, IF Changed(m_serverConfig) THEN "stopMain" ELSE "extra")
  /\ UNCHANGED <<configVars, m_listeners, serverVars, managerVars, reloads>>

DeletableAtOnce(a) == TRUE \* (mutant) its thread is not waited for

\* Deleting a server closes its socket and waits for its thread.
Deletable(a) == a \notin adding

StopMainRfbServer(s) ==
  /\ At(s, "stopMain")
  /\ \A a \in m_rfbServer : Deletable(a)
  /\ m_rfbServer' = {}
  /\ Goto(s, "startMain")
  /\ UNCHANGED <<configVars, m_listeners, m_servers, m_effectiveConf,
                 m_httpServer, adding, managerVars, reloads>>

\* bind() fails where another server of the process has the address.
Bound == {a.port : a \in m_servers \cup m_rfbServer} \cup m_httpServer

StartMainRfbServer(s) ==
  /\ At(s, "startMain") /\ ConfigUnlocked
  /\ m_rfbServer' = {a \in MainWanted(m_serverConfig) : a.port \notin Bound}
  /\ Goto(s, "extra")
  /\ UNCHANGED <<configVars, m_listeners, m_servers, m_effectiveConf,
                 m_httpServer, adding, managerVars, reloads>>

\* ExtraRfbServers::reload()
CheckExtraServers(s) ==
  /\ At(s, "extra") /\ ConfigUnlocked
  /\ Goto(s, IF /\ ExtraConf(m_serverConfig) = m_effectiveConf
                /\ Cardinality(m_serverConfig.extraPorts) = Cardinality(m_servers)
             THEN "http" ELSE "stopExtra")
  /\ UNCHANGED <<configVars, m_listeners, serverVars, managerVars, reloads>>

\* shutDown(), one server after the other.
ShutDownExtra(s) ==
  /\ At(s, "stopExtra")
  /\ \E a \in m_servers : Deletable(a) /\ m_servers' = m_servers \ {a}
  /\ UNCHANGED <<configVars, m_listeners, m_rfbServer, m_effectiveConf,
                 m_httpServer, adding, managerVars, spc, reloads>>

StartUpExtra(s) ==
  /\ At(s, "stopExtra") /\ m_servers = {} /\ ConfigUnlocked
  /\ m_effectiveConf' = ExtraConf(m_serverConfig)
  /\ m_servers' = {a \in ExtraWanted(m_serverConfig) : a.port \notin Bound}
  /\ Goto(s, "http")
  /\ UNCHANGED <<configVars, m_listeners, m_rfbServer, m_httpServer, adding,
                 managerVars, reloads>>

\* restartHttpServer(), unless the port is the one it has.
RestartHttpServer(s) ==
  /\ At(s, "http") /\ ConfigUnlocked
  /\ m_httpServer' =
       IF m_httpServer = HttpWanted(m_serverConfig) THEN m_httpServer
       ELSE {p \in HttpWanted(m_serverConfig) : p \notin Bound \ m_httpServer}
  /\ Goto(s, "notified")
  /\ UNCHANGED <<configVars, m_listeners, m_rfbServer, m_servers,
                 m_effectiveConf, adding, managerVars, reloads>>

Notified(s) ==
  /\ At(s, "notified")
  /\ m_listeners' = Free
  /\ Goto(s, "idle")
  /\ UNCHANGED <<configVars, serverVars, managerVars, reloads>>

--------------------------------------------------------------------------------
(* The thread of an RfbServer: onAcceptConnection().                       *)

Running == m_rfbServer \cup m_servers

\* The socket is closed before the thread is waited for.
Closed(a) == \/ a \in m_rfbServer /\ \E s \in Sessions : At(s, "stopMain")
             \/ a \in m_servers /\ \E s \in Sessions : At(s, "stopExtra")

OnAcceptConnection(a) ==
  /\ a \in Running \ adding
  /\ ~Closed(a)
  /\ adding' = adding \cup {a}
  /\ UNCHANGED <<configVars, m_listeners, m_rfbServer, m_servers,
                 m_effectiveConf, m_httpServer, managerVars, spc, reloads>>

AddNewConnection(a) ==
  /\ a \in adding
  /\ ConfigUnlocked /\ m_clientListLocker = Free
  /\ adding' = adding \ {a}
  /\ UNCHANGED <<configVars, m_listeners, m_rfbServer, m_servers,
                 m_effectiveConf, m_httpServer, managerVars, spc, reloads>>

--------------------------------------------------------------------------------
(* The thread of an RfbClient in the RfbClientManager.                     *)

OnlyClient == UNCHANGED <<configVars, serverVars, spc, reloads>>

OnClientAuth(c) ==
  /\ cpc[c] = "out"
  /\ m_clientListLocker = Free
  /\ m_clientListLocker' = c
  /\ cpc' = [cpc EXCEPT ![c] = "authorized"]
  /\ UNCHANGED <<m_desktop, m_listeners>> /\ OnlyClient

\* The configuration is asked whether the client is shared.
CheckShared(c) ==
  /\ cpc[c] = "authorized" /\ ConfigUnlocked
  /\ cpc' = [cpc EXCEPT ![c] = IF m_desktop THEN "in" ELSE "creating"]
  /\ m_clientListLocker' = IF m_desktop THEN Free ELSE c
  /\ UNCHANGED <<m_desktop, m_listeners>> /\ OnlyClient

\* createDesktop(): its constructor adds a listener, with the clients locked.
CreateDesktop(c) ==
  /\ cpc[c] = "creating" /\ ConfigUnlocked
  /\ m_listeners = Free
  /\ m_desktop' = TRUE
  /\ m_clientListLocker' = Free
  /\ cpc' = [cpc EXCEPT ![c] = "in"]
  /\ UNCHANGED m_listeners /\ OnlyClient

Alone(c) == \A d \in Clients \ {c} : cpc[d] # "in"

\* (mutant) the desktop is deleted with the list locked
LockKept(c) == m_clientListLocker' = c

Unlocked(c) == m_clientListLocker' = Free

\* validateClientList(): the last client deletes the desktop, unlocked.
ValidateClientList(c) ==
  /\ cpc[c] = "in"
  /\ m_clientListLocker = Free
  /\ m_desktop' = ~Alone(c)
  /\ cpc' = [cpc EXCEPT ![c] = IF Alone(c) THEN "deleting" ELSE "left"]
  /\ Unlocked(c)
  /\ UNCHANGED m_listeners /\ OnlyClient

\* ~DesktopWinImpl() removes the listener.
DeleteDesktop(c) ==
  /\ cpc[c] = "deleting"
  /\ m_listeners = Free
  /\ m_clientListLocker' = IF m_clientListLocker = c THEN Free
                           ELSE m_clientListLocker
  /\ cpc' = [cpc EXCEPT ![c] = "left"]
  /\ UNCHANGED <<m_desktop, m_listeners>> /\ OnlyClient

--------------------------------------------------------------------------------
SetConfig(s) == BeginDeserialize(s) \/ EndDeserialize(s) \/ DeserializeFails(s)

SessionStep(s) ==
  \/ Save(s) \/ LoadPortMappingContainer(s) \/ LoadServerConfig(s)
  \/ NotifyReload(s) \/ CheckMainServer(s) \/ StopMainRfbServer(s)
  \/ StartMainRfbServer(s) \/ CheckExtraServers(s) \/ ShutDownExtra(s)
  \/ StartUpExtra(s) \/ RestartHttpServer(s) \/ Notified(s)

ClientStep(c) == CheckShared(c) \/ CreateDesktop(c) \/ DeleteDesktop(c)

RfbPorts == UNION {c.extraPorts \cup {c.rfbPort} : c \in Configs}
RfbAddresses == [host : {"localhost", "any"}, port : RfbPorts]

Next == \/ \E s \in Sessions : SetConfig(s) \/ Reload(s) \/ SessionStep(s)
        \/ \E a \in RfbAddresses : OnAcceptConnection(a) \/ AddNewConnection(a)
        \/ \E c \in Clients : OnClientAuth(c) \/ ValidateClientList(c)
                              \/ ClientStep(c)

\* Threads are scheduled and are granted a mutex that stays free; the peer that sets
\* the configuration sends the rest of it or leaves.
Fairness ==
  /\ \A s \in Sessions : /\ WF_vars(SessionStep(s))
                         /\ WF_vars(EndDeserialize(s) \/ DeserializeFails(s))
  /\ \A c \in Clients : WF_vars(ClientStep(c))
  /\ \A a \in RfbAddresses : WF_vars(AddNewConnection(a))

Spec == Init /\ [][Next]_vars /\ Fairness

--------------------------------------------------------------------------------
(* Properties.                                                             *)

\* No port passes from one kind of server to another, so that no server that
\* is started finds its port taken by one that is to be stopped after it.
DisjointPorts ==
  \A c, d \in Configs : /\ c.rfbPort \notin d.extraPorts
                        /\ d.httpPort \notin {c.rfbPort} \cup c.extraPorts

AtRest == ~torn /\ \A s \in Sessions : spc[s] = "idle"

\* When no thread is setting or loading the configuration, the servers that
\* run are those it asks for, whatever several threads have set and loaded at
\* a time.  (Configurator::load, TvnServer::onConfigReload)
ServersMatchConfig ==
  AtRest =>
    /\ m_rfbServer \subseteq MainWanted(m_serverConfig)
    /\ m_servers \subseteq ExtraWanted(m_serverConfig)
    /\ m_httpServer \subseteq HttpWanted(m_serverConfig)
    /\ DisjointPorts => /\ m_rfbServer = MainWanted(m_serverConfig)
                        /\ m_servers = ExtraWanted(m_serverConfig)
                        /\ m_httpServer = HttpWanted(m_serverConfig)

\* Every reload comes to its end: the server is deleted and the listeners are
\* unlocked.  (TcpServer::~TcpServer)
ReloadsEnd == \A s \in Sessions : (spc[s] = "notify") ~> (spc[s] = "idle")

\* The same, if no client creates the desktop while a server is being deleted.
Stopping == \E s \in Sessions : spc[s] \in {"stopMain", "stopExtra"}
Creating == \E c \in Clients : cpc[c] = "creating"

QuietReloadsEnd == []~(Stopping /\ Creating) => ReloadsEnd
================================================================================
