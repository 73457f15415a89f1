-------------------------- MODULE ConfigReload_proofs --------------------------
(***************************************************************************)
(* That the servers follow the configuration, for any number of threads    *)
(* that set and load it, any clients, configurations and bound.  What the  *)
(* threads share is put together from several configurations while one of  *)
(* them is at work; so the invariant says for each kind of server that it  *)
(* is right or that some thread has yet to come by.                        *)
(***************************************************************************)
EXTENDS ConfigReload, TLAPS

\* A configuration each part of which is one of somebody's.
MainPorts == {c.rfbPort : c \in Configs}
ExtraPortSets == {c.extraPorts : c \in Configs}
HttpPorts == {c.httpPort : c \in Configs}
Mixtures == [acceptRfb : BOOLEAN, loopbackOnly : BOOLEAN,
             rfbPort : MainPorts, extraPorts : ExtraPortSets,
             httpPort : HttpPorts]

\* What a thread passes before it has looked at each kind of server.
BeforeMain == {"save", "loadPorts", "loadRest", "notify", "main", "stopMain",
               "startMain"}
BeforeExtra == BeforeMain \cup {"extra", "stopExtra"}
BeforeHttp == BeforeExtra \cup {"http"}
Reloading == {"main", "stopMain", "startMain", "extra", "stopExtra", "http",
              "notified"}

Pending(labels) == torn \/ \E s \in Sessions : spc[s] \in labels

\* Servers are those that are wanted, unless another one has the port.
Are(servers, wanted) ==
  servers \subseteq wanted /\ (DisjointPorts => servers = wanted)

\* The extra servers of a configuration they were started for.
EffectiveServers ==
  IF m_effectiveConf.accept
  THEN {[host |-> IF m_effectiveConf.loopback THEN "localhost" ELSE "any",
         port |-> p] : p \in m_effectiveConf.ports}
  ELSE {}

\* One thread at a time reloads, and every part has its range.
SharedInv ==
  /\ m_serverConfig \in Mixtures /\ stored \in Mixtures
  /\ torn \in BOOLEAN
  /\ spc \in [Sessions -> SessionPC]
  /\ \A s \in Sessions : spc[s] \in Reloading => m_listeners = s
  /\ m_rfbServer \subseteq [host : {"localhost", "any"}, port : MainPorts]
  /\ m_servers \subseteq [host : {"localhost", "any"},
                          port : UNION ExtraPortSets]
  /\ m_httpServer \subseteq HttpPorts
  /\ m_effectiveConf \in [accept : BOOLEAN, loopback : BOOLEAN,
                          ports : ExtraPortSets]

ServersInv ==
  /\ (\E s \in Sessions : spc[s] = "startMain") => m_rfbServer = {}
  /\ Pending(BeforeMain) \/ Are(m_rfbServer, MainWanted(m_serverConfig))
  /\ \/ \E s \in Sessions : spc[s] = "stopExtra"
     \/ Are(m_servers, EffectiveServers)
  /\ Pending(BeforeExtra) \/ m_effectiveConf = ExtraConf(m_serverConfig)
  /\ Pending(BeforeHttp) \/ Are(m_httpServer, HttpWanted(m_serverConfig))

IInv == SharedInv /\ ServersInv

--------------------------------------------------------------------------------
\* The extra servers of a configuration are those it asks for.
LEMMA EffectiveIsWanted ==
  ASSUME NEW c \in Mixtures, m_effectiveConf = ExtraConf(c)
  PROVE  EffectiveServers = ExtraWanted(c)
BY DEF EffectiveServers, ExtraConf, ExtraWanted, Address, BindHost

\* A server that is looked at and left alone is the one that is wanted.
LEMMA UnchangedIsWanted ==
  ASSUME SharedInv, ~Changed(m_serverConfig)
  PROVE  m_rfbServer = MainWanted(m_serverConfig)
<1>1. \A a \in m_rfbServer :
        a = [host |-> BindHost(m_serverConfig), port |-> m_serverConfig.rfbPort]
  BY DEF SharedInv, Changed
<1>2. m_rfbServer # {} <=> m_serverConfig.acceptRfb
  BY DEF SharedInv, Changed, Mixtures
<1> QED
  BY <1>1, <1>2 DEF MainWanted, Address

\* The ports of another kind of server are no obstacle.
LEMMA PortsAreFree ==
  ASSUME SharedInv, DisjointPorts
  PROVE  /\ \A p \in MainPorts :
              /\ p \notin {a.port : a \in m_servers}
              /\ p \notin m_httpServer
         /\ \A p \in UNION ExtraPortSets :
              /\ p \notin {a.port : a \in m_rfbServer}
              /\ p \notin m_httpServer
         /\ \A p \in HttpPorts :
              p \notin {a.port : a \in m_servers \cup m_rfbServer}
<1>1. /\ \A a \in m_rfbServer : a.port \in MainPorts
      /\ \A a \in m_servers : a.port \in UNION ExtraPortSets
      /\ m_httpServer \subseteq HttpPorts
  BY DEF SharedInv
<1>2. \A p \in MainPorts : p \notin UNION ExtraPortSets /\ p \notin HttpPorts
  BY DEF DisjointPorts, MainPorts, ExtraPortSets, HttpPorts
<1>3. \A p \in UNION ExtraPortSets : p \notin HttpPorts
  <2>1. SUFFICES ASSUME NEW c \in Configs, NEW d \in Configs
                 PROVE  d.httpPort \notin c.extraPorts
    BY DEF ExtraPortSets, HttpPorts
  <2> QED
    BY DEF DisjointPorts
<1> HIDE DEF MainPorts, ExtraPortSets, HttpPorts
<1>4. \A a \in m_servers \cup m_rfbServer : a.port \notin HttpPorts
  BY <1>1, <1>2, <1>3
<1>5. \A a \in m_servers : a.port \notin MainPorts
  BY <1>1, <1>2
<1>6. \A a \in m_rfbServer : a.port \notin UNION ExtraPortSets
  BY <1>1, <1>2
<1> QED
  BY <1>1, <1>2, <1>3, <1>4, <1>5, <1>6

--------------------------------------------------------------------------------
LEMMA SharedStep ==
  ASSUME IInv, [Next]_vars
  PROVE  SharedInv'
<1>a. SharedInv
  BY DEF IInv
<1> USE DEF SharedInv, Goto, At, SessionPC, Reloading
<1>1. ASSUME NEW s \in Sessions, SetConfig(s) \/ Reload(s) PROVE SharedInv'
  <2>1. /\ UNCHANGED <<stored, m_listeners, serverVars>>
        /\ torn' \in BOOLEAN
        /\ \E label \in SessionPC \ Reloading : Goto(s, label)
    BY <1>1, <1>a
    DEF SetConfig, BeginDeserialize, EndDeserialize, DeserializeFails, Reload,
        configVars
  <2>2. m_serverConfig' \in Mixtures
    <3>1. Configs \subseteq Mixtures
      BY ConfigReloadAssumption
      DEF ConfigReloadAssumption, ServerConfig, Mixtures, MainPorts,
          ExtraPortSets, HttpPorts
    <3>2. CASE DeserializeFails(s)
      <4>1. PICK c \in Configs :
              m_serverConfig' = [m_serverConfig EXCEPT !.rfbPort = c.rfbPort]
        BY <3>2 DEF DeserializeFails
      <4>2. c.rfbPort \in MainPorts
        BY DEF MainPorts
      <4> QED
        BY <1>a, <4>1, <4>2 DEF Mixtures
    <3>3. CASE EndDeserialize(s)
      BY <3>1, <3>3 DEF EndDeserialize
    <3>4. CASE BeginDeserialize(s) \/ Reload(s)
      BY <1>a, <3>4 DEF BeginDeserialize, Reload, configVars
    <3> QED
      BY <1>1, <3>2, <3>3, <3>4 DEF SetConfig
  <2> QED
    BY <1>a, <2>1, <2>2 DEF serverVars
<1>2. ASSUME NEW s \in Sessions,
             Save(s) \/ LoadPortMappingContainer(s) \/ LoadServerConfig(s)
      PROVE  SharedInv'
  <2>1. /\ m_serverConfig' \in Mixtures /\ stored' \in Mixtures
        /\ torn' \in BOOLEAN
    BY <1>2, <1>a DEF Save, LoadPortMappingContainer, LoadServerConfig, Mixtures
  <2>2. /\ UNCHANGED <<m_listeners, serverVars>>
        /\ \E label \in SessionPC \ Reloading : Goto(s, label)
    BY <1>2 DEF Save, LoadPortMappingContainer, LoadServerConfig
  <2> QED
    BY <1>a, <2>1, <2>2 DEF serverVars
<1>3. ASSUME NEW s \in Sessions, NotifyReload(s) PROVE SharedInv'
  <2>1. /\ \A u \in Sessions : spc[u] \notin Reloading
        /\ m_listeners' = s /\ Goto(s, "main")
        /\ UNCHANGED <<configVars, serverVars>>
    BY <1>3, <1>a, ConfigReloadAssumption
    DEF NotifyReload, ConfigReloadAssumption, Owners
  <2> QED
    BY <1>a, <2>1 DEF configVars, serverVars
<1>4. ASSUME NEW s \in Sessions, CheckMainServer(s) \/ CheckExtraServers(s)
      PROVE  SharedInv'
  BY <1>4, <1>a DEF CheckMainServer, CheckExtraServers, configVars, serverVars
<1>5. ASSUME NEW s \in Sessions, StopMainRfbServer(s) PROVE SharedInv'
  BY <1>5, <1>a DEF StopMainRfbServer, configVars
<1>6. ASSUME NEW s \in Sessions, StartMainRfbServer(s) PROVE SharedInv'
  <2>1. m_rfbServer' \subseteq [host : {"localhost", "any"}, port : MainPorts]
    BY <1>6, <1>a
    DEF StartMainRfbServer, MainWanted, Address, BindHost, Mixtures
  <2> QED
    BY <1>6, <1>a, <2>1 DEF StartMainRfbServer, configVars
<1>7. ASSUME NEW s \in Sessions, ShutDownExtra(s) PROVE SharedInv'
  BY <1>7, <1>a DEF ShutDownExtra, configVars
<1>8. ASSUME NEW s \in Sessions, StartUpExtra(s) PROVE SharedInv'
  <2>1. m_servers' \subseteq [host : {"localhost", "any"},
                              port : UNION ExtraPortSets]
    BY <1>8, <1>a DEF StartUpExtra, ExtraWanted, Address, BindHost, Mixtures
  <2>2. m_effectiveConf' \in [accept : BOOLEAN, loopback : BOOLEAN,
                              ports : ExtraPortSets]
    BY <1>8, <1>a DEF StartUpExtra, ExtraConf, Mixtures
  <2> QED
    BY <1>8, <1>a, <2>1, <2>2 DEF StartUpExtra, configVars
<1>9. ASSUME NEW s \in Sessions, RestartHttpServer(s) PROVE SharedInv'
  <2>1. m_httpServer' \subseteq HttpPorts
    BY <1>9, <1>a DEF RestartHttpServer, HttpWanted, Mixtures
  <2> QED
    BY <1>9, <1>a, <2>1 DEF RestartHttpServer, configVars
<1>10. ASSUME NEW s \in Sessions, Notified(s) PROVE SharedInv'
  <2>1. /\ \A u \in Sessions \ {s} : spc[u] \notin Reloading
        /\ Goto(s, "idle") /\ UNCHANGED <<configVars, serverVars>>
    BY <1>10, <1>a DEF Notified
  <2> QED
    BY <1>a, <2>1 DEF configVars, serverVars
<1>11. ASSUME NEW a, OnAcceptConnection(a) \/ AddNewConnection(a)
       PROVE  SharedInv'
  BY <1>11, <1>a DEF OnAcceptConnection, AddNewConnection, configVars
<1>12. ASSUME NEW c \in Clients,
              OnClientAuth(c) \/ ValidateClientList(c) \/ ClientStep(c)
       PROVE  SharedInv'
  BY <1>12, <1>a
  DEF OnClientAuth, ValidateClientList, ClientStep, CheckShared, CreateDesktop,
      DeleteDesktop, OnlyClient, configVars, serverVars
<1>13. CASE UNCHANGED vars
  BY <1>13, <1>a DEF vars, configVars, serverVars
<1> QED
  BY <1>1, <1>2, <1>3, <1>4, <1>5, <1>6, <1>7, <1>8, <1>9, <1>10, <1>11, <1>12,
     <1>13
  DEF Next, SessionStep

--------------------------------------------------------------------------------
\* A step over which nobody passes a kind of server.
LeavesServers ==
  /\ UNCHANGED <<m_serverConfig, m_rfbServer, m_servers, m_effectiveConf,
                 m_httpServer>>
  /\ torn => torn'
  /\ \A s \in Sessions :
       /\ spc'[s] = "startMain" => spc[s] = "startMain"
       /\ spc[s] = "stopExtra" => spc'[s] = "stopExtra"
       /\ spc[s] \in BeforeMain => spc'[s] \in BeforeMain
       /\ spc[s] \in BeforeExtra => spc'[s] \in BeforeExtra
       /\ spc[s] \in BeforeHttp => spc'[s] \in BeforeHttp

LEMMA ServersLeft ==
  ASSUME ServersInv, LeavesServers
  PROVE  ServersInv'
<1>1. /\ Pending(BeforeMain) => Pending(BeforeMain)'
      /\ Pending(BeforeExtra) => Pending(BeforeExtra)'
      /\ Pending(BeforeHttp) => Pending(BeforeHttp)'
  BY DEF LeavesServers, Pending
<1>2. /\ (\E s \in Sessions : spc'[s] = "startMain") => m_rfbServer' = {}
      /\ (\E s \in Sessions : spc[s] = "stopExtra") =>
           \E s \in Sessions : spc'[s] = "stopExtra"
  BY DEF LeavesServers, ServersInv
<1>3. /\ MainWanted(m_serverConfig)' = MainWanted(m_serverConfig)
      /\ HttpWanted(m_serverConfig)' = HttpWanted(m_serverConfig)
      /\ ExtraConf(m_serverConfig)' = ExtraConf(m_serverConfig)
      /\ EffectiveServers' = EffectiveServers
  BY DEF LeavesServers, MainWanted, HttpWanted, ExtraConf, EffectiveServers,
         Address, BindHost
<1> QED
  BY <1>1, <1>2, <1>3 DEF ServersInv, Are, LeavesServers

\* A thread that has everything to look at still, or parts of two
\* configurations: the servers may be anything.
LEMMA ServersToCome ==
  ASSUME ServersInv,
         UNCHANGED <<m_rfbServer, m_servers, m_effectiveConf, m_httpServer>>,
         torn' \/ \E s \in Sessions : spc'[s] \in BeforeMain,
         \A s \in Sessions :
           /\ spc'[s] = "startMain" => spc[s] = "startMain"
           /\ spc[s] = "stopExtra" => spc'[s] = "stopExtra"
  PROVE  ServersInv'
<1>1. Pending(BeforeMain)' /\ Pending(BeforeExtra)' /\ Pending(BeforeHttp)'
  BY DEF Pending, BeforeExtra, BeforeHttp
<1>2. EffectiveServers' = EffectiveServers
  BY DEF EffectiveServers
<1> QED
  BY <1>1, <1>2 DEF ServersInv, Are

LEMMA ServersStep ==
  ASSUME IInv, [Next]_vars
  PROVE  ServersInv'
<1>a. SharedInv /\ ServersInv
  BY DEF IInv
<1>b. spc \in [Sessions -> SessionPC]
  BY <1>a DEF SharedInv
\* The thread that reloads is the only one that does.
<1>c. ASSUME NEW s \in Sessions, spc[s] \in Reloading
      PROVE  \A u \in Sessions \ {s} : spc[u] \notin Reloading
  BY <1>a, <1>c DEF SharedInv
<1>1. ASSUME NEW s \in Sessions, BeginDeserialize(s) PROVE ServersInv'
  <2>1. LeavesServers
    BY <1>1, <1>b
    DEF LeavesServers, BeginDeserialize, At, Goto, BeforeHttp, BeforeExtra,
        BeforeMain, serverVars
  <2> QED
    BY <1>a, <2>1, ServersLeft
<1>2. ASSUME NEW s \in Sessions,
             \/ EndDeserialize(s) \/ DeserializeFails(s) \/ Reload(s)
             \/ Save(s) \/ LoadPortMappingContainer(s) \/ LoadServerConfig(s)
             \/ NotifyReload(s)
      PROVE  ServersInv'
  <2>1. /\ UNCHANGED <<m_rfbServer, m_servers, m_effectiveConf, m_httpServer>>
        /\ torn' \/ spc'[s] \in BeforeMain
        /\ \A u \in Sessions \ {s} : UNCHANGED (spc[u])
        /\ spc'[s] # "startMain" /\ spc[s] # "stopExtra"
    BY <1>2, <1>b
    DEF EndDeserialize, DeserializeFails, Reload, Save,
        LoadPortMappingContainer, LoadServerConfig, NotifyReload, At, Goto,
        BeforeMain, serverVars
  <2> QED
    BY <1>a, <2>1, ServersToCome
<1>3. ASSUME NEW s \in Sessions, CheckMainServer(s) PROVE ServersInv'
  <2>1. /\ UNCHANGED <<configVars, serverVars>>
        /\ spc[s] = "main"
        /\ spc'[s] = IF Changed(m_serverConfig) THEN "stopMain" ELSE "extra"
        /\ \A u \in Sessions \ {s} : UNCHANGED (spc[u])
    BY <1>3, <1>b DEF CheckMainServer, At, Goto
  <2>2. CASE Changed(m_serverConfig)
    <3>1. LeavesServers
      BY <2>1, <2>2
      DEF LeavesServers, BeforeHttp, BeforeExtra, BeforeMain, configVars,
          serverVars
    <3> QED
      BY <1>a, <3>1, ServersLeft
  <2>3. CASE ~Changed(m_serverConfig)
    <3>1. Are(m_rfbServer, MainWanted(m_serverConfig))'
      BY <1>a, <2>1, <2>3, UnchangedIsWanted
      DEF Are, MainWanted, Address, BindHost, configVars, serverVars
    <3>2. Pending(BeforeExtra)' /\ Pending(BeforeHttp)'
      BY <2>1, <2>3 DEF Pending, BeforeHttp, BeforeExtra
    <3>3. /\ \A u \in Sessions : spc'[u] = "startMain" => spc[u] = "startMain"
          /\ \A u \in Sessions : spc[u] = "stopExtra" => spc'[u] = "stopExtra"
          /\ m_rfbServer' = m_rfbServer /\ m_servers' = m_servers
          /\ EffectiveServers' = EffectiveServers
      BY <2>1, <2>3 DEF serverVars, EffectiveServers
    <3> QED
      BY <1>a, <3>1, <3>2, <3>3 DEF ServersInv, Are
  <2> QED
    BY <2>2, <2>3
<1>4. ASSUME NEW s \in Sessions, StopMainRfbServer(s) PROVE ServersInv'
  <2>1. /\ m_rfbServer' = {} /\ spc[s] = "stopMain" /\ spc'[s] = "startMain"
        /\ \A u \in Sessions \ {s} : UNCHANGED (spc[u])
        /\ UNCHANGED <<m_servers, m_effectiveConf>>
    BY <1>4, <1>b DEF StopMainRfbServer, At, Goto
  <2>2. /\ Pending(BeforeMain)' /\ Pending(BeforeExtra)' /\ Pending(BeforeHttp)'
    BY <2>1 DEF Pending, BeforeHttp, BeforeExtra, BeforeMain
  <2>3. /\ \A u \in Sessions : spc[u] = "stopExtra" => spc'[u] = "stopExtra"
        /\ EffectiveServers' = EffectiveServers
    BY <2>1 DEF EffectiveServers
  <2> QED
    BY <1>a, <2>1, <2>2, <2>3 DEF ServersInv, Are
<1>5. ASSUME NEW s \in Sessions, StartMainRfbServer(s) PROVE ServersInv'
  <2>1. /\ spc[s] = "startMain" /\ spc'[s] = "extra"
        /\ \A u \in Sessions \ {s} : UNCHANGED (spc[u])
        /\ UNCHANGED <<configVars, m_servers, m_effectiveConf>>
        /\ m_rfbServer' = {a \in MainWanted(m_serverConfig) : a.port \notin Bound}
    BY <1>5, <1>b DEF StartMainRfbServer, At, Goto
  <2>2. \A u \in Sessions : spc'[u] # "startMain"
    BY <1>c, <2>1 DEF Reloading
  <2>3. Are(m_rfbServer, MainWanted(m_serverConfig))'
    <3>1. MainWanted(m_serverConfig)' = MainWanted(m_serverConfig)
      BY <2>1 DEF MainWanted, Address, BindHost, configVars
    <3>2. ASSUME DisjointPorts, NEW a \in MainWanted(m_serverConfig)
          PROVE  a.port \notin Bound
      <4>1. m_rfbServer = {}
        BY <1>a, <2>1 DEF ServersInv
      <4>2. a.port \in MainPorts
        BY <1>a DEF MainWanted, Address, SharedInv, Mixtures
      <4> QED
        BY <1>a, <3>2, <4>1, <4>2, PortsAreFree DEF Bound
    <3> QED
      BY <2>1, <3>1, <3>2 DEF Are
  <2>4. Pending(BeforeExtra)' /\ Pending(BeforeHttp)'
    BY <2>1 DEF Pending, BeforeHttp, BeforeExtra
  <2>5. /\ \A u \in Sessions : spc[u] = "stopExtra" => spc'[u] = "stopExtra"
        /\ EffectiveServers' = EffectiveServers
    BY <2>1 DEF EffectiveServers
  <2> QED
    BY <1>a, <2>1, <2>2, <2>3, <2>4, <2>5 DEF ServersInv, Are
<1>6. ASSUME NEW s \in Sessions, CheckExtraServers(s) PROVE ServersInv'
  <2>1. /\ UNCHANGED <<configVars, serverVars>>
        /\ spc[s] = "extra" /\ spc'[s] \in {"http", "stopExtra"}
        /\ spc'[s] = "http" => ExtraConf(m_serverConfig) = m_effectiveConf
        /\ \A u \in Sessions \ {s} : UNCHANGED (spc[u])
    BY <1>6, <1>b DEF CheckExtraServers, At, Goto
  <2>2. CASE spc'[s] = "stopExtra"
    <3>1. LeavesServers
      BY <2>1, <2>2
      DEF LeavesServers, BeforeHttp, BeforeExtra, BeforeMain, configVars,
          serverVars
    <3> QED
      BY <1>a, <3>1, ServersLeft
  <2>3. CASE spc'[s] = "http"
    <3>1. /\ Pending(BeforeMain) => Pending(BeforeMain)'
          /\ Pending(BeforeHttp)'
      BY <2>1, <2>3 DEF Pending, BeforeHttp, BeforeMain, configVars
    <3>2. /\ (m_effectiveConf = ExtraConf(m_serverConfig))'
          /\ MainWanted(m_serverConfig)' = MainWanted(m_serverConfig)
          /\ EffectiveServers' = EffectiveServers
      BY <2>1, <2>3
      DEF ExtraConf, MainWanted, Address, BindHost, EffectiveServers,
          configVars, serverVars
    <3>3. /\ \A u \in Sessions : spc'[u] = "startMain" => spc[u] = "startMain"
          /\ \A u \in Sessions : spc[u] = "stopExtra" => spc'[u] = "stopExtra"
          /\ m_rfbServer' = m_rfbServer /\ m_servers' = m_servers
      BY <2>1, <2>3 DEF serverVars
    <3> QED
      BY <1>a, <3>1, <3>2, <3>3 DEF ServersInv, Are
  <2> QED
    BY <2>1, <2>2, <2>3
<1>7. ASSUME NEW s \in Sessions, ShutDownExtra(s) PROVE ServersInv'
  <2>1. /\ spc[s] = "stopExtra"
        /\ UNCHANGED <<configVars, spc, m_rfbServer, m_effectiveConf,
                       m_httpServer>>
    BY <1>7 DEF ShutDownExtra, At
  <2>2. UNCHANGED <<Pending(BeforeMain), Pending(BeforeExtra),
                    Pending(BeforeHttp), MainWanted(m_serverConfig),
                    HttpWanted(m_serverConfig), ExtraConf(m_serverConfig)>>
    BY <2>1
    DEF Pending, MainWanted, HttpWanted, ExtraConf, Address, BindHost,
        configVars
  <2> QED
    BY <1>a, <2>1, <2>2 DEF ServersInv, Are
<1>8. ASSUME NEW s \in Sessions, StartUpExtra(s) PROVE ServersInv'
  <2>1. /\ spc[s] = "stopExtra" /\ spc'[s] = "http" /\ m_servers = {}
        /\ \A u \in Sessions \ {s} : UNCHANGED (spc[u])
        /\ UNCHANGED <<configVars, m_rfbServer, m_httpServer>>
        /\ m_effectiveConf' = ExtraConf(m_serverConfig)
        /\ m_servers' = {a \in ExtraWanted(m_serverConfig) : a.port \notin Bound}
    BY <1>8, <1>b DEF StartUpExtra, At, Goto
  <2>2. Are(m_servers, EffectiveServers)'
    <3>1. EffectiveServers' = ExtraWanted(m_serverConfig)
      BY <1>a, <2>1
      DEF EffectiveServers, ExtraConf, ExtraWanted, Address, BindHost,
          SharedInv, Mixtures
    <3>2. ASSUME DisjointPorts, NEW a \in ExtraWanted(m_serverConfig)
          PROVE  a.port \notin Bound
      <4>1. a.port \in UNION ExtraPortSets
        BY <1>a DEF ExtraWanted, Address, SharedInv, Mixtures
      <4> QED
        BY <1>a, <2>1, <3>2, <4>1, PortsAreFree DEF Bound
    <3> QED
      BY <2>1, <3>1, <3>2 DEF Are
  <2>3. /\ Pending(BeforeMain) => Pending(BeforeMain)'
        /\ Pending(BeforeHttp)'
    BY <2>1 DEF Pending, BeforeHttp, BeforeMain, configVars
  <2>4. /\ (m_effectiveConf = ExtraConf(m_serverConfig))'
        /\ MainWanted(m_serverConfig)' = MainWanted(m_serverConfig)
        /\ \A u \in Sessions : spc'[u] = "startMain" => spc[u] = "startMain"
    BY <2>1 DEF ExtraConf, MainWanted, Address, BindHost, configVars
  <2> QED
    BY <1>a, <2>1, <2>2, <2>3, <2>4 DEF ServersInv, Are
<1>9. ASSUME NEW s \in Sessions, RestartHttpServer(s) PROVE ServersInv'
  <2>1. /\ spc[s] = "http" /\ spc'[s] = "notified"
        /\ \A u \in Sessions \ {s} : UNCHANGED (spc[u])
        /\ UNCHANGED <<configVars, m_rfbServer, m_servers, m_effectiveConf>>
        /\ \/ m_httpServer' = HttpWanted(m_serverConfig)
           \/ m_httpServer' = {p \in HttpWanted(m_serverConfig) :
                                 p \notin Bound \ m_httpServer}
    BY <1>9, <1>b DEF RestartHttpServer, At, Goto
  <2>2. Are(m_httpServer, HttpWanted(m_serverConfig))'
    <3>1. HttpWanted(m_serverConfig)' = HttpWanted(m_serverConfig)
      BY <2>1 DEF HttpWanted, configVars
    <3>2. ASSUME DisjointPorts, NEW p \in HttpWanted(m_serverConfig)
          PROVE  p \notin Bound \ m_httpServer
      <4>1. p \in HttpPorts
        BY <1>a DEF HttpWanted, SharedInv, Mixtures
      <4> QED
        BY <1>a, <3>2, <4>1, PortsAreFree DEF Bound
    <3> QED
      BY <2>1, <3>1, <3>2 DEF Are
  <2>3. /\ Pending(BeforeMain) => Pending(BeforeMain)'
        /\ Pending(BeforeExtra) => Pending(BeforeExtra)'
    BY <2>1 DEF Pending, BeforeExtra, BeforeMain, configVars
  <2>4. /\ MainWanted(m_serverConfig)' = MainWanted(m_serverConfig)
        /\ ExtraConf(m_serverConfig)' = ExtraConf(m_serverConfig)
        /\ EffectiveServers' = EffectiveServers
        /\ \A u \in Sessions : spc'[u] = "startMain" => spc[u] = "startMain"
        /\ \A u \in Sessions : spc[u] = "stopExtra" => spc'[u] = "stopExtra"
    BY <2>1
    DEF ExtraConf, MainWanted, EffectiveServers, Address, BindHost, configVars
  <2> QED
    BY <1>a, <2>1, <2>2, <2>3, <2>4 DEF ServersInv, Are
<1>10. ASSUME NEW s \in Sessions, Notified(s) PROVE ServersInv'
  <2>1. LeavesServers
    BY <1>10, <1>b
    DEF LeavesServers, Notified, At, Goto, BeforeHttp, BeforeExtra,
        BeforeMain, configVars, serverVars
  <2> QED
    BY <1>a, <2>1, ServersLeft
<1>11. ASSUME \/ \E a \in RfbAddresses :
                   OnAcceptConnection(a) \/ AddNewConnection(a)
              \/ \E c \in Clients : OnClientAuth(c) \/ ValidateClientList(c)
                                    \/ ClientStep(c)
              \/ UNCHANGED vars
       PROVE  ServersInv'
  <2>1. UNCHANGED <<configVars, spc, m_rfbServer, m_servers, m_effectiveConf,
                    m_httpServer>>
    BY <1>11
    DEF OnAcceptConnection, AddNewConnection, OnClientAuth, ValidateClientList,
        ClientStep, CheckShared, CreateDesktop, DeleteDesktop, OnlyClient,
        serverVars, vars
  <2>2. LeavesServers
    BY <2>1 DEF LeavesServers, configVars
  <2> QED
    BY <1>a, <2>2, ServersLeft
<1> QED
  BY <1>1, <1>2, <1>3, <1>4, <1>5, <1>6, <1>7, <1>8, <1>9, <1>10, <1>11
  DEF Next, SetConfig, SessionStep

(* When no thread is at work with the configuration, and none has left it   *)
(* half read, the servers that run are those it asks for: in whatever order *)
(* the threads have set, saved, loaded and told it, the last one that came  *)
(* by each kind of server has seen the configuration as it is.              *)
THEOREM ServersFollow == Spec => []ServersMatchConfig
<1>1. Init => IInv
  <2>1. SUFFICES ASSUME Init PROVE IInv
    OBVIOUS
  <2>2. m_serverConfig \in Mixtures
    BY <2>1, ConfigReloadAssumption
    DEF Init, ConfigReloadAssumption, ServerConfig, Mixtures, MainPorts,
        ExtraPortSets, HttpPorts
  <2>3. EffectiveServers = ExtraWanted(m_serverConfig)
    BY <2>1, <2>2, EffectiveIsWanted DEF Init
  <2>4. SharedInv
    <3>1. m_effectiveConf \in [accept : BOOLEAN, loopback : BOOLEAN,
                               ports : ExtraPortSets]
      BY <2>1, <2>2 DEF Init, ExtraConf, Mixtures
    <3>2. m_servers \subseteq [host : {"localhost", "any"},
                               port : UNION ExtraPortSets]
      BY <2>1, <2>2 DEF Init, ExtraWanted, Address, BindHost, Mixtures
    <3>3. m_rfbServer \subseteq [host : {"localhost", "any"}, port : MainPorts]
      BY <2>1, <2>2 DEF Init, MainWanted, Address, BindHost, Mixtures
    <3>4. m_httpServer \subseteq HttpPorts
      BY <2>1, <2>2 DEF Init, HttpWanted, Mixtures
    <3> QED
      BY <2>1, <2>2, <3>1, <3>2, <3>3, <3>4
      DEF Init, SharedInv, SessionPC, Reloading
  <2>5. ServersInv
    BY <2>1, <2>3 DEF Init, ServersInv, Are
  <2> QED
    BY <2>4, <2>5 DEF IInv
<1>2. IInv /\ [Next]_vars => IInv'
  BY SharedStep, ServersStep DEF IInv
<1>3. IInv => ServersMatchConfig
  <2>1. SUFFICES ASSUME IInv, AtRest
                 PROVE  /\ Are(m_rfbServer, MainWanted(m_serverConfig))
                        /\ Are(m_servers, ExtraWanted(m_serverConfig))
                        /\ Are(m_httpServer, HttpWanted(m_serverConfig))
    BY DEF ServersMatchConfig, Are
  <2>2. /\ ~Pending(BeforeMain) /\ ~Pending(BeforeExtra) /\ ~Pending(BeforeHttp)
        /\ \A s \in Sessions : spc[s] # "stopExtra"
    BY <2>1 DEF AtRest, Pending, BeforeMain, BeforeExtra, BeforeHttp
  <2>3. EffectiveServers = ExtraWanted(m_serverConfig)
    BY <2>1, <2>2, EffectiveIsWanted DEF IInv, SharedInv, ServersInv
  <2> QED
    BY <2>1, <2>2, <2>3 DEF IInv, ServersInv
<1> QED
  BY <1>1, <1>2, <1>3, PTL DEF Spec
================================================================================
