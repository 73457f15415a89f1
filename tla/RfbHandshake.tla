---------------------------- MODULE RfbHandshake ----------------------------
(***************************************************************************)
(* The first phases of an RFB connection, both ends: the version, the      *)
(* security type, the authentication with its ban list and access rules,   *)
(* and the initialization messages.  The server end is RfbInitializer with *)
(* the callbacks of RfbClientManager, the viewer end RemoteViewerCore; the *)
(* connections come from one address, so they share one ban entry, and the *)
(* configuration of the server may change between any two steps.           *)
(*                                                                         *)
(* A message is its name and a set that holds what the other end looks at. *)
(* Clients of version 3.3 and 3.7 read as RemoteViewerCore does for that   *)
(* version; one that is not `tight' does not know the extensions and may   *)
(* answer the list with any type, offered or not.                          *)
(***************************************************************************)
EXTENDS Integers, Sequences, FiniteSets

CONSTANTS
    Conns,              \* connections of the one address
    Kinds,              \* the clients: minor version, and the extensions or not
    Configurations,     \* what the configuration of the server is at first
    MAX_BAN_COUNT,      \* RfbClientManager::MAX_BAN_COUNT
    MaxSessions,        \* bound: connections made in all
    MaxConfigChanges    \* bound: changes of the configuration

Passwords == {"primary", "readonly"}
Actions == {"allow", "deny", "query"}
AllConfigurations ==
    [using : BOOLEAN, passwords : SUBSET Passwords, action : Actions]

AllKinds == {k \in [minor : {3, 7, 8}, tight : BOOLEAN] : k.tight => k.minor >= 7}

ASSUME HandshakeAssumption ==
    /\ IsFiniteSet(Conns) /\ Conns # {}
    /\ Kinds \subseteq AllKinds
    /\ Configurations \subseteq AllConfigurations
    /\ MAX_BAN_COUNT \in Nat \ {0}
    /\ MaxSessions \in Nat
    /\ MaxConfigChanges \in Nat

VARIABLES
    spc,        \* server end: what RfbClient::execute() does next
    vpc,        \* viewer end: what RemoteViewerCore::execute() reads next
    toServer,   \* bytes on their way, as whole messages
    toViewer,
    client,     \* the client of a connection: version, extensions, what was typed
    server,     \* what RfbInitializer knows of the connection
    config,     \* ServerConfig: authentication, passwords, action for the address
    ban,        \* m_banList: count of the address, NoEntry when it has none
    wrong,      \* wrong passwords since the entry last went away
    sessions,   \* connections made so far
    changes     \* changes of the configuration so far

ends == <<spc, vpc>>
channels == <<toServer, toViewer>>
peers == <<client, server>>
bans == <<ban, wrong>>
bounds == <<sessions, changes>>
vars == <<ends, channels, peers, config, bans, bounds>>

NoEntry == -1

\* SecurityDefs and AuthDefs: the code gives both the same numbers.
NONE == "none"
VNC == "vnc"
TIGHT == "tight"

Msg(name, contents) == [name |-> name, has |-> contents]

NoClient == [minor |-> 8, tight |-> FALSE]

NewServer == [minor |-> 8, prim |-> NONE, auth |-> NONE, tight |-> FALSE,
              typed |-> "nothing", viewOnly |-> FALSE, off |-> FALSE]

ServerStages == {"closed", "version", "select", "authSelect", "response",
                 "verify", "access", "clientInit", "normal"}

ViewerStages == {"closed", "version", "types", "tunnels", "authCaps",
                 "challenge", "result", "reason", "serverInit", "caps",
                 "connected"}

MsgNames == {"version", "secTypes", "secType", "refused", "reason", "select",
             "tunnels", "authCaps", "authSelect", "challenge", "response",
             "result", "clientInit", "serverInit", "caps"}

Init ==
    /\ spc = [c \in Conns |-> "closed"]
    /\ vpc = [c \in Conns |-> "closed"]
    /\ toServer = [c \in Conns |-> <<>>]
    /\ toViewer = [c \in Conns |-> <<>>]
    /\ client = [c \in Conns |-> NoClient]
    /\ server = [c \in Conns |-> NewServer]
    /\ config \in Configurations
    /\ ban = NoEntry /\ wrong = 0
    /\ sessions = 0 /\ changes = 0

-----------------------------------------------------------------------------
\* Reading and writing.  A read takes the next message; what is written stays
\* readable after the writer has closed its end.

Hears(channel, c, names) ==
    channel[c] # <<>> /\ Head(channel[c]).name \in names

\* What the next message holds, when it is one thing.
Said(channel, c) == CHOOSE x \in Head(channel[c]).has : TRUE

Server(c, stage) == spc' = [spc EXCEPT ![c] = stage]

\* What is known of a client goes with it.
Viewer(c, stage) ==
    /\ vpc' = [vpc EXCEPT ![c] = stage]
    /\ client' = IF stage = "closed" THEN [client EXCEPT ![c] = NoClient]
                                     ELSE client

\* RfbClient is deleted with what it knows of the connection.
ServerCloses(c) ==
    /\ Server(c, "closed")
    /\ server' = [server EXCEPT ![c] = NewServer]

\* The server takes the next message and writes these.
ServerTakes(c, out) ==
    /\ toServer' = [toServer EXCEPT ![c] = Tail(@)]
    /\ toViewer' = [toViewer EXCEPT ![c] = @ \o out]

ServerWrites(c, out) ==
    /\ toViewer' = [toViewer EXCEPT ![c] = @ \o out]
    /\ UNCHANGED toServer

ViewerTakes(c, out) ==
    /\ toViewer' = [toViewer EXCEPT ![c] = Tail(@)]
    /\ toServer' = [toServer EXCEPT ![c] = @ \o out]

-----------------------------------------------------------------------------
\* The ban list.  refreshBan() runs before every use, so that an entry whose
\* time is over is gone for every reader at once.

IsBannedLate == ban # NoEntry /\ ban > MAX_BAN_COUNT

IsBanned == ban # NoEntry /\ ban >= MAX_BAN_COUNT

AuthFailedTwice ==
    /\ ban' = IF ban = NoEntry THEN 0 ELSE ban + 2
    /\ wrong' = wrong + 1

\* The entry of a first failure counts zero.
AuthFailed ==
    /\ ban' = IF ban = NoEntry THEN 0 ELSE ban + 1
    /\ wrong' = wrong + 1

AuthSucceeded == ban' = NoEntry /\ wrong' = 0

BanExpires ==
    /\ ban # NoEntry
    /\ ban' = NoEntry /\ wrong' = 0
    /\ UNCHANGED <<ends, channels, peers, config, bounds>>

-----------------------------------------------------------------------------
\* The server.

\* A connection is accepted unless a rule denies its address.  Its client
\* sends nothing before it has the version of the server.
Accept(c) ==
    /\ spc[c] = "closed" /\ vpc[c] = "closed"
    /\ sessions < MaxSessions
    /\ sessions' = sessions + 1
    /\ config.action # "deny"
    /\ \E kind \in Kinds : client' = [client EXCEPT ![c] = kind]
    /\ Server(c, "version")
    /\ vpc' = [vpc EXCEPT ![c] = "version"]
    /\ toServer' = [toServer EXCEPT ![c] = <<>>]
    /\ toViewer' = [toViewer EXCEPT ![c] = <<Msg("version", {})>>]
    /\ UNCHANGED <<server, config, bans, changes>>

\* An AuthException: only a client of 3.8 is told.
Failure(c) ==
    IF server[c].minor >= 8
    THEN <<Msg("result", {"failed"}), Msg("reason", {})>>
    ELSE <<>>

\* doAuth() up to its first wait: what it writes and where it waits.
AuthOffer(type) == IF type = VNC THEN <<Msg("challenge", {})>> ELSE <<>>
AuthStage(type) == IF type = VNC THEN "response" ELSE "access"

PrimSecType == IF config.using THEN VNC ELSE NONE

\* A banned address is refused in the form of its version; then the list of
\* security types, or for 3.3 the one type and its authentication.
ReadVersion(c) ==
    LET prim == PrimSecType
        minor == Said(toServer, c)
        refused == <<Msg("refused", {}), Msg("reason", {})>> IN
    /\ spc[c] = "version" /\ Hears(toServer, c, {"version"})
    /\ IF IsBanned
       THEN /\ ServerTakes(c, refused)
            /\ ServerCloses(c)
       ELSE IF minor >= 7
       THEN /\ ServerTakes(c, <<Msg("secTypes", {prim, TIGHT})>>)
            /\ Server(c, "select")
            /\ server' = [server EXCEPT ![c].minor = minor, ![c].prim = prim]
       ELSE /\ ServerTakes(c, <<Msg("secType", {prim})>> \o AuthOffer(prim))
            /\ Server(c, AuthStage(prim))
            /\ server' = [server EXCEPT ![c].minor = minor, ![c].prim = prim,
                                        ![c].auth = prim,
                                        ![c].off = ~config.using]
    /\ UNCHANGED <<vpc, client, config, bans, bounds>>

MaySelectAny(c, type) == TRUE

\* The client may take the type of the configuration or the extensions, and
\* any other answer ends the connection.
MaySelect(c, type) == type = server[c].prim

\* With the extensions the configuration is read a second time.
ReadSelection(c) ==
    LET type == Said(toServer, c)
        tunnels == <<Msg("tunnels", {})>> IN
    /\ spc[c] = "select" /\ Hears(toServer, c, {"select"})
    /\ \/ /\ type = TIGHT /\ config.using
          /\ ServerTakes(c, tunnels \o <<Msg("authCaps", {VNC})>>)
          /\ Server(c, "authSelect")
          /\ server' = [server EXCEPT ![c].tight = TRUE]
       \/ /\ type = TIGHT /\ ~config.using
          /\ ServerTakes(c, tunnels \o <<Msg("authCaps", {})>>)
          /\ Server(c, "access")
          /\ server' = [server EXCEPT ![c].tight = TRUE, ![c].auth = NONE,
                                      ![c].off = TRUE]
       \/ /\ type # TIGHT /\ MaySelect(c, type)
          /\ ServerTakes(c, AuthOffer(type))
          /\ Server(c, AuthStage(type))
          /\ server' = [server EXCEPT ![c].auth = type,
                                      ![c].off = (server[c].prim = NONE)]
       \/ /\ type # TIGHT /\ ~MaySelect(c, type)
          /\ ServerTakes(c, <<>>)
          /\ ServerCloses(c)
    /\ UNCHANGED <<vpc, client, config, bans, bounds>>

\* The only capability offered is VNC, and a client selects one of those.
ReadAuthSelection(c) ==
    /\ spc[c] = "authSelect" /\ Hears(toServer, c, {"authSelect"})
    /\ ServerTakes(c, AuthOffer(VNC))
    /\ Server(c, AuthStage(VNC))
    /\ server' = [server EXCEPT ![c].auth = VNC]
    /\ UNCHANGED <<vpc, client, config, bans, bounds>>

\* The ban is checked again once the response is there, however long the user
\* took to type it.
ReadResponse(c) ==
    /\ spc[c] = "response" /\ Hears(toServer, c, {"response"})
    /\ IF IsBanned
       THEN ServerTakes(c, Failure(c)) /\ ServerCloses(c)
       ELSE /\ ServerTakes(c, <<>>) /\ Server(c, "verify")
            /\ server' = [server EXCEPT ![c].typed = Said(toServer, c)]
    /\ UNCHANGED <<vpc, client, config, bans, bounds>>

\* A password of the configuration lets the client go on, the second one to
\* watch only.  With none set the failure is not the client's and not counted.
Verify(c) ==
    LET typed == server[c].typed IN
    /\ spc[c] = "verify"
    /\ \/ /\ typed \in config.passwords
          /\ server' = [server EXCEPT ![c].viewOnly = (typed = "readonly")]
          /\ Server(c, "access")
          /\ UNCHANGED <<channels, bans>>
       \/ /\ typed \notin config.passwords
          /\ ServerWrites(c, Failure(c))
          /\ ServerCloses(c)
          /\ IF config.passwords = {} THEN UNCHANGED bans ELSE AuthFailed
    /\ UNCHANGED <<vpc, client, config, bounds>>

SendsResultFrom8(c) == server[c].minor >= 8

SendsResultAlways(c) == TRUE

\* Whether a result follows the authentication.
SendsResult(c) == server[c].minor >= 8 \/ server[c].auth # NONE

\* onCheckAccessControl(): the person at the server may be asked, and only
\* then can the client be refused; a rule that denies is not looked at again.
CheckAccess(c) ==
    /\ spc[c] = "access"
    /\ \/ /\ ServerWrites(c, IF SendsResult(c) THEN <<Msg("result", {"ok"})>>
                                               ELSE <<>>)
          /\ Server(c, "clientInit") /\ UNCHANGED server
       \/ /\ config.action = "query"
          /\ ServerWrites(c, Failure(c))
          /\ ServerCloses(c)
    /\ UNCHANGED <<vpc, client, config, bans, bounds>>

\* onClientAuth() removes the ban, even of a banned address; then the client
\* is refused for the sake of those that are there, or gets ServerInit and,
\* with the extensions, the capabilities.
ReadClientInit(c) ==
    /\ spc[c] = "clientInit" /\ Hears(toServer, c, {"clientInit"})
    /\ AuthSucceeded
    /\ \/ /\ ServerTakes(c, <<Msg("serverInit", {})>> \o
                            IF server[c].tight THEN <<Msg("caps", {})>>
                                               ELSE <<>>)
          /\ Server(c, "normal") /\ UNCHANGED server
       \/ ServerTakes(c, <<>>) /\ ServerCloses(c)
    /\ UNCHANGED <<vpc, client, config, bounds>>

\* A read of the server fails once the client has closed its end.
ServerReadFails(c) ==
    /\ spc[c] \notin {"closed", "verify", "access"}
    /\ vpc[c] = "closed" /\ toServer[c] = <<>>
    /\ ServerCloses(c)
    /\ UNCHANGED <<vpc, channels, client, config, bans, bounds>>

\* A client that is served may be disconnected at any time.
Disconnect(c) ==
    /\ spc[c] = "normal"
    /\ ServerCloses(c)
    /\ UNCHANGED <<vpc, channels, client, config, bans, bounds>>

-----------------------------------------------------------------------------
\* The viewer.

\* The version of the server is answered with the client's own.
AnswerVersion(c) ==
    /\ vpc[c] = "version" /\ Hears(toViewer, c, {"version"})
    /\ ViewerTakes(c, <<Msg("version", {client[c].minor})>>)
    /\ Viewer(c, "types")
    /\ UNCHANGED <<spc, server, config, bans, bounds>>

\* Where the viewer waits once the type of authentication is known.
AfterType(c, type) ==
    CASE type = VNC -> "challenge"
      [] type = NONE /\ client[c].minor >= 8 -> "result"
      [] OTHER -> "serverInit"

\* Without a challenge and a result the next thing it does is to send
\* ClientInit.
InitIfDone(stage) ==
    IF stage = "serverInit" THEN <<Msg("clientInit", {})>> ELSE <<>>

\* A zero instead of a type: the reason follows for 3.8 only.
ReadRefusal(c) ==
    /\ vpc[c] = "types" /\ Hears(toViewer, c, {"refused"})
    /\ ViewerTakes(c, <<>>)
    /\ Viewer(c, IF client[c].minor >= 8 THEN "reason" ELSE "closed")
    /\ UNCHANGED <<spc, server, config, bans, bounds>>

\* Version 3.3: the server has chosen the type.
ReadType(c) ==
    /\ vpc[c] = "types" /\ Hears(toViewer, c, {"secType"})
    /\ \E type \in Head(toViewer[c]).has :
         LET stage == AfterType(c, type) IN
         ViewerTakes(c, InitIfDone(stage)) /\ Viewer(c, stage)
    /\ UNCHANGED <<spc, server, config, bans, bounds>>

\* The extensions when the client knows them, else a type, not necessarily
\* one of the list.
SelectType(c) ==
    /\ vpc[c] = "types" /\ Hears(toViewer, c, {"secTypes"})
    /\ \/ /\ client[c].tight
          /\ ViewerTakes(c, <<Msg("select", {TIGHT})>>)
          /\ Viewer(c, "tunnels")
       \/ /\ ~client[c].tight
          /\ \E type \in {NONE, VNC} :
               LET stage == AfterType(c, type) IN
               /\ ViewerTakes(c, <<Msg("select", {type})>> \o InitIfDone(stage))
               /\ Viewer(c, stage)
    /\ UNCHANGED <<spc, server, config, bans, bounds>>

\* initTunnelling(): the server offers none.
ReadTunnels(c) ==
    /\ vpc[c] = "tunnels" /\ Hears(toViewer, c, {"tunnels"})
    /\ ViewerTakes(c, <<>>)
    /\ Viewer(c, "authCaps")
    /\ UNCHANGED <<spc, server, config, bans, bounds>>

\* initAuthentication(): no capability means no authentication, else the
\* first one is selected.
ReadAuthCaps(c) ==
    LET offered == Head(toViewer[c]).has IN
    /\ vpc[c] = "authCaps" /\ Hears(toViewer, c, {"authCaps"})
    /\ LET type == IF offered = {} THEN NONE ELSE VNC
           stage == AfterType(c, type) IN
       /\ ViewerTakes(c, IF offered = {} THEN InitIfDone(stage)
                         ELSE <<Msg("authSelect", {type})>>)
       /\ Viewer(c, stage)
    /\ UNCHANGED <<spc, server, config, bans, bounds>>

\* The password is asked for, and the dialog may be cancelled.
AnswerChallenge(c) ==
    /\ vpc[c] = "challenge" /\ Hears(toViewer, c, {"challenge"})
    /\ \/ \E typed \in Passwords \cup {"wrong"} :
            ViewerTakes(c, <<Msg("response", {typed})>>) /\ Viewer(c, "result")
       \/ ViewerTakes(c, <<>>) /\ Viewer(c, "closed")
    /\ UNCHANGED <<spc, server, config, bans, bounds>>

\* A good result is followed by ClientInit, a bad one for 3.8 by the reason.
ReadResult(c) ==
    /\ vpc[c] = "result" /\ Hears(toViewer, c, {"result"})
    /\ IF Head(toViewer[c]).has = {"ok"}
       THEN ViewerTakes(c, InitIfDone("serverInit")) /\ Viewer(c, "serverInit")
       ELSE /\ ViewerTakes(c, <<>>)
            /\ Viewer(c, IF client[c].minor >= 8 THEN "reason" ELSE "closed")
    /\ UNCHANGED <<spc, server, config, bans, bounds>>

ReadReason(c) ==
    /\ vpc[c] = "reason" /\ Hears(toViewer, c, {"reason"})
    /\ ViewerTakes(c, <<>>)
    /\ Viewer(c, "closed")
    /\ UNCHANGED <<spc, server, config, bans, bounds>>

\* The capabilities follow when the viewer has selected the extensions.
ReadServerInit(c) ==
    /\ vpc[c] = "serverInit" /\ Hears(toViewer, c, {"serverInit"})
    /\ ViewerTakes(c, <<>>)
    /\ Viewer(c, IF client[c].tight THEN "caps" ELSE "connected")
    /\ UNCHANGED <<spc, server, config, bans, bounds>>

ReadCaps(c) ==
    /\ vpc[c] = "caps" /\ Hears(toViewer, c, {"caps"})
    /\ ViewerTakes(c, <<>>)
    /\ Viewer(c, "connected")
    /\ UNCHANGED <<spc, server, config, bans, bounds>>

\* A read of the viewer fails once the server has closed and nothing is left.
ViewerReadFails(c) ==
    /\ vpc[c] # "closed"
    /\ spc[c] = "closed" /\ toViewer[c] = <<>>
    /\ Viewer(c, "closed")
    /\ UNCHANGED <<spc, channels, server, config, bans, bounds>>

\* A viewer that is connected may be stopped at any time.
Stop(c) ==
    /\ vpc[c] = "connected"
    /\ Viewer(c, "closed")
    /\ UNCHANGED <<spc, channels, server, config, bans, bounds>>

\* The configuration is changed, at any time.
ChangeConfig ==
    /\ changes < MaxConfigChanges
    /\ changes' = changes + 1
    /\ \/ config' = [config EXCEPT !.using = ~@]
       \/ \E p \in SUBSET Passwords : config' = [config EXCEPT !.passwords = p]
       \/ \E a \in Actions : config' = [config EXCEPT !.action = a]
    /\ UNCHANGED <<ends, channels, peers, bans, sessions>>
-----------------------------------------------------------------------------
ServerStep(c) ==
    \/ ReadVersion(c) \/ ReadSelection(c) \/ ReadAuthSelection(c)
    \/ ReadResponse(c) \/ Verify(c) \/ CheckAccess(c) \/ ReadClientInit(c)
    \/ ServerReadFails(c)

ViewerStep(c) ==
    \/ AnswerVersion(c) \/ ReadRefusal(c) \/ ReadType(c) \/ SelectType(c)
    \/ ReadTunnels(c) \/ ReadAuthCaps(c) \/ AnswerChallenge(c)
    \/ ReadResult(c) \/ ReadReason(c) \/ ReadServerInit(c) \/ ReadCaps(c)
    \/ ViewerReadFails(c)

Next ==
    \/ \E c \in Conns : \/ Accept(c) \/ ServerStep(c) \/ Disconnect(c)
                         \/ ViewerStep(c) \/ Stop(c)
    \/ BanExpires
    \/ ChangeConfig

Spec == Init /\ [][Next]_vars

\* Each end is a thread that reads what has come; the password dialog and the
\* question at the server are answered in the end (the second has a timeout).
LiveSpec ==
    /\ Spec
    /\ \A c \in Conns : WF_vars(ServerStep(c)) /\ WF_vars(ViewerStep(c))

-----------------------------------------------------------------------------
\* The types of the state; the count of an address is never more than the
\* connections it has made.
HandshakeTypeOK ==
    /\ spc \in [Conns -> ServerStages]
    /\ vpc \in [Conns -> ViewerStages]
    /\ client \in [Conns -> AllKinds]
    /\ server \in [Conns -> [minor : {3, 7, 8},
                            typed : Passwords \cup {"wrong", "nothing"},
                            prim : {NONE, VNC}, auth : {NONE, VNC},
                            tight : BOOLEAN, viewOnly : BOOLEAN,
                            off : BOOLEAN]]
    /\ \A c \in Conns, channel \in {toServer, toViewer} :
         \A i \in DOMAIN channel[c] : channel[c][i].name \in MsgNames
    /\ config \in AllConfigurations
    /\ ban \in {NoEntry} \cup 0..sessions
    /\ wrong \in 0..sessions
    /\ sessions \in 0..MaxSessions
    /\ changes \in 0..MaxConfigChanges

ServerExpects(stage) ==
    CASE stage = "version" -> {"version"}
      [] stage = "select" -> {"select"}
      [] stage = "authSelect" -> {"authSelect"}
      [] stage = "response" -> {"response"}
      [] stage \in {"access", "clientInit", "verify"} -> {"clientInit"}
      [] OTHER -> {}

ViewerExpects(stage) ==
    CASE stage = "types" -> {"secTypes", "secType", "refused"}
      [] stage \in {"closed", "connected"} -> {}
      [] OTHER -> {stage}

\* Whatever the versions, the extensions and the changes of the configuration
\* meanwhile, the next message for each end is one it is about to read, and
\* none is left when the viewer enters the main phase: a byte too many or too
\* few there would be taken for a message of the protocol.
InStep ==
    \A c \in Conns :
        /\ spc[c] # "closed" /\ toServer[c] # <<>> =>
              Head(toServer[c]).name \in ServerExpects(spc[c])
        /\ vpc[c] # "closed" /\ toViewer[c] # <<>> =>
              Head(toViewer[c]).name \in ViewerExpects(vpc[c])

\* A client gets past the authentication with the rights of the password it
\* has typed, or because the server was told to ask for none when it decided:
\* no version, selection or change in between gives it others.
RightsFollowThePassword ==
    \A c \in Conns :
        spc[c] \in {"access", "clientInit", "normal"} =>
            IF server[c].off
            THEN ~server[c].viewOnly
            ELSE /\ server[c].typed \in Passwords
                 /\ server[c].viewOnly = (server[c].typed = "readonly")

\* Between two successes an address has at most one wrong guess more than the
\* ban allows, and one for each other connection that was past the check.
GuessesAreBounded == wrong <= MAX_BAN_COUNT + Cardinality(Conns)

Settled(c) ==
    spc[c] \in {"closed", "normal"} /\ vpc[c] \in {"closed", "connected"}

\* Neither end waits for ever for the other: every handshake comes to an end,
\* with the client served or both ends closed.
HandshakeEnds == \A c \in Conns : ~Settled(c) ~> Settled(c)
=============================================================================
