-------------------------- MODULE RfbHandshake_proofs --------------------------
(* Theorems about RfbHandshake, for any connections, clients and bounds.   *)
EXTENDS RfbHandshake, FiniteSetTheorems, SequenceTheorems, TLAPS

--------------------------------------------------------------------------------
(* Wrong guesses.                                                          *)

\* Connections that are past the second look at the ban list.
Past == {c \in Conns : spc[c] = "verify"}

\* The entry counts from zero; and each connection that is past the check may
\* still add a wrong guess to those that the ban allows.
GuessInv ==
  /\ spc \in [Conns -> ServerStages]
  /\ wrong \in Nat
  /\ \/ ban = NoEntry /\ wrong = 0
     \/ ban \in Nat /\ wrong = ban + 1
  /\ wrong + Cardinality(Past) <= MAX_BAN_COUNT + Cardinality(Conns)

LEMMA Counts ==
  ASSUME NEW S, S \subseteq Conns
  PROVE  /\ IsFiniteSet(S) /\ Cardinality(S) \in Nat
         /\ Cardinality(S) <= Cardinality(Conns)
         /\ Cardinality(Conns) \in Nat
BY HandshakeAssumption, FS_Subset, FS_CardinalityType DEF HandshakeAssumption

\* A step that lets nobody past the check, and counts no failure.
LEMMA NoneGetsPast ==
  ASSUME GuessInv, spc' \in [Conns -> ServerStages], Past' \subseteq Past,
         UNCHANGED bans \/ AuthSucceeded
  PROVE  GuessInv'
<1>1. Past \subseteq Conns
  BY DEF Past
<1>2. Cardinality(Past') <= Cardinality(Past) /\ Cardinality(Past') \in Nat
      /\ Cardinality(Past') <= Cardinality(Conns) /\ Cardinality(Past) \in Nat
      /\ Cardinality(Conns) \in Nat
  BY <1>1, Counts, FS_Subset
<1>3. MAX_BAN_COUNT \in Nat
  BY HandshakeAssumption DEF HandshakeAssumption
<1> QED
  BY <1>2, <1>3 DEF GuessInv, AuthSucceeded, bans

\* The same for a server end that comes to another stage.
LEMMA StageWithoutPast ==
  ASSUME GuessInv, NEW c \in Conns, NEW stage \in ServerStages \ {"verify"},
         Server(c, stage), UNCHANGED bans \/ AuthSucceeded
  PROVE  GuessInv'
<1>1. spc' \in [Conns -> ServerStages] /\ Past' \subseteq Past
  BY DEF Server, GuessInv, Past
<1> QED
  BY <1>1, NoneGetsPast

LEMMA GuessStep ==
  ASSUME GuessInv, [Next]_vars
  PROVE  GuessInv'
<1>1. ASSUME UNCHANGED <<spc, bans>> PROVE GuessInv'
  BY <1>1, NoneGetsPast DEF GuessInv, Past
<1>2. ASSUME NEW c \in Conns, Accept(c) PROVE GuessInv'
  BY <1>2, StageWithoutPast DEF Accept, ServerStages
<1>3. ASSUME NEW c \in Conns, ReadVersion(c) PROVE GuessInv'
  <2>1. \E stage \in {"closed", "select", "response", "access"} :
          Server(c, stage)
    BY <1>3 DEF ReadVersion, ServerCloses, AuthStage
  <2> QED
    BY <1>3, <2>1, StageWithoutPast DEF ReadVersion, ServerStages
<1>4. ASSUME NEW c \in Conns, ReadSelection(c) PROVE GuessInv'
  <2>1. \E stage \in {"closed", "authSelect", "response", "access"} :
          Server(c, stage)
    BY <1>4 DEF ReadSelection, ServerCloses, AuthStage
  <2> QED
    BY <1>4, <2>1, StageWithoutPast DEF ReadSelection, ServerStages
<1>5. ASSUME NEW c \in Conns, ReadAuthSelection(c) PROVE GuessInv'
  BY <1>5, StageWithoutPast DEF ReadAuthSelection, AuthStage, ServerStages
<1>6. ASSUME NEW c \in Conns, CheckAccess(c) PROVE GuessInv'
  <2>1. \E stage \in {"closed", "clientInit"} : Server(c, stage)
    BY <1>6 DEF CheckAccess, ServerCloses
  <2> QED
    BY <1>6, <2>1, StageWithoutPast DEF CheckAccess, ServerStages
<1>7. ASSUME NEW c \in Conns, ReadClientInit(c) PROVE GuessInv'
  <2>1. \E stage \in {"closed", "normal"} : Server(c, stage)
    BY <1>7 DEF ReadClientInit, ServerCloses
  <2> QED
    BY <1>7, <2>1, StageWithoutPast DEF ReadClientInit, ServerStages
<1>8. ASSUME NEW c \in Conns, ServerReadFails(c) \/ Disconnect(c)
      PROVE  GuessInv'
  BY <1>8, StageWithoutPast
  DEF ServerReadFails, Disconnect, ServerCloses, ServerStages
<1>9. ASSUME NEW c \in Conns, ReadResponse(c) PROVE GuessInv'
  <2>1. CASE IsBanned
    BY <1>9, <2>1, StageWithoutPast
    DEF ReadResponse, ServerCloses, ServerStages
  <2>2. CASE ~IsBanned
    <3>1. /\ spc' = [spc EXCEPT ![c] = "verify"]
          /\ UNCHANGED <<ban, wrong>>
      BY <1>9, <2>2 DEF ReadResponse, Server, bans
    <3>2. spc' \in [Conns -> ServerStages] /\ Past' \subseteq Conns
      BY <3>1 DEF GuessInv, ServerStages, Past
    <3>3. wrong <= MAX_BAN_COUNT
      <4>1. MAX_BAN_COUNT \in Nat /\ MAX_BAN_COUNT >= 1
        BY HandshakeAssumption DEF HandshakeAssumption
      <4>2. CASE ban = NoEntry
        BY <4>1, <4>2 DEF GuessInv, NoEntry
      <4>3. CASE ban # NoEntry
        BY <2>2, <4>1, <4>3 DEF GuessInv, IsBanned
      <4> QED
        BY <4>2, <4>3
    <3>4. Cardinality(Past') \in Nat /\ Cardinality(Conns) \in Nat
          /\ Cardinality(Past') <= Cardinality(Conns)
      BY <3>2, Counts
    <3> QED
      BY <3>1, <3>2, <3>3, <3>4, HandshakeAssumption
      DEF HandshakeAssumption, GuessInv
  <2> QED
    BY <2>1, <2>2
<1>10. ASSUME NEW c \in Conns, Verify(c) PROVE GuessInv'
  <2>1. CASE UNCHANGED bans
    <3>1. \E stage \in {"closed", "access"} : Server(c, stage)
      BY <1>10 DEF Verify, ServerCloses
    <3> QED
      BY <2>1, <3>1, StageWithoutPast DEF ServerStages
  <2>2. CASE AuthFailed /\ ServerCloses(c)
    <3>1. spc' = [spc EXCEPT ![c] = "closed"] /\ c \in Past
      BY <1>10, <2>2 DEF Verify, ServerCloses, Server, Past
    <3>2. spc' \in [Conns -> ServerStages] /\ Past' = Past \ {c}
      BY <3>1 DEF GuessInv, ServerStages, Past
    <3>3. Cardinality(Past') = Cardinality(Past) - 1
          /\ Cardinality(Past) \in Nat /\ Cardinality(Past') \in Nat
          /\ Cardinality(Conns) \in Nat
      <4>1. Past \subseteq Conns /\ Past' \subseteq Conns
        BY <3>2 DEF Past
      <4> QED
        BY <3>1, <3>2, <4>1, Counts, FS_RemoveElement
    <3> QED
      BY <2>2, <3>2, <3>3, HandshakeAssumption
      DEF HandshakeAssumption, GuessInv, AuthFailed, NoEntry
  <2> QED
    BY <1>10, <2>1, <2>2 DEF Verify
<1>11. ASSUME BanExpires PROVE GuessInv'
  <2>1. AuthSucceeded /\ UNCHANGED spc
    BY <1>11 DEF BanExpires, AuthSucceeded, ends
  <2> QED
    BY <2>1, NoneGetsPast DEF GuessInv, Past
<1>12. ASSUME NEW c \in Conns, ViewerStep(c) \/ Stop(c) PROVE GuessInv'
  BY <1>12, <1>1
  DEF ViewerStep, AnswerVersion, ReadRefusal, ReadType, SelectType,
      ReadTunnels, ReadAuthCaps, AnswerChallenge, ReadResult, ReadReason,
      ReadServerInit, ReadCaps, ViewerReadFails, Stop
<1> QED
  BY <1>1, <1>2, <1>3, <1>4, <1>5, <1>6, <1>7, <1>8, <1>9, <1>10, <1>11, <1>12
  DEF Next, ServerStep, ChangeConfig, vars, ends

\* However the connections of an address take turns and whatever is configured
\* meanwhile: between two successes, or two ends of the ban, it has at most the
\* guesses that the ban allows and one for each connection.
THEOREM GuessesBounded == Spec => []GuessesAreBounded
<1>1. Init => GuessInv
  <2> SUFFICES ASSUME Init PROVE GuessInv
    OBVIOUS
  <2>1. spc \in [Conns -> ServerStages] /\ wrong = 0 /\ ban = NoEntry
    BY DEF Init, ServerStages
  <2>2. Past \subseteq Conns
    BY DEF Past
  <2> QED
    BY <2>1, <2>2, Counts, HandshakeAssumption
    DEF GuessInv, HandshakeAssumption
<1>2. GuessInv /\ [Next]_vars => GuessInv'
  BY GuessStep
<1>3. GuessInv => GuessesAreBounded
  <2>1. Past \subseteq Conns
    BY DEF Past
  <2> QED
    BY <2>1, Counts, HandshakeAssumption
    DEF GuessInv, GuessesAreBounded, HandshakeAssumption
<1> QED
  BY <1>1, <1>2, <1>3, PTL DEF Spec

--------------------------------------------------------------------------------
(* Rights.                                                                 *)

\* What the server knows of a connection has these fields, whatever the client
\* has put into them.
Fields == {"minor", "prim", "auth", "tight", "typed", "viewOnly", "off"}
Shaped(s) == DOMAIN s = Fields /\ s = [f \in Fields |-> s[f]]

Unproven == {"closed", "version", "select", "authSelect", "response", "verify"}

\* Until a client is past the authentication it has no rights yet and nobody
\* has decided to go without.
RightsAt(stage, s) ==
  /\ stage \in Unproven => s.off = FALSE /\ s.viewOnly = FALSE
  /\ stage = "select" => s.prim \in {NONE, VNC}
  /\ stage = "closed" => s.tight = FALSE
  /\ stage \in {"access", "clientInit", "normal"} =>
       IF s.off
       THEN s.viewOnly = FALSE
       ELSE s.typed \in Passwords /\ s.viewOnly = (s.typed = "readonly")

RightsInv ==
  /\ spc \in [Conns -> ServerStages]
  /\ DOMAIN server = Conns /\ server = [c \in Conns |-> server[c]]
  /\ config \in AllConfigurations
  /\ \A c \in Conns : Shaped(server[c]) /\ RightsAt(spc[c], server[c])

\* A server end that comes to a stage with what is known there.
LEMMA RightsKept ==
  ASSUME RightsInv, config' \in AllConfigurations,
         NEW c \in Conns, NEW stage \in ServerStages, NEW s,
         Server(c, stage), server' = [server EXCEPT ![c] = s],
         Shaped(s), RightsAt(stage, s)
  PROVE  RightsInv'
<1>1. spc' \in [Conns -> ServerStages] /\ spc'[c] = stage
      /\ \A d \in Conns \ {c} : spc'[d] = spc[d]
  BY DEF Server, RightsInv
<1>2. DOMAIN server' = Conns /\ server' = [d \in Conns |-> server'[d]]
      /\ server'[c] = s /\ \A d \in Conns \ {c} : server'[d] = server[d]
  BY DEF RightsInv
<1>3. \A d \in Conns : Shaped(server'[d]) /\ RightsAt(spc'[d], server'[d])
  BY <1>1, <1>2 DEF RightsInv
<1> QED
  BY <1>1, <1>2, <1>3 DEF RightsInv

LEMMA NewServerIsShaped == Shaped(NewServer) /\ RightsAt("closed", NewServer)
BY DEF Shaped, Fields, NewServer, RightsAt, Unproven

\* The end of a connection.
LEMMA RightsClosed ==
  ASSUME RightsInv, UNCHANGED config, NEW c \in Conns, ServerCloses(c)
  PROVE  RightsInv'
BY RightsKept, NewServerIsShaped
DEF ServerCloses, ServerStages, RightsInv

\* Steps that leave the server ends and what they know alone.
LEMMA RightsUntouched ==
  ASSUME RightsInv, UNCHANGED <<spc, server>>, config' \in AllConfigurations
  PROVE  RightsInv'
BY DEF RightsInv

LEMMA RightsReadVersion ==
  ASSUME RightsInv, NEW c \in Conns, ReadVersion(c)
  PROVE  RightsInv'
<1> DEFINE minor == Said(toServer, c)
           new == [server[c] EXCEPT !.minor = minor, !.prim = PrimSecType]
           old == [new EXCEPT !.auth = PrimSecType, !.off = ~config.using]
<1>1. /\ UNCHANGED config /\ config' \in AllConfigurations
      /\ Shaped(server[c]) /\ RightsAt("version", server[c])
      /\ config.using \in BOOLEAN
  BY DEF ReadVersion, RightsInv, AllConfigurations
<1>2. /\ Shaped(new) /\ new.prim = PrimSecType
      /\ new.off = FALSE /\ new.viewOnly = FALSE
  BY <1>1 DEF Shaped, Fields, RightsAt, Unproven
<1>3. /\ Shaped(old) /\ old.off = ~config.using /\ old.viewOnly = FALSE
  BY <1>1 DEF Shaped, Fields, RightsAt, Unproven
<1>4. CASE IsBanned
  BY <1>1, <1>4, RightsClosed DEF ReadVersion
<1>5. CASE ~IsBanned /\ minor >= 7
  <2>1. Server(c, "select") /\ server' = [server EXCEPT ![c] = new]
    BY <1>5 DEF ReadVersion
  <2>2. RightsAt("select", new)
    BY <1>2 DEF RightsAt, PrimSecType, Unproven
  <2> QED
    BY <1>1, <1>2, <2>1, <2>2, RightsKept DEF ServerStages
<1>6. CASE ~IsBanned /\ ~(minor >= 7)
  <2>1. Server(c, AuthStage(PrimSecType))
        /\ server' = [server EXCEPT ![c] = old]
    BY <1>6 DEF ReadVersion
  <2>2. /\ AuthStage(PrimSecType) \in {"response", "access"}
        /\ RightsAt(AuthStage(PrimSecType), old)
    BY <1>1, <1>3
    DEF RightsAt, PrimSecType, AuthStage, Unproven, NONE, VNC
  <2> QED
    BY <1>1, <1>3, <2>1, <2>2, RightsKept DEF ServerStages
<1> QED
  BY <1>4, <1>5, <1>6

LEMMA RightsReadSelection ==
  ASSUME RightsInv, NEW c \in Conns, ReadSelection(c)
  PROVE  RightsInv'
<1> DEFINE type == Said(toServer, c)
           tight == [server[c] EXCEPT !.tight = TRUE]
           open == [tight EXCEPT !.auth = NONE, !.off = TRUE]
           plain == [server[c] EXCEPT !.auth = type,
                                      !.off = (server[c].prim = NONE)]
<1>1. /\ UNCHANGED config /\ config' \in AllConfigurations
      /\ Shaped(server[c]) /\ RightsAt("select", server[c])
  BY DEF ReadSelection, RightsInv
<1>2. /\ Shaped(tight) /\ tight.off = FALSE /\ tight.viewOnly = FALSE
      /\ Shaped(open) /\ open.off = TRUE /\ open.viewOnly = FALSE
      /\ Shaped(plain) /\ plain.off = (server[c].prim = NONE)
      /\ plain.viewOnly = FALSE
  BY <1>1 DEF Shaped, Fields, RightsAt, Unproven
<1>3. CASE type = TIGHT /\ config.using
  <2>1. Server(c, "authSelect") /\ server' = [server EXCEPT ![c] = tight]
    BY <1>3 DEF ReadSelection
  <2>2. RightsAt("authSelect", tight)
    BY <1>2 DEF RightsAt
  <2> QED
    BY <1>1, <1>2, <2>1, <2>2, RightsKept DEF ServerStages
<1>4. CASE type = TIGHT /\ ~config.using
  <2>1. Server(c, "access") /\ server' = [server EXCEPT ![c] = open]
    BY <1>4 DEF ReadSelection
  <2>2. RightsAt("access", open)
    BY <1>2 DEF RightsAt, Unproven
  <2> QED
    BY <1>1, <1>2, <2>1, <2>2, RightsKept DEF ServerStages
<1>5. CASE type # TIGHT /\ MaySelect(c, type)
  <2>1. Server(c, AuthStage(type)) /\ server' = [server EXCEPT ![c] = plain]
    BY <1>5 DEF ReadSelection
  <2>2. type \in {NONE, VNC} /\ type = server[c].prim
    BY <1>1, <1>5 DEF MaySelect, RightsAt
  <2>3. /\ AuthStage(type) \in {"response", "access"}
        /\ RightsAt(AuthStage(type), plain)
    BY <1>2, <2>2 DEF RightsAt, AuthStage, Unproven, NONE, VNC
  <2> QED
    BY <1>1, <1>2, <2>1, <2>3, RightsKept DEF ServerStages
<1>6. CASE type # TIGHT /\ ~MaySelect(c, type)
  BY <1>1, <1>6, RightsClosed DEF ReadSelection
<1> QED
  BY <1>3, <1>4, <1>5, <1>6

LEMMA RightsReadAuthSelection ==
  ASSUME RightsInv, NEW c \in Conns, ReadAuthSelection(c)
  PROVE  RightsInv'
<1> DEFINE new == [server[c] EXCEPT !.auth = VNC]
<1>1. /\ config' \in AllConfigurations
      /\ Shaped(server[c]) /\ RightsAt("authSelect", server[c])
      /\ Server(c, "response") /\ server' = [server EXCEPT ![c] = new]
  BY DEF ReadAuthSelection, RightsInv, AuthStage
<1>2. Shaped(new) /\ RightsAt("response", new)
  BY <1>1 DEF Shaped, Fields, RightsAt, Unproven
<1> QED
  BY <1>1, <1>2, RightsKept DEF ServerStages

LEMMA RightsReadResponse ==
  ASSUME RightsInv, NEW c \in Conns, ReadResponse(c)
  PROVE  RightsInv'
<1> DEFINE said == Said(toServer, c)
           new == [server[c] EXCEPT !.typed = said]
<1>1. /\ UNCHANGED config /\ config' \in AllConfigurations
      /\ Shaped(server[c]) /\ RightsAt("response", server[c])
  BY DEF ReadResponse, RightsInv
<1>2. Shaped(new) /\ RightsAt("verify", new)
  BY <1>1 DEF Shaped, Fields, RightsAt, Unproven
<1>3. CASE IsBanned
  BY <1>1, <1>3, RightsClosed DEF ReadResponse
<1>4. CASE ~IsBanned
  <2>1. Server(c, "verify") /\ server' = [server EXCEPT ![c] = new]
    BY <1>4 DEF ReadResponse
  <2> QED
    BY <1>1, <1>2, <2>1, RightsKept DEF ServerStages
<1> QED
  BY <1>3, <1>4

LEMMA RightsVerify ==
  ASSUME RightsInv, NEW c \in Conns, Verify(c)
  PROVE  RightsInv'
<1> DEFINE typed == server[c].typed
           new == [server[c] EXCEPT !.viewOnly = (typed = "readonly")]
<1>1. /\ UNCHANGED config /\ config' \in AllConfigurations
      /\ config.passwords \subseteq Passwords
      /\ Shaped(server[c]) /\ RightsAt("verify", server[c])
  BY DEF Verify, RightsInv, AllConfigurations
<1>2. CASE typed \in config.passwords
  <2>1. Server(c, "access") /\ server' = [server EXCEPT ![c] = new]
    BY <1>2 DEF Verify
  <2>2. /\ Shaped(new) /\ new.viewOnly = (new.typed = "readonly")
        /\ new.typed = typed /\ new.off = FALSE
    BY <1>1 DEF Shaped, Fields, RightsAt, Unproven
  <2>3. RightsAt("access", new)
    BY <1>1, <1>2, <2>2 DEF RightsAt, Unproven
  <2> QED
    BY <1>1, <2>1, <2>2, <2>3, RightsKept DEF ServerStages
<1>3. CASE typed \notin config.passwords
  BY <1>1, <1>3, RightsClosed DEF Verify
<1> QED
  BY <1>2, <1>3

\* A connection that goes on with what is known of it.
LEMMA RightsGoOn ==
  ASSUME RightsInv, UNCHANGED <<config, server>>, NEW c \in Conns,
         NEW stage \in ServerStages, Server(c, stage),
         RightsAt(spc[c], server[c]) => RightsAt(stage, server[c])
  PROVE  RightsInv'
<1>1. /\ config' \in AllConfigurations
      /\ Shaped(server[c]) /\ RightsAt(stage, server[c])
      /\ server' = [server EXCEPT ![c] = server[c]]
  BY DEF RightsInv
<1> QED
  BY <1>1, RightsKept

LEMMA RightsStep ==
  ASSUME RightsInv, [Next]_vars
  PROVE  RightsInv'
<1>1. ASSUME NEW c \in Conns, Accept(c) PROVE RightsInv'
  BY <1>1, RightsGoOn DEF Accept, ServerStages, RightsAt, Unproven
<1>2. ASSUME NEW c \in Conns, CheckAccess(c) PROVE RightsInv'
  <2>1. UNCHANGED config
        /\ \/ Server(c, "clientInit") /\ UNCHANGED server
           \/ ServerCloses(c)
    BY <1>2 DEF CheckAccess
  <2>2. RightsAt(spc[c], server[c]) => RightsAt("clientInit", server[c])
    BY <1>2 DEF CheckAccess, RightsAt, Unproven
  <2> QED
    BY <2>1, <2>2, RightsGoOn, RightsClosed DEF ServerStages
<1>3. ASSUME NEW c \in Conns, ReadClientInit(c) PROVE RightsInv'
  <2>1. UNCHANGED config
        /\ \/ Server(c, "normal") /\ UNCHANGED server
           \/ ServerCloses(c)
    BY <1>3 DEF ReadClientInit
  <2>2. RightsAt(spc[c], server[c]) => RightsAt("normal", server[c])
    BY <1>3 DEF ReadClientInit, RightsAt, Unproven
  <2> QED
    BY <2>1, <2>2, RightsGoOn, RightsClosed DEF ServerStages
<1>4. ASSUME NEW c \in Conns, ServerReadFails(c) \/ Disconnect(c)
      PROVE  RightsInv'
  BY <1>4, RightsClosed DEF ServerReadFails, Disconnect
<1>5. ASSUME ChangeConfig PROVE RightsInv'
  <2>1. config' \in AllConfigurations
    BY <1>5 DEF ChangeConfig, RightsInv, AllConfigurations
  <2> QED
    BY <1>5, <2>1, RightsUntouched DEF ChangeConfig, ends, peers
<1>6. ASSUME BanExpires \/ UNCHANGED vars PROVE RightsInv'
  BY <1>6, RightsUntouched DEF BanExpires, ends, peers, vars, RightsInv
<1>7. ASSUME NEW c \in Conns, ViewerStep(c) \/ Stop(c) PROVE RightsInv'
  <2>1. UNCHANGED <<spc, server, config>>
    BY <1>7
    DEF ViewerStep, AnswerVersion, ReadRefusal, ReadType, SelectType,
        ReadTunnels, ReadAuthCaps, AnswerChallenge, ReadResult, ReadReason,
        ReadServerInit, ReadCaps, ViewerReadFails, Stop
  <2> QED
    BY <2>1, RightsUntouched DEF RightsInv
<1> QED
  BY <1>1, <1>2, <1>3, <1>4, <1>5, <1>6, <1>7, RightsReadVersion,
     RightsReadSelection, RightsReadAuthSelection, RightsReadResponse,
     RightsVerify
  DEF Next, ServerStep

\* Whatever version and extensions a client has, whatever it selects, and
\* however the configuration changes in between: past the authentication it
\* has the rights of the password it has typed, or nobody asked for one.
THEOREM RightsAreThoseOfThePassword == Spec => []RightsFollowThePassword
<1>1. Init => RightsInv
  <2> SUFFICES ASSUME Init PROVE RightsInv
    OBVIOUS
  <2>1. config \in AllConfigurations
    BY HandshakeAssumption DEF Init, HandshakeAssumption
  <2> QED
    BY <2>1, NewServerIsShaped DEF Init, RightsInv, ServerStages
<1>2. RightsInv /\ [Next]_vars => RightsInv'
  BY RightsStep
<1>3. RightsInv => RightsFollowThePassword
  BY DEF RightsInv, RightsAt, RightsFollowThePassword
<1> QED
  BY <1>1, <1>2, <1>3, PTL DEF Spec
--------------------------------------------------------------------------------
(* What is on its way between the ends.                                    *)

\* Where an end is, and what is on its way to it.
ServerAt(c, stage, items) == spc[c] = stage /\ toServer[c] = items
ViewerAt(c, stage, items) == vpc[c] = stage /\ toViewer[c] = items

Ok == Msg("result", {"ok"})
Failed == Msg("result", {"failed"})
Reason == Msg("reason", {})
AnswerOf(type) == Msg("select", {type})
ClientInit == Msg("clientInit", {})
Tunnels == Msg("tunnels", {})
AuthCaps(types) == Msg("authCaps", types)

\* Both ends have the same version, and both use the extensions or neither.
Alike(c) ==
  server[c].minor = client[c].minor /\ server[c].tight = client[c].tight

\* The versions are exchanged.
Versions(c) ==
  /\ spc[c] = "version" /\ server[c].tight = FALSE
  /\ \/ toServer[c] = <<>> /\ ViewerAt(c, "version", <<Msg("version", {})>>)
     \/ /\ toServer[c] = <<Msg("version", {client[c].minor})>>
        /\ ViewerAt(c, "types", <<>>)

\* The types are offered, and one is selected.
Selection(c) ==
  /\ spc[c] = "select"
  /\ server[c].minor = client[c].minor /\ server[c].minor >= 7
  /\ server[c].tight = FALSE
  /\ \/ /\ toServer[c] = <<>>
        /\ ViewerAt(c, "types", <<Msg("secTypes", {server[c].prim, TIGHT})>>)
     \/ /\ client[c].tight = TRUE /\ toServer[c] = <<AnswerOf(TIGHT)>>
        /\ ViewerAt(c, "tunnels", <<>>)
     \/ /\ client[c].tight = FALSE /\ toServer[c] = <<AnswerOf(VNC)>>
        /\ ViewerAt(c, "challenge", <<>>)
     \/ /\ client[c].tight = FALSE /\ toServer[c] = <<AnswerOf(NONE)>>
        /\ ViewerAt(c, "result", <<>>) /\ client[c].minor >= 8
     \/ /\ client[c].tight = FALSE /\ client[c].minor < 8
        /\ toServer[c] = <<AnswerOf(NONE), ClientInit>>
        /\ ViewerAt(c, "serverInit", <<>>)

\* The one authentication is offered by the extensions, and selected.
AuthSelection(c) ==
  /\ spc[c] = "authSelect" /\ Alike(c)
  /\ \/ /\ toServer[c] = <<>>
        /\ \/ ViewerAt(c, "tunnels", <<Tunnels, AuthCaps({VNC})>>)
           \/ ViewerAt(c, "authCaps", <<AuthCaps({VNC})>>)
     \/ /\ toServer[c] = <<Msg("authSelect", {VNC})>>
        /\ ViewerAt(c, "challenge", <<>>)

\* The password is asked for, and looked at.
Authentication(c) ==
  /\ Alike(c) /\ server[c].auth = VNC
  /\ \/ /\ ServerAt(c, "response", <<>>)
        /\ \/ ViewerAt(c, "types", <<Msg("secType", {VNC}),
                                     Msg("challenge", {})>>)
           \/ ViewerAt(c, "challenge", <<Msg("challenge", {})>>)
     \/ /\ \E p \in Passwords \cup {"wrong"} :
             ServerAt(c, "response", <<Msg("response", {p})>>)
        /\ ViewerAt(c, "result", <<>>)
     \/ ServerAt(c, "verify", <<>>) /\ ViewerAt(c, "result", <<>>)

\* Whoever decides on the access has not yet decided.
Access(c) ==
  /\ spc[c] = "access" /\ Alike(c)
  /\ \/ /\ server[c].auth = NONE /\ toServer[c] = <<>>
        /\ \/ ViewerAt(c, "tunnels", <<Tunnels, AuthCaps({})>>)
           \/ ViewerAt(c, "authCaps", <<AuthCaps({})>>)
           \/ ViewerAt(c, "types", <<Msg("secType", {NONE})>>)
              /\ client[c].minor < 7
     \/ /\ toServer[c] = <<>> /\ ViewerAt(c, "result", <<>>)
        /\ SendsResult(c)
     \/ /\ toServer[c] = <<ClientInit>> /\ ViewerAt(c, "serverInit", <<>>)
        /\ ~SendsResult(c)

\* The client may initialize.
Initialization(c) ==
  /\ spc[c] = "clientInit" /\ Alike(c)
  /\ \/ /\ server[c].auth = NONE /\ client[c].minor < 8 /\ toServer[c] = <<>>
        /\ \/ ViewerAt(c, "tunnels", <<Tunnels, AuthCaps({})>>)
           \/ ViewerAt(c, "authCaps", <<AuthCaps({})>>)
           \/ ViewerAt(c, "types", <<Msg("secType", {NONE})>>)
              /\ client[c].minor < 7
     \/ /\ client[c].minor >= 8 /\ toServer[c] = <<>>
        /\ \/ ViewerAt(c, "tunnels", <<Tunnels, AuthCaps({}), Ok>>)
           \/ ViewerAt(c, "authCaps", <<AuthCaps({}), Ok>>)
     \/ toServer[c] = <<>> /\ ViewerAt(c, "result", <<Ok>>)
     \/ toServer[c] = <<ClientInit>> /\ ViewerAt(c, "serverInit", <<>>)

\* The viewer reads what ServerInit and its version bring.
LastReads(c) ==
  \/ /\ client[c].tight = TRUE
     /\ ViewerAt(c, "serverInit", <<Msg("serverInit", {}), Msg("caps", {})>>)
  \/ client[c].tight = FALSE /\ ViewerAt(c, "serverInit", <<Msg("serverInit", {})>>)
  \/ ViewerAt(c, "caps", <<Msg("caps", {})>>)
  \/ ViewerAt(c, "connected", <<>>)

\* What a viewer still has to read of a server that has gone.
ViewerAlone(c) ==
  \/ ViewerAt(c, "types", <<Msg("refused", {}), Reason>>)
  \/ ViewerAt(c, "types", <<Msg("secType", {NONE})>>)
  \/ ViewerAt(c, "tunnels", <<Tunnels, AuthCaps({})>>)
  \/ ViewerAt(c, "authCaps", <<AuthCaps({})>>)
  \/ /\ client[c].minor >= 8
     /\ \/ ViewerAt(c, "tunnels", <<Tunnels, AuthCaps({}), Failed, Reason>>)
        \/ ViewerAt(c, "authCaps", <<AuthCaps({}), Failed, Reason>>)
        \/ ViewerAt(c, "result", <<Failed, Reason>>)
  \/ ViewerAt(c, "challenge", <<>>)
  \/ ViewerAt(c, "result", <<>>)
  \/ ViewerAt(c, "reason", <<Reason>>)
  \/ ViewerAt(c, "serverInit", <<>>)
  \/ LastReads(c)

\* What a server still has to read of a viewer that has gone.
ServerAlone(c) ==
  \/ /\ spc[c] = "version"
     /\ \/ toServer[c] = <<>>
        \/ \E x \in {3, 7, 8} : toServer[c] = <<Msg("version", {x})>>
  \/ ServerAt(c, "select", <<AnswerOf(NONE), ClientInit>>)
  \/ /\ spc[c] = "select"
     /\ \/ toServer[c] = <<>>
        \/ \E type \in {NONE, VNC, TIGHT} : toServer[c] = <<AnswerOf(type)>>
  \/ /\ spc[c] = "authSelect"
     /\ toServer[c] \in {<<>>, <<Msg("authSelect", {VNC})>>}
  \/ /\ spc[c] = "response"
     /\ \/ toServer[c] = <<>>
        \/ \E p \in Passwords \cup {"wrong"} :
             toServer[c] = <<Msg("response", {p})>>
  \/ spc[c] \in {"verify", "normal"} /\ toServer[c] = <<>>
  \/ /\ spc[c] \in {"access", "clientInit"}
     /\ toServer[c] \in {<<>>, <<ClientInit>>}

Matched(c) ==
  \/ spc[c] = "closed" /\ vpc[c] = "closed"
  \/ spc[c] = "closed" /\ vpc[c] # "closed" /\ ViewerAlone(c)
  \/ spc[c] # "closed" /\ vpc[c] = "closed" /\ ServerAlone(c)
  \/ /\ spc[c] # "closed" /\ vpc[c] # "closed"
     /\ \/ Versions(c) \/ Selection(c) \/ AuthSelection(c)
        \/ Authentication(c) \/ Access(c) \/ Initialization(c)
        \/ ServerAt(c, "normal", <<>>) /\ LastReads(c)

OnConns(f) == f = [c \in Conns |-> f[c]]

StepInv ==
  /\ OnConns(spc) /\ OnConns(vpc) /\ OnConns(toServer) /\ OnConns(toViewer)
  /\ OnConns(client) /\ OnConns(server)
  /\ \A c \in Conns : client[c] \in AllKinds
  /\ \A c \in Conns : Matched(c)

--------------------------------------------------------------------------------
(* Short lists.                                                            *)

LEMMA OneAndOne ==
  ASSUME NEW x, NEW y
  PROVE  <<x>> \o <<y>> = <<x, y>>
<1> DEFINE T == {x, y}
<1>1. <<x>> \in Seq(T) /\ <<y>> \in Seq(T) /\ <<x, y>> \in Seq(T)
      /\ Len(<<x>>) = 1 /\ Len(<<y>>) = 1 /\ Len(<<x, y>>) = 2
  OBVIOUS
<1>2. <<x>> \o <<y>> \in Seq(T) /\ Len(<<x>> \o <<y>>) = 2
      /\ \A i \in 1 .. 2 : (<<x>> \o <<y>>)[i] = <<x, y>>[i]
  BY <1>1, ConcatProperties
<1> QED
  BY <1>1, <1>2, SeqEqual

LEMMA OneAndTwo ==
  ASSUME NEW x, NEW y, NEW z
  PROVE  <<x>> \o <<y, z>> = <<x, y, z>>
<1> DEFINE T == {x, y, z}
<1>1. <<x>> \in Seq(T) /\ <<y, z>> \in Seq(T) /\ <<x, y, z>> \in Seq(T)
      /\ Len(<<x>>) = 1 /\ Len(<<y, z>>) = 2 /\ Len(<<x, y, z>>) = 3
  OBVIOUS
<1>2. <<x>> \o <<y, z>> \in Seq(T) /\ Len(<<x>> \o <<y, z>>) = 3
      /\ \A i \in 1 .. 3 : (<<x>> \o <<y, z>>)[i] = <<x, y, z>>[i]
  BY <1>1, ConcatProperties
<1> QED
  BY <1>1, <1>2, SeqEqual

LEMMA TwoAndOne ==
  ASSUME NEW x, NEW y, NEW z
  PROVE  <<x, y>> \o <<z>> = <<x, y, z>>
<1> DEFINE T == {x, y, z}
<1>1. <<x, y>> \in Seq(T) /\ <<z>> \in Seq(T) /\ <<x, y, z>> \in Seq(T)
      /\ Len(<<x, y>>) = 2 /\ Len(<<z>>) = 1 /\ Len(<<x, y, z>>) = 3
  OBVIOUS
<1>2. <<x, y>> \o <<z>> \in Seq(T) /\ Len(<<x, y>> \o <<z>>) = 3
      /\ \A i \in 1 .. 3 : (<<x, y>> \o <<z>>)[i] = <<x, y, z>>[i]
  BY <1>1, ConcatProperties
<1> QED
  BY <1>1, <1>2, SeqEqual

LEMMA TwoAndTwo ==
  ASSUME NEW w, NEW x, NEW y, NEW z
  PROVE  <<w, x>> \o <<y, z>> = <<w, x, y, z>>
<1> DEFINE T == {w, x, y, z}
<1>1. <<w, x>> \in Seq(T) /\ <<y, z>> \in Seq(T) /\ <<w, x, y, z>> \in Seq(T)
      /\ Len(<<w, x>>) = 2 /\ Len(<<y, z>>) = 2 /\ Len(<<w, x, y, z>>) = 4
  OBVIOUS
<1>2. <<w, x>> \o <<y, z>> \in Seq(T) /\ Len(<<w, x>> \o <<y, z>>) = 4
      /\ \A i \in 1 .. 4 : (<<w, x>> \o <<y, z>>)[i] = <<w, x, y, z>>[i]
  BY <1>1, ConcatProperties
<1> QED
  BY <1>1, <1>2, SeqEqual

LEMMA Empties ==
  ASSUME NEW x, NEW y
  PROVE  /\ <<>> \o <<>> = <<>>
         /\ <<>> \o <<x>> = <<x>> /\ <<>> \o <<x, y>> = <<x, y>>
         /\ <<x>> \o <<>> = <<x>> /\ <<x, y>> \o <<>> = <<x, y>>
OBVIOUS

LEMMA Firsts ==
  ASSUME NEW w, NEW x, NEW y, NEW z
  PROVE  /\ <<x>> # <<>> /\ Head(<<x>>) = x /\ Tail(<<x>>) = <<>>
         /\ <<x, y>> # <<>> /\ Head(<<x, y>>) = x /\ Tail(<<x, y>>) = <<y>>
         /\ <<x, y, z>> # <<>> /\ Head(<<x, y, z>>) = x
         /\ Tail(<<x, y, z>>) = <<y, z>>
         /\ <<w, x, y, z>> # <<>> /\ Head(<<w, x, y, z>>) = w
         /\ Tail(<<w, x, y, z>>) = <<x, y, z>>
OBVIOUS

LEMMA WhatIsSaid ==
  ASSUME NEW channel, NEW c, NEW name, NEW x,
         Head(channel[c]) = Msg(name, {x})
  PROVE  Said(channel, c) = x
BY DEF Said, Msg

--------------------------------------------------------------------------------
(* The steps of one connection.                                            *)

OnAllConns ==
  /\ OnConns(spc) /\ OnConns(vpc) /\ OnConns(toServer) /\ OnConns(toViewer)
  /\ OnConns(client) /\ OnConns(server)
  /\ \A c \in Conns : client[c] \in AllKinds

\* Nothing that the invariant says of a connection changes.
Same(c) ==
  /\ spc'[c] = spc[c] /\ vpc'[c] = vpc[c]
  /\ toServer'[c] = toServer[c] /\ toViewer'[c] = toViewer[c]
  /\ client'[c] = client[c] /\ server'[c] = server[c]

LEMMA SameConn ==
  ASSUME NEW c \in Conns, Matched(c), Same(c)
  PROVE  Matched(c)'
<1> USE DEF Same, ServerAt, ViewerAt, Alike
<1>1. Versions(c)' = Versions(c) /\ Selection(c)' = Selection(c)
  BY DEF Versions, Selection
<1>2. /\ AuthSelection(c)' = AuthSelection(c)
      /\ Authentication(c)' = Authentication(c)
  BY DEF AuthSelection, Authentication
<1>3. Access(c)' = Access(c) /\ Initialization(c)' = Initialization(c)
  BY DEF Access, Initialization, SendsResult
<1>4. LastReads(c)' = LastReads(c) /\ ServerAlone(c)' = ServerAlone(c)
  BY DEF LastReads, ServerAlone
<1>5. ViewerAlone(c)' = ViewerAlone(c)
  BY <1>4 DEF ViewerAlone
<1> QED
  BY <1>1, <1>2, <1>3, <1>4, <1>5 DEF Matched

LEMMA OneConn ==
  ASSUME StepInv, NEW c \in Conns, OnAllConns',
         \A d \in Conns \ {c} : Same(d), Matched(c)'
  PROVE  StepInv'
<1>1. ASSUME NEW d \in Conns PROVE Matched(d)'
  <2>1. CASE d = c
    BY <2>1
  <2>2. CASE d # c
    BY <2>2, SameConn DEF StepInv
  <2> QED
    BY <2>1, <2>2
<1> QED
  BY <1>1 DEF StepInv, OnAllConns

\* A step of the server end.
LEMMA ServerMoves ==
  ASSUME StepInv, NEW c \in Conns, NEW stage, NEW ts, NEW tv, NEW s,
         Server(c, stage), server' = [server EXCEPT ![c] = s],
         toServer' = [toServer EXCEPT ![c] = ts],
         toViewer' = [toViewer EXCEPT ![c] = tv],
         UNCHANGED <<vpc, client>>
  PROVE  /\ spc'[c] = stage /\ server'[c] = s
         /\ toServer'[c] = ts /\ toViewer'[c] = tv
         /\ vpc'[c] = vpc[c] /\ client'[c] = client[c]
         /\ Matched(c)' => StepInv'
<1>1. OnAllConns
  BY DEF StepInv, OnAllConns
<1>2. /\ spc'[c] = stage /\ server'[c] = s
      /\ toServer'[c] = ts /\ toViewer'[c] = tv
      /\ vpc'[c] = vpc[c] /\ client'[c] = client[c]
      /\ OnAllConns' /\ \A d \in Conns \ {c} : Same(d)
  BY <1>1 DEF Server, OnAllConns, OnConns, Same
<1> QED
  BY <1>2, OneConn

\* A step of the viewer end.
LEMMA ViewerMoves ==
  ASSUME StepInv, NEW c \in Conns, NEW stage, NEW ts, NEW tv,
         Viewer(c, stage), UNCHANGED <<spc, server>>,
         toServer' = [toServer EXCEPT ![c] = ts],
         toViewer' = [toViewer EXCEPT ![c] = tv]
  PROVE  /\ vpc'[c] = stage
         /\ client'[c] = IF stage = "closed" THEN NoClient ELSE client[c]
         /\ toServer'[c] = ts /\ toViewer'[c] = tv
         /\ spc'[c] = spc[c] /\ server'[c] = server[c]
         /\ Matched(c)' => StepInv'
<1>1. OnAllConns /\ NoClient \in AllKinds
  BY DEF StepInv, OnAllConns, NoClient, AllKinds
<1>2. /\ vpc'[c] = stage
      /\ client'[c] = IF stage = "closed" THEN NoClient ELSE client[c]
      /\ toServer'[c] = ts /\ toViewer'[c] = tv
      /\ spc'[c] = spc[c] /\ server'[c] = server[c]
  BY <1>1 DEF Viewer, OnAllConns, OnConns
<1>3. OnAllConns' /\ \A d \in Conns \ {c} : Same(d)
  BY <1>1 DEF Viewer, OnAllConns, OnConns, Same
<1> QED
  BY <1>2, <1>3, OneConn

--------------------------------------------------------------------------------
(* The steps of the server end.                                            *)

\* The server takes a message, the only one there or with ClientInit behind it.
LEMMA ServerReads ==
  ASSUME StepInv, NEW c \in Conns, NEW out, NEW stage, NEW s,
         Server(c, stage), server' = [server EXCEPT ![c] = s],
         ServerTakes(c, out), UNCHANGED <<vpc, client>>
  PROVE  /\ spc'[c] = stage /\ server'[c] = s
         /\ toServer'[c] = Tail(toServer[c])
         /\ toViewer'[c] = toViewer[c] \o out
         /\ vpc'[c] = vpc[c] /\ client'[c] = client[c]
         /\ Matched(c)' => StepInv'
<1>1. /\ toServer' = [toServer EXCEPT ![c] = Tail(toServer[c])]
      /\ toViewer' = [toViewer EXCEPT ![c] = toViewer[c] \o out]
  BY DEF ServerTakes
<1> QED
  BY <1>1, ServerMoves

\* The same for a step that only writes.
LEMMA ServerSpeaks ==
  ASSUME StepInv, NEW c \in Conns, NEW out, NEW stage, NEW s,
         Server(c, stage), server' = [server EXCEPT ![c] = s],
         ServerWrites(c, out), UNCHANGED <<vpc, client>>
  PROVE  /\ spc'[c] = stage /\ server'[c] = s
         /\ toServer'[c] = toServer[c]
         /\ toViewer'[c] = toViewer[c] \o out
         /\ vpc'[c] = vpc[c] /\ client'[c] = client[c]
         /\ Matched(c)' => StepInv'
<1>1. /\ toServer' = [toServer EXCEPT ![c] = toServer[c]]
      /\ toViewer' = [toViewer EXCEPT ![c] = toViewer[c] \o out]
  BY DEF ServerWrites, StepInv, OnConns
<1> QED
  BY <1>1, ServerMoves

LEMMA StepReadVersion ==
  ASSUME StepInv, RightsInv, NEW c \in Conns, ReadVersion(c)
  PROVE  StepInv'
<1> DEFINE minor == Said(toServer, c)
           prim == PrimSecType
           new == [server[c] EXCEPT !.minor = minor, !.prim = prim]
           old == [new EXCEPT !.auth = prim, !.off = ~config.using]
<1>1. /\ Matched(c) /\ Shaped(server[c]) /\ prim \in {NONE, VNC}
      /\ spc[c] = "version" /\ toServer[c] # <<>>
      /\ UNCHANGED <<vpc, client>>
  BY DEF StepInv, RightsInv, ReadVersion, Hears, PrimSecType
<1>2. /\ new.minor = minor /\ new.prim = prim /\ new.tight = server[c].tight
      /\ old.minor = minor /\ old.auth = prim /\ old.tight = server[c].tight
  BY <1>1 DEF Shaped, Fields
<1>3. PICK stage, out, s :
        /\ Server(c, stage) /\ server' = [server EXCEPT ![c] = s]
        /\ ServerTakes(c, out)
        /\ \/ /\ stage = "closed" /\ s = NewServer
              /\ out = <<Msg("refused", {}), Reason>>
           \/ /\ minor >= 7 /\ stage = "select" /\ s = new
              /\ out = <<Msg("secTypes", {prim, TIGHT})>>
           \/ /\ ~(minor >= 7) /\ stage = AuthStage(prim) /\ s = old
              /\ out = <<Msg("secType", {prim})>> \o AuthOffer(prim)
  <2>1. CASE IsBanned
    BY <2>1 DEF ReadVersion, ServerCloses, Reason
  <2>2. CASE ~IsBanned /\ minor >= 7
    <3>1. /\ Server(c, "select") /\ server' = [server EXCEPT ![c] = new]
          /\ ServerTakes(c, <<Msg("secTypes", {prim, TIGHT})>>)
      BY <2>2 DEF ReadVersion
    <3> HIDE DEF minor, prim, new
    <3> QED
      BY <2>2, <3>1
  <2>3. CASE ~IsBanned /\ ~(minor >= 7)
    <3>1. /\ Server(c, AuthStage(prim)) /\ server' = [server EXCEPT ![c] = old]
          /\ ServerTakes(c, <<Msg("secType", {prim})>> \o AuthOffer(prim))
      BY <2>3 DEF ReadVersion
    <3> HIDE DEF minor, prim, old
    <3> QED
      BY <2>3, <3>1
  <2> QED
    BY <2>1, <2>2, <2>3
<1>4. /\ spc'[c] = stage /\ server'[c] = s
      /\ toServer'[c] = Tail(toServer[c])
      /\ toViewer'[c] = toViewer[c] \o out
      /\ vpc'[c] = vpc[c] /\ client'[c] = client[c]
      /\ Matched(c)' => StepInv'
  BY <1>1, <1>3, ServerReads
<1>5. stage \in {"closed", "select", "response", "access"}
  BY <1>3 DEF AuthStage
<1> HIDE DEF minor, prim, new, old
<1>6. CASE vpc[c] = "closed"
  <2>1. PICK x : toServer[c] = <<Msg("version", {x})>>
    BY <1>1, <1>6 DEF Matched, ServerAlone, ServerAt
  <2>2. toServer'[c] = <<>>
    BY <1>4, <2>1
  <2>3. Matched(c)'
    BY <1>4, <1>5, <1>6, <2>2 DEF Matched, ServerAlone
  <2> QED
    BY <1>4, <2>3
<1>7. CASE vpc[c] # "closed"
  <2>1. Versions(c)
    BY <1>1, <1>7
    DEF Matched, Selection, AuthSelection, Authentication, Access,
        Initialization, ServerAt
  <2>2. /\ toServer[c] = <<Msg("version", {client[c].minor})>>
        /\ ViewerAt(c, "types", <<>>) /\ server[c].tight = FALSE
    BY <1>1, <2>1 DEF Versions
  <2>3. minor = client[c].minor
    <3>1. Head(toServer[c]) = Msg("version", {client[c].minor})
      BY <2>2
    <3> QED
      BY <3>1, WhatIsSaid DEF minor
  <2>4. toServer'[c] = <<>> /\ toViewer[c] = <<>> /\ vpc[c] = "types"
    BY <1>4, <2>2 DEF ViewerAt
  <2>5. client[c].minor \in {3, 7, 8}
        /\ (client[c].tight = FALSE \/ client[c].minor >= 7)
        /\ client[c].tight \in BOOLEAN
    BY DEF StepInv, AllKinds
  <2>6. CASE stage = "closed"
    <3>1. out = <<Msg("refused", {}), Reason>>
      BY <1>3, <2>6 DEF AuthStage
    <3>2. toViewer'[c] = <<Msg("refused", {}), Reason>>
      BY <1>4, <2>4, <3>1, Empties
    <3> QED
      BY <1>4, <2>4, <2>6, <3>2 DEF Matched, ViewerAlone, ViewerAt
  <2>7. CASE stage = "select"
    <3>1. s = new /\ out = <<Msg("secTypes", {prim, TIGHT})>> /\ minor >= 7
      BY <1>3, <2>7 DEF AuthStage
    <3>2. toViewer'[c] = <<Msg("secTypes", {prim, TIGHT})>>
      BY <1>4, <2>4, <3>1, Empties
    <3>3. Selection(c)'
      BY <1>2, <1>4, <2>2, <2>3, <2>4, <2>7, <3>1, <3>2
      DEF Selection, ViewerAt
    <3> QED
      BY <1>4, <2>4, <2>7, <3>3 DEF Matched
  <2>8. CASE stage \in {"response", "access"}
    <3>1. /\ s = old /\ stage = AuthStage(prim) /\ ~(minor >= 7)
          /\ out = <<Msg("secType", {prim})>> \o AuthOffer(prim)
      BY <1>3, <2>8
    <3>2. server'[c].auth = prim /\ Alike(c)'
      BY <1>2, <1>4, <2>2, <2>3, <2>5, <3>1 DEF Alike
    <3>3. CASE prim = VNC
      <4>1. toViewer'[c] = <<Msg("secType", {VNC}), Msg("challenge", {})>>
        <5>1. out = <<Msg("secType", {VNC}), Msg("challenge", {})>>
          BY <3>1, <3>3, OneAndOne DEF AuthOffer
        <5> QED
          BY <1>4, <2>4, <5>1, Empties
      <4>2. stage = "response"
        BY <3>1, <3>3 DEF AuthStage
      <4>3. Authentication(c)'
        BY <1>4, <2>4, <3>2, <3>3, <4>1, <4>2
        DEF Authentication, ViewerAt, ServerAt
      <4> QED
        BY <1>4, <2>4, <4>2, <4>3 DEF Matched
    <3>4. CASE prim = NONE
      <4>1. toViewer'[c] = <<Msg("secType", {NONE})>>
        <5>1. out = <<Msg("secType", {NONE})>>
          BY <3>1, <3>4, Empties DEF AuthOffer, NONE, VNC
        <5> QED
          BY <1>4, <2>4, <5>1, Empties
      <4>2. stage = "access"
        BY <3>1, <3>4 DEF AuthStage, NONE, VNC
      <4>3. client'[c].minor < 7
        BY <1>4, <2>3, <2>5, <3>1
      <4>4. Access(c)'
        BY <1>4, <2>4, <3>2, <3>4, <4>1, <4>2, <4>3 DEF Access, ViewerAt
      <4> QED
        BY <1>4, <2>4, <4>2, <4>4 DEF Matched
    <3> QED
      BY <1>1, <3>3, <3>4
  <2> QED
    BY <1>5, <2>6, <2>7, <2>8
<1> QED
  BY <1>6, <1>7

LEMMA StepReadSelection ==
  ASSUME StepInv, RightsInv, NEW c \in Conns, ReadSelection(c)
  PROVE  StepInv'
<1> DEFINE type == Said(toServer, c)
           new == [server[c] EXCEPT !.tight = TRUE]
           open == [new EXCEPT !.auth = NONE, !.off = TRUE]
           plain == [server[c] EXCEPT !.auth = type,
                                      !.off = (server[c].prim = NONE)]
<1>1. /\ Matched(c) /\ Shaped(server[c])
      /\ spc[c] = "select" /\ toServer[c] # <<>>
      /\ UNCHANGED <<vpc, client>> /\ server[c].prim \in {NONE, VNC}
  BY DEF StepInv, RightsInv, ReadSelection, Hears, RightsAt
<1>2. /\ new.minor = server[c].minor /\ new.tight = TRUE
      /\ open.minor = server[c].minor /\ open.tight = TRUE
      /\ open.auth = NONE
      /\ plain.minor = server[c].minor /\ plain.tight = server[c].tight
      /\ plain.auth = type
  BY <1>1 DEF Shaped, Fields
<1>3. PICK stage, out, s :
        /\ Server(c, stage) /\ server' = [server EXCEPT ![c] = s]
        /\ ServerTakes(c, out)
        /\ \/ /\ type = TIGHT /\ stage = "authSelect" /\ s = new
              /\ out = <<Tunnels, AuthCaps({VNC})>>
           \/ /\ type = TIGHT /\ stage = "access" /\ s = open
              /\ out = <<Tunnels, AuthCaps({})>>
           \/ /\ type = server[c].prim /\ stage = AuthStage(type) /\ s = plain
              /\ out = AuthOffer(type)
           \/ /\ type # TIGHT /\ stage = "closed" /\ s = NewServer
              /\ out = <<>>
  <2>1. CASE type = TIGHT /\ config.using
    <3>1. /\ Server(c, "authSelect") /\ server' = [server EXCEPT ![c] = new]
          /\ ServerTakes(c, <<Tunnels>> \o <<AuthCaps({VNC})>>)
      BY <2>1 DEF ReadSelection, Tunnels, AuthCaps
    <3>2. <<Tunnels>> \o <<AuthCaps({VNC})>> = <<Tunnels, AuthCaps({VNC})>>
      BY OneAndOne
    <3> HIDE DEF type, new
    <3> QED
      BY <2>1, <3>1, <3>2
  <2>2. CASE type = TIGHT /\ ~config.using
    <3>1. /\ Server(c, "access") /\ server' = [server EXCEPT ![c] = open]
          /\ ServerTakes(c, <<Tunnels>> \o <<AuthCaps({})>>)
      BY <2>2 DEF ReadSelection, Tunnels, AuthCaps
    <3>2. <<Tunnels>> \o <<AuthCaps({})>> = <<Tunnels, AuthCaps({})>>
      BY OneAndOne
    <3> HIDE DEF type, open
    <3> QED
      BY <2>2, <3>1, <3>2
  <2>3. CASE type # TIGHT /\ MaySelect(c, type)
    <3>1. /\ Server(c, AuthStage(type)) /\ server' = [server EXCEPT ![c] = plain]
          /\ ServerTakes(c, AuthOffer(type)) /\ type = server[c].prim
      BY <2>3 DEF ReadSelection, MaySelect
    <3> HIDE DEF type, plain
    <3> QED
      BY <3>1
  <2>4. CASE type # TIGHT /\ ~MaySelect(c, type)
    BY <2>4 DEF ReadSelection, ServerCloses
  <2> QED
    BY <2>1, <2>2, <2>3, <2>4
<1>4. /\ spc'[c] = stage /\ server'[c] = s
      /\ toServer'[c] = Tail(toServer[c])
      /\ toViewer'[c] = toViewer[c] \o out
      /\ vpc'[c] = vpc[c] /\ client'[c] = client[c]
      /\ Matched(c)' => StepInv'
  BY <1>1, <1>3, ServerReads
<1>5. stage \in {"closed", "authSelect", "response", "access"}
  BY <1>3 DEF AuthStage
<1>6. AuthStage(VNC) = "response" /\ AuthStage(NONE) = "access"
      /\ AuthOffer(VNC) = <<Msg("challenge", {})>> /\ AuthOffer(NONE) = <<>>
  BY DEF AuthStage, AuthOffer, VNC, NONE
<1>7. ASSUME NEW x, NEW tail, toServer[c] = <<AnswerOf(x)>> \o tail,
             tail = <<>> \/ tail = <<ClientInit>>
      PROVE  type = x /\ toServer'[c] = tail
  <2>1. Head(toServer[c]) = AnswerOf(x) /\ Tail(toServer[c]) = tail
    <3>1. CASE tail = <<>>
      <4>1. toServer[c] = <<AnswerOf(x)>>
        BY <1>7, <3>1, Empties
      <4> QED
        BY <3>1, <4>1
    <3>2. CASE tail = <<ClientInit>>
      <4>1. toServer[c] = <<AnswerOf(x), ClientInit>>
        BY <1>7, <3>2, OneAndOne
      <4> QED
        BY <3>2, <4>1
    <3> QED
      BY <1>7, <3>1, <3>2
  <2> QED
    BY <1>4, <2>1, WhatIsSaid DEF AnswerOf
<1>8. \A x : <<AnswerOf(x)>> \o <<>> = <<AnswerOf(x)>>
             /\ <<AnswerOf(x)>> \o <<ClientInit>> = <<AnswerOf(x), ClientInit>>
  BY Empties, OneAndOne
<1> HIDE DEF type, new, open, plain
<1>9. CASE vpc[c] = "closed"
  <2>1. \/ toServer[c] = <<AnswerOf(NONE), ClientInit>>
        \/ \E x \in {NONE, VNC, TIGHT} : toServer[c] = <<AnswerOf(x)>>
    BY <1>1, <1>9 DEF Matched, ServerAlone, ServerAt
  <2>2. CASE toServer[c] = <<AnswerOf(NONE), ClientInit>>
    <3>1. type = NONE /\ toServer'[c] = <<ClientInit>>
      BY <1>7, <1>8, <2>2
    <3>2. stage \in {"closed", "access"}
      BY <1>3, <1>6, <3>1 DEF NONE, TIGHT
    <3> QED
      BY <1>4, <1>9, <3>1, <3>2 DEF Matched, ServerAlone
  <2>3. CASE \E x \in {NONE, VNC, TIGHT} : toServer[c] = <<AnswerOf(x)>>
    <3>1. toServer'[c] = <<>>
      BY <1>7, <1>8, <2>3
    <3> QED
      BY <1>4, <1>5, <1>9, <3>1 DEF Matched, ServerAlone
  <2> QED
    BY <2>1, <2>2, <2>3
<1>10. CASE vpc[c] # "closed"
  <2>1. Selection(c)
    BY <1>1, <1>10
    DEF Matched, Versions, AuthSelection, Authentication, Access,
        Initialization, ServerAt
  <2>2. /\ server[c].minor = client[c].minor /\ server[c].minor >= 7
        /\ server[c].tight = FALSE
        /\ client[c].minor \in {3, 7, 8}
    BY <2>1 DEF Selection, StepInv, AllKinds
  <2>3. CASE /\ client[c].tight = TRUE /\ toServer[c] = <<AnswerOf(TIGHT)>>
             /\ ViewerAt(c, "tunnels", <<>>)
    <3>1. type = TIGHT /\ toServer'[c] = <<>>
      BY <1>7, <1>8, <2>3
    <3>2. type # server[c].prim
      BY <1>1, <3>1 DEF TIGHT, NONE, VNC
    <3>3. toViewer[c] = <<>> /\ vpc[c] = "tunnels"
      BY <2>3 DEF ViewerAt
    <3>4. s \in {new, open}
      BY <1>3, <3>1, <3>2
    <3>5. Alike(c)'
      BY <1>2, <1>4, <2>2, <2>3, <3>4 DEF Alike
    <3>6. out = <<Tunnels, AuthCaps({VNC})>> \/ out = <<Tunnels, AuthCaps({})>>
      BY <1>3, <3>1, <3>2
    <3>7. toViewer'[c] = out
      <4>1. <<>> \o out = out
        BY <3>6, Empties
      <4> QED
        BY <1>4, <3>3, <4>1
    <3>8. CASE stage = "authSelect"
      <4>1. AuthSelection(c)'
        BY <1>3, <1>4, <1>6, <3>1, <3>2, <3>3, <3>5, <3>7, <3>8
        DEF AuthSelection, ViewerAt
      <4> QED
        BY <1>4, <3>3, <3>8, <4>1 DEF Matched
    <3>9. CASE stage = "access"
      <4>1. server'[c].auth = NONE /\ toViewer'[c] = <<Tunnels, AuthCaps({})>>
        BY <1>2, <1>3, <1>4, <3>2, <3>3, <3>7, <3>9, <3>1
      <4>2. Access(c)'
        BY <1>4, <3>1, <3>3, <3>5, <3>9, <4>1 DEF Access, ViewerAt
      <4> QED
        BY <1>4, <3>3, <3>9, <4>2 DEF Matched
    <3> QED
      BY <1>3, <3>1, <3>2, <3>8, <3>9
  <2>4. ASSUME type # TIGHT, stage # "closed"
        PROVE  /\ type = server[c].prim /\ stage = AuthStage(type)
               /\ server'[c].auth = type /\ out = AuthOffer(type)
               /\ server'[c].minor = server[c].minor
               /\ server'[c].tight = server[c].tight
    BY <1>2, <1>3, <1>4, <2>4
  <2>5. CASE /\ client[c].tight = FALSE /\ toServer[c] = <<AnswerOf(VNC)>>
             /\ ViewerAt(c, "challenge", <<>>)
    <3>1. type = VNC /\ type # TIGHT /\ toServer'[c] = <<>>
      BY <1>7, <1>8, <2>5 DEF VNC, TIGHT
    <3>2. CASE stage = "closed"
      <4>1. toViewer'[c] = <<>>
        BY <1>3, <1>4, <1>6, <2>5, <3>1, <3>2, Empties DEF ViewerAt
      <4> QED
        BY <1>4, <2>5, <3>2, <4>1 DEF Matched, ViewerAlone, ViewerAt
    <3>3. CASE stage # "closed"
      <4>1. /\ stage = "response" /\ toViewer'[c] = <<Msg("challenge", {})>>
            /\ server'[c].auth = VNC /\ Alike(c)'
        BY <1>4, <1>6, <2>2, <2>4, <2>5, <3>1, <3>3, Empties
        DEF Alike, ViewerAt
      <4>2. Authentication(c)'
        BY <1>4, <2>5, <3>1, <4>1 DEF Authentication, ViewerAt, ServerAt
      <4> QED
        BY <1>4, <2>5, <4>1, <4>2 DEF Matched, ViewerAt
    <3> QED
      BY <3>2, <3>3
  <2>6. CASE /\ client[c].tight = FALSE
             /\ \/ /\ toServer[c] = <<AnswerOf(NONE)>> /\ client[c].minor >= 8
                   /\ ViewerAt(c, "result", <<>>)
                \/ /\ toServer[c] = <<AnswerOf(NONE), ClientInit>>
                   /\ client[c].minor < 8
                   /\ ViewerAt(c, "serverInit", <<>>)
    <3>1. /\ type = NONE /\ type # TIGHT
          /\ \/ /\ toServer'[c] = <<>> /\ vpc[c] = "result"
                /\ client[c].minor >= 8
             \/ /\ toServer'[c] = <<ClientInit>> /\ vpc[c] = "serverInit"
                /\ client[c].minor < 8
      BY <1>7, <1>8, <2>6 DEF NONE, TIGHT, ViewerAt
    <3>2. toViewer'[c] = <<>>
      <4>1. out = <<>> /\ toViewer[c] = <<>>
        BY <1>3, <1>6, <2>6, <3>1 DEF ViewerAt
      <4> QED
        BY <1>4, <4>1, Empties
    <3>3. CASE stage = "closed"
      BY <1>4, <3>1, <3>2, <3>3 DEF Matched, ViewerAlone, ViewerAt
    <3>4. CASE stage # "closed"
      <4>1. stage = "access" /\ server'[c].auth = NONE /\ Alike(c)'
        BY <1>4, <1>6, <2>2, <2>4, <2>6, <3>1, <3>4 DEF Alike
      <4>2. /\ client[c].minor >= 8 => SendsResult(c)'
            /\ client[c].minor < 8 => ~SendsResult(c)'
        BY <1>4, <2>2, <4>1 DEF SendsResult, Alike
      <4>3. Access(c)'
        BY <1>4, <3>1, <3>2, <4>1, <4>2 DEF Access, ViewerAt
      <4> QED
        BY <1>4, <3>1, <4>1, <4>3 DEF Matched
    <3> QED
      BY <3>3, <3>4
  <2> QED
    BY <1>1, <2>1, <2>3, <2>5, <2>6 DEF Selection
<1> QED
  BY <1>9, <1>10

LEMMA StepReadAuthSelection ==
  ASSUME StepInv, RightsInv, NEW c \in Conns, ReadAuthSelection(c)
  PROVE  StepInv'
<1> DEFINE new == [server[c] EXCEPT !.auth = VNC]
           offer == <<Msg("challenge", {})>>
<1>1. /\ Matched(c) /\ Shaped(server[c])
      /\ spc[c] = "authSelect" /\ toServer[c] # <<>>
  BY DEF StepInv, RightsInv, ReadAuthSelection, Hears
<1>2. /\ new.minor = server[c].minor /\ new.tight = server[c].tight
      /\ new.auth = VNC
  BY <1>1 DEF Shaped, Fields
<1>3. /\ Server(c, "response") /\ server' = [server EXCEPT ![c] = new]
      /\ ServerTakes(c, offer) /\ UNCHANGED <<vpc, client>>
  BY DEF ReadAuthSelection, AuthOffer, AuthStage
<1> HIDE DEF new
<1>4. /\ spc'[c] = "response" /\ server'[c] = new
      /\ toServer'[c] = Tail(toServer[c])
      /\ toViewer'[c] = toViewer[c] \o offer
      /\ vpc'[c] = vpc[c] /\ client'[c] = client[c]
      /\ Matched(c)' => StepInv'
  BY <1>3, ServerReads
<1>5. CASE vpc[c] = "closed"
  <2>1. toServer[c] = <<Msg("authSelect", {VNC})>>
    BY <1>1, <1>5 DEF Matched, ServerAlone, ServerAt
  <2>2. toServer'[c] = <<>>
    BY <1>4, <2>1
  <2> QED
    BY <1>4, <1>5, <2>2 DEF Matched, ServerAlone
<1>6. CASE vpc[c] # "closed"
  <2>1. AuthSelection(c)
    BY <1>1, <1>6
    DEF Matched, Versions, Selection, Authentication, Access,
        Initialization, ServerAt
  <2>2. /\ toServer[c] = <<Msg("authSelect", {VNC})>>
        /\ vpc[c] = "challenge" /\ toViewer[c] = <<>> /\ Alike(c)
    BY <1>1, <2>1 DEF AuthSelection, ViewerAt
  <2>3. toServer'[c] = <<>> /\ toViewer'[c] = offer
    BY <1>4, <2>2, Empties
  <2>4. Alike(c)'
    BY <1>2, <1>4, <2>2 DEF Alike
  <2>5. Authentication(c)'
    BY <1>2, <1>4, <2>2, <2>3, <2>4 DEF Authentication, ServerAt, ViewerAt
  <2> QED
    BY <1>4, <2>2, <2>5 DEF Matched
<1> QED
  BY <1>5, <1>6

\* A failed authentication leaves a viewer that waits for its result.
LEMMA FailureIsRead ==
  ASSUME NEW c \in Conns, spc'[c] = "closed", vpc'[c] = "result",
         client'[c].minor = server[c].minor, toViewer'[c] = Failure(c)
  PROVE  Matched(c)'
<1>1. CASE server[c].minor >= 8
  <2>1. toViewer'[c] = <<Failed, Reason>>
    BY <1>1 DEF Failure, Failed, Reason
  <2> QED
    BY <1>1, <2>1 DEF Matched, ViewerAlone, ViewerAt
<1>2. CASE ~(server[c].minor >= 8)
  <2>1. toViewer'[c] = <<>>
    BY <1>2 DEF Failure
  <2> QED
    BY <2>1 DEF Matched, ViewerAlone, ViewerAt
<1> QED
  BY <1>1, <1>2

LEMMA AfterNothing ==
  ASSUME NEW c \in Conns
  PROVE  <<>> \o Failure(c) = Failure(c)
BY Empties DEF Failure

LEMMA StepReadResponse ==
  ASSUME StepInv, RightsInv, NEW c \in Conns, ReadResponse(c)
  PROVE  StepInv'
<1> DEFINE said == Said(toServer, c)
           new == [server[c] EXCEPT !.typed = said]
<1>1. /\ Matched(c) /\ Shaped(server[c])
      /\ spc[c] = "response" /\ toServer[c] # <<>>
      /\ UNCHANGED <<vpc, client>>
  BY DEF StepInv, RightsInv, ReadResponse, Hears
<1>2. /\ new.minor = server[c].minor /\ new.tight = server[c].tight
      /\ new.auth = server[c].auth
  BY <1>1 DEF Shaped, Fields
<1>3. PICK stage, out, s :
        /\ Server(c, stage) /\ server' = [server EXCEPT ![c] = s]
        /\ ServerTakes(c, out)
        /\ \/ stage = "closed" /\ out = Failure(c)
           \/ stage = "verify" /\ out = <<>> /\ s = new
  BY DEF ReadResponse, ServerCloses
<1> HIDE DEF new
<1>4. /\ spc'[c] = stage /\ server'[c] = s
      /\ toServer'[c] = Tail(toServer[c])
      /\ toViewer'[c] = toViewer[c] \o out
      /\ vpc'[c] = vpc[c] /\ client'[c] = client[c]
      /\ Matched(c)' => StepInv'
  BY <1>1, <1>3, ServerReads
<1>5. CASE vpc[c] = "closed"
  <2>1. PICK p : toServer[c] = <<Msg("response", {p})>>
    BY <1>1, <1>5 DEF Matched, ServerAlone, ServerAt
  <2>2. toServer'[c] = <<>>
    BY <1>4, <2>1
  <2> QED
    BY <1>3, <1>4, <1>5, <2>2 DEF Matched, ServerAlone
<1>6. CASE vpc[c] # "closed"
  <2>1. Authentication(c)
    BY <1>1, <1>6
    DEF Matched, Versions, Selection, AuthSelection, Access,
        Initialization, ServerAt
  <2>2. /\ \E p : toServer[c] = <<Msg("response", {p})>>
        /\ vpc[c] = "result" /\ toViewer[c] = <<>> /\ Alike(c)
        /\ server[c].auth = VNC
    BY <1>1, <2>1 DEF Authentication, ViewerAt, ServerAt
  <2>3. toServer'[c] = <<>>
    BY <1>4, <2>2
  <2>4. CASE stage = "closed"
    <3>1. toViewer'[c] = Failure(c)
      BY <1>3, <1>4, <2>2, <2>4, AfterNothing
    <3> QED
      BY <1>4, <2>2, <2>4, <3>1, FailureIsRead DEF Alike
  <2>5. CASE stage = "verify"
    <3>1. toViewer'[c] = <<>> /\ s = new
      BY <1>3, <1>4, <2>2, <2>5, Empties
    <3>2. Alike(c)' /\ server'[c].auth = VNC
      BY <1>2, <1>4, <2>2, <3>1 DEF Alike
    <3>3. Authentication(c)'
      BY <1>4, <2>2, <2>3, <2>5, <3>1, <3>2
      DEF Authentication, ServerAt, ViewerAt
    <3> QED
      BY <1>4, <2>2, <2>5, <3>3 DEF Matched
  <2> QED
    BY <1>3, <2>4, <2>5
<1> QED
  BY <1>5, <1>6

LEMMA StepVerify ==
  ASSUME StepInv, RightsInv, NEW c \in Conns, Verify(c)
  PROVE  StepInv'
<1> DEFINE new == [server[c] EXCEPT !.viewOnly =
                                      (server[c].typed = "readonly")]
<1>1. /\ Matched(c) /\ Shaped(server[c])
      /\ spc[c] = "verify" /\ UNCHANGED <<vpc, client>>
      /\ OnConns(toServer) /\ OnConns(toViewer)
  BY DEF StepInv, RightsInv, Verify
<1>2. /\ new.minor = server[c].minor /\ new.tight = server[c].tight
      /\ new.auth = server[c].auth
  BY <1>1 DEF Shaped, Fields
<1>3. ServerAlone(c) => toServer[c] = <<>>
  BY <1>1 DEF ServerAlone, ServerAt
<1>4. ASSUME vpc[c] # "closed"
      PROVE  /\ toServer[c] = <<>> /\ vpc[c] = "result" /\ toViewer[c] = <<>>
             /\ Alike(c) /\ server[c].auth = VNC
  <2>1. Authentication(c)
    BY <1>1, <1>4
    DEF Matched, Versions, Selection, AuthSelection, Access,
        Initialization, ServerAt
  <2> QED
    BY <1>1, <2>1 DEF Authentication, ViewerAt, ServerAt
<1>5. CASE server[c].typed \in config.passwords
  <2>1. /\ Server(c, "access") /\ server' = [server EXCEPT ![c] = new]
        /\ toServer' = [toServer EXCEPT ![c] = toServer[c]]
        /\ toViewer' = [toViewer EXCEPT ![c] = toViewer[c]]
    BY <1>1, <1>5 DEF Verify, channels, OnConns
  <2> HIDE DEF new
  <2>2. /\ spc'[c] = "access" /\ server'[c] = new
        /\ toServer'[c] = toServer[c] /\ toViewer'[c] = toViewer[c]
        /\ vpc'[c] = vpc[c] /\ client'[c] = client[c]
        /\ Matched(c)' => StepInv'
    BY <1>1, <2>1, ServerMoves
  <2>3. CASE vpc[c] = "closed"
    BY <1>1, <1>3, <2>2, <2>3 DEF Matched, ServerAlone
  <2>4. CASE vpc[c] # "closed"
    <3>1. Alike(c)'
      BY <1>2, <1>4, <2>2, <2>4 DEF Alike
    <3>2. SendsResult(c)'
      BY <1>2, <1>4, <2>2, <2>4 DEF SendsResult, VNC, NONE
    <3>3. Access(c)'
      BY <1>4, <2>2, <2>4, <3>1, <3>2 DEF Access, ViewerAt
    <3> QED
      BY <2>2, <2>4, <3>3 DEF Matched
  <2> QED
    BY <2>3, <2>4
<1>6. CASE server[c].typed \notin config.passwords
  <2>1. /\ Server(c, "closed") /\ server' = [server EXCEPT ![c] = NewServer]
        /\ ServerWrites(c, Failure(c))
    BY <1>6 DEF Verify, ServerCloses
  <2>2. /\ spc'[c] = "closed"
        /\ toViewer'[c] = toViewer[c] \o Failure(c)
        /\ vpc'[c] = vpc[c] /\ client'[c] = client[c]
        /\ Matched(c)' => StepInv'
    BY <1>1, <2>1, ServerSpeaks
  <2>3. CASE vpc[c] = "closed"
    BY <2>2, <2>3 DEF Matched
  <2>4. CASE vpc[c] # "closed"
    <3>1. toViewer'[c] = Failure(c)
      BY <1>4, <2>2, <2>4, AfterNothing
    <3> QED
      BY <1>4, <2>2, <2>4, <3>1, FailureIsRead DEF Alike
  <2> QED
    BY <2>3, <2>4
<1> QED
  BY <1>5, <1>6

\* The decision on the access, for a viewer that is there: what it has to read
\* before what it is told, and what it is told.
LEMMA AccessDecided ==
  ASSUME NEW c \in Conns, Access(c), NEW told, client[c].minor \in {3, 7, 8},
         spc'[c] \in {"closed", "clientInit"}, vpc'[c] = vpc[c],
         client'[c] = client[c], toServer'[c] = toServer[c],
         toViewer'[c] = toViewer[c] \o told,
         \/ /\ spc'[c] = "clientInit" /\ server'[c] = server[c]
            /\ told = IF SendsResult(c) THEN <<Ok>> ELSE <<>>
         \/ spc'[c] = "closed" /\ told = Failure(c)
  PROVE  Matched(c)'
<1>1. Alike(c) /\ server[c].minor = client[c].minor
  BY DEF Access, Alike
<1>2. CASE /\ server[c].auth = NONE /\ toServer[c] = <<>>
           /\ \/ ViewerAt(c, "tunnels", <<Tunnels, AuthCaps({})>>)
              \/ ViewerAt(c, "authCaps", <<AuthCaps({})>>)
              \/ ViewerAt(c, "types", <<Msg("secType", {NONE})>>)
                 /\ client[c].minor < 7
  <2>1. SendsResult(c) <=> client[c].minor >= 8
    BY <1>1, <1>2 DEF SendsResult
  <2>2. CASE client[c].minor < 8
    <3>1. told = <<>>
      <4>1. ~SendsResult(c) /\ ~(server[c].minor >= 8)
        BY <1>1, <2>1, <2>2
      <4> QED
        BY <4>1 DEF Failure
    <3>2. toViewer'[c] = toViewer[c]
      BY <1>2, <3>1, Empties DEF ViewerAt
    <3>3. CASE spc'[c] = "closed"
      BY <1>2, <3>2, <3>3 DEF Matched, ViewerAlone, ViewerAt
    <3>4. CASE spc'[c] = "clientInit"
      <4>1. server'[c] = server[c] /\ Alike(c)'
        BY <1>1, <3>4 DEF Alike
      <4>2. Initialization(c)'
        BY <1>2, <2>2, <3>2, <3>4, <4>1 DEF Initialization, ViewerAt
      <4> QED
        BY <1>2, <3>4, <4>2 DEF Matched, ViewerAt
    <3> QED
      BY <3>3, <3>4
  <2>3. CASE client[c].minor >= 8
    <3>1. \/ ViewerAt(c, "tunnels", <<Tunnels, AuthCaps({})>>)
          \/ ViewerAt(c, "authCaps", <<AuthCaps({})>>)
      BY <1>2, <2>3
    <3>2. CASE spc'[c] = "closed"
      <4>1. told = <<Failed, Reason>>
        BY <1>1, <2>3, <3>2 DEF Failure, Failed, Reason
      <4>2. \/ /\ vpc[c] = "tunnels"
               /\ toViewer'[c] = <<Tunnels, AuthCaps({}), Failed, Reason>>
            \/ /\ vpc[c] = "authCaps"
               /\ toViewer'[c] = <<AuthCaps({}), Failed, Reason>>
        <5>1. CASE ViewerAt(c, "tunnels", <<Tunnels, AuthCaps({})>>)
          BY <4>1, <5>1, TwoAndTwo DEF ViewerAt
        <5>2. CASE ViewerAt(c, "authCaps", <<AuthCaps({})>>)
          BY <4>1, <5>2, OneAndTwo DEF ViewerAt
        <5> QED
          BY <3>1, <5>1, <5>2
      <4> QED
        BY <2>3, <3>2, <4>2 DEF Matched, ViewerAlone, ViewerAt
    <3>3. CASE spc'[c] = "clientInit"
      <4>1. told = <<Ok>> /\ server'[c] = server[c]
        BY <2>1, <2>3, <3>3
      <4>2. \/ /\ vpc[c] = "tunnels"
               /\ toViewer'[c] = <<Tunnels, AuthCaps({}), Ok>>
            \/ /\ vpc[c] = "authCaps"
               /\ toViewer'[c] = <<AuthCaps({}), Ok>>
        BY <3>1, <4>1, OneAndOne, TwoAndOne DEF ViewerAt
      <4>3. Alike(c)'
        BY <1>1, <4>1 DEF Alike
      <4>4. Initialization(c)'
        BY <1>2, <2>3, <3>3, <4>2, <4>3 DEF Initialization, ViewerAt
      <4> QED
        BY <3>3, <4>2, <4>4 DEF Matched
    <3> QED
      BY <3>2, <3>3
  <2> QED
    BY <2>2, <2>3
<1>3. CASE toServer[c] = <<>> /\ ViewerAt(c, "result", <<>>) /\ SendsResult(c)
  <2>1. vpc[c] = "result" /\ toViewer[c] = <<>>
    BY <1>3 DEF ViewerAt
  <2>2. CASE spc'[c] = "closed"
    <3>1. toViewer'[c] = Failure(c)
      BY <2>1, <2>2, AfterNothing
    <3> QED
      BY <1>1, <2>1, <2>2, <3>1, FailureIsRead
  <2>3. CASE spc'[c] = "clientInit"
    <3>1. toViewer'[c] = <<Ok>> /\ server'[c] = server[c]
      BY <1>3, <2>1, <2>3, Empties
    <3>2. Alike(c)'
      BY <1>1, <3>1 DEF Alike
    <3>3. Initialization(c)'
      BY <1>3, <2>1, <2>3, <3>1, <3>2 DEF Initialization, ViewerAt
    <3> QED
      BY <2>1, <2>3, <3>3 DEF Matched
  <2> QED
    BY <2>2, <2>3
<1>4. CASE /\ toServer[c] = <<ClientInit>> /\ ViewerAt(c, "serverInit", <<>>)
           /\ ~SendsResult(c)
  <2>1. vpc[c] = "serverInit" /\ toViewer[c] = <<>>
    BY <1>4 DEF ViewerAt
  <2>2. told = <<>>
    BY <1>4 DEF SendsResult, Failure
  <2>3. toViewer'[c] = <<>>
    BY <2>1, <2>2, Empties
  <2>4. CASE spc'[c] = "closed"
    BY <2>1, <2>3, <2>4 DEF Matched, ViewerAlone, ViewerAt
  <2>5. CASE spc'[c] = "clientInit"
    <3>1. Alike(c)'
      BY <1>1, <2>5 DEF Alike
    <3>2. Initialization(c)'
      BY <1>4, <2>1, <2>3, <2>5, <3>1 DEF Initialization, ViewerAt
    <3> QED
      BY <2>1, <2>5, <3>2 DEF Matched
  <2> QED
    BY <2>4, <2>5
<1> QED
  BY <1>2, <1>3, <1>4 DEF Access

LEMMA StepCheckAccess ==
  ASSUME StepInv, RightsInv, NEW c \in Conns, CheckAccess(c)
  PROVE  StepInv'
<1>1. /\ Matched(c) /\ spc[c] = "access" /\ UNCHANGED <<vpc, client>>
      /\ client[c].minor \in {3, 7, 8} /\ OnConns(server)
  BY DEF StepInv, CheckAccess, AllKinds
<1>2. PICK stage, told, s :
        /\ Server(c, stage) /\ server' = [server EXCEPT ![c] = s]
        /\ ServerWrites(c, told)
        /\ \/ /\ stage = "clientInit" /\ s = server[c]
              /\ told = IF SendsResult(c) THEN <<Ok>> ELSE <<>>
           \/ stage = "closed" /\ told = Failure(c)
  <2>1. UNCHANGED server => server' = [server EXCEPT ![c] = server[c]]
    BY <1>1 DEF OnConns
  <2>2. CASE Server(c, "clientInit")
             /\ ServerWrites(c, IF SendsResult(c) THEN <<Ok>> ELSE <<>>)
             /\ UNCHANGED server
    BY <2>1, <2>2
  <2>3. CASE ServerWrites(c, Failure(c)) /\ ServerCloses(c)
    BY <2>3 DEF ServerCloses
  <2> QED
    BY <2>2, <2>3 DEF CheckAccess, Ok
<1>3. /\ spc'[c] = stage /\ server'[c] = s
      /\ toServer'[c] = toServer[c]
      /\ toViewer'[c] = toViewer[c] \o told
      /\ vpc'[c] = vpc[c] /\ client'[c] = client[c]
      /\ Matched(c)' => StepInv'
  BY <1>1, <1>2, ServerSpeaks
<1>4. CASE vpc[c] = "closed"
  <2>1. toServer[c] \in {<<>>, <<ClientInit>>}
    BY <1>1, <1>4 DEF Matched, ServerAlone, ServerAt
  <2> QED
    BY <1>2, <1>3, <1>4, <2>1 DEF Matched, ServerAlone
<1>5. CASE vpc[c] # "closed"
  <2>1. Access(c)
    BY <1>1, <1>5
    DEF Matched, Versions, Selection, AuthSelection, Authentication,
        Initialization, ServerAt
  <2>2. Matched(c)'
    BY <1>1, <1>2, <1>3, <2>1, AccessDecided
  <2> QED
    BY <1>3, <2>2
<1> QED
  BY <1>4, <1>5

LEMMA StepReadClientInit ==
  ASSUME StepInv, RightsInv, NEW c \in Conns, ReadClientInit(c)
  PROVE  StepInv'
<1> DEFINE init == Msg("serverInit", {})
           caps == Msg("caps", {})
<1>1. /\ Matched(c) /\ spc[c] = "clientInit" /\ toServer[c] # <<>>
      /\ client[c].tight \in BOOLEAN /\ OnConns(server)
      /\ UNCHANGED <<vpc, client>>
  BY DEF StepInv, ReadClientInit, Hears, AllKinds
<1>2. PICK stage, out, s :
        /\ Server(c, stage) /\ server' = [server EXCEPT ![c] = s]
        /\ ServerTakes(c, out)
        /\ \/ /\ stage = "normal"
              /\ out = IF server[c].tight THEN <<init, caps>> ELSE <<init>>
           \/ stage = "closed" /\ out = <<>>
  <2>1. CASE ServerTakes(c, <<>>) /\ ServerCloses(c)
    BY <2>1 DEF ServerCloses
  <2>2. CASE /\ ServerTakes(c, <<init>> \o IF server[c].tight THEN <<caps>>
                                                              ELSE <<>>)
             /\ Server(c, "normal") /\ UNCHANGED server
    <3>1. server' = [server EXCEPT ![c] = server[c]]
      BY <1>1, <2>2 DEF OnConns
    <3>2. <<init>> \o (IF server[c].tight THEN <<caps>> ELSE <<>>)
            = IF server[c].tight THEN <<init, caps>> ELSE <<init>>
      BY OneAndOne, Empties
    <3> QED
      BY <2>2, <3>1, <3>2
  <2> QED
    BY <2>1, <2>2 DEF ReadClientInit
<1>3. /\ spc'[c] = stage /\ server'[c] = s
      /\ toServer'[c] = Tail(toServer[c])
      /\ toViewer'[c] = toViewer[c] \o out
      /\ vpc'[c] = vpc[c] /\ client'[c] = client[c]
      /\ Matched(c)' => StepInv'
  BY <1>1, <1>2, ServerReads
<1>4. CASE vpc[c] = "closed"
  <2>1. toServer[c] = <<ClientInit>>
    BY <1>1, <1>4 DEF Matched, ServerAlone, ServerAt
  <2>2. toServer'[c] = <<>>
    BY <1>3, <2>1
  <2> QED
    BY <1>2, <1>3, <1>4, <2>2 DEF Matched, ServerAlone
<1>5. CASE vpc[c] # "closed"
  <2>1. Initialization(c)
    BY <1>1, <1>5
    DEF Matched, Versions, Selection, AuthSelection, Authentication, Access,
        ServerAt
  <2>2. /\ toServer[c] = <<ClientInit>> /\ vpc[c] = "serverInit"
        /\ toViewer[c] = <<>> /\ server[c].tight = client[c].tight
    BY <1>1, <2>1 DEF Initialization, ViewerAt, Alike
  <2>3. toServer'[c] = <<>> /\ toViewer'[c] = out
    BY <1>2, <1>3, <2>2, Empties
  <2>4. CASE stage = "closed"
    BY <1>2, <1>3, <2>2, <2>3, <2>4 DEF Matched, ViewerAlone, ViewerAt
  <2>5. CASE stage = "normal"
    <3>1. out = IF client[c].tight = TRUE THEN <<init, caps>> ELSE <<init>>
      BY <1>1, <1>2, <2>2, <2>5
    <3>2. LastReads(c)'
      BY <1>1, <1>3, <2>2, <2>3, <3>1 DEF LastReads, ViewerAt
    <3> QED
      BY <1>3, <2>2, <2>3, <2>5, <3>2 DEF Matched, ServerAt
  <2> QED
    BY <1>2, <2>4, <2>5
<1> QED
  BY <1>4, <1>5

\* The server goes without a word.
LEMMA StepServerGoes ==
  ASSUME StepInv, NEW c \in Conns, ServerReadFails(c) \/ Disconnect(c)
  PROVE  StepInv'
<1>1. /\ Server(c, "closed") /\ server' = [server EXCEPT ![c] = NewServer]
      /\ toServer' = [toServer EXCEPT ![c] = toServer[c]]
      /\ toViewer' = [toViewer EXCEPT ![c] = toViewer[c]]
      /\ UNCHANGED <<vpc, client>>
  BY DEF ServerReadFails, Disconnect, ServerCloses, channels, StepInv, OnConns
<1>2. /\ spc'[c] = "closed" /\ toViewer'[c] = toViewer[c]
      /\ vpc'[c] = vpc[c] /\ client'[c] = client[c]
      /\ Matched(c)' => StepInv'
  BY <1>1, ServerMoves
<1>3. CASE vpc[c] = "closed"
  BY <1>2, <1>3 DEF Matched
<1>4. CASE vpc[c] # "closed"
  <2>1. spc[c] = "normal" /\ Matched(c)
    BY <1>4 DEF ServerReadFails, Disconnect, StepInv
  <2>2. LastReads(c)
    BY <1>4, <2>1
    DEF Matched, Versions, Selection, AuthSelection, Authentication, Access,
        Initialization, ServerAt
  <2>3. LastReads(c)'
    BY <1>2, <2>2 DEF LastReads, ViewerAt
  <2> QED
    BY <1>2, <1>4, <2>3 DEF Matched, ViewerAlone
<1> QED
  BY <1>3, <1>4

--------------------------------------------------------------------------------
(* The steps of the viewer end.                                            *)

\* The viewer takes a message and answers.
LEMMA ViewerReads ==
  ASSUME StepInv, NEW c \in Conns, NEW out, NEW stage,
         Viewer(c, stage), ViewerTakes(c, out), UNCHANGED <<spc, server>>
  PROVE  /\ vpc'[c] = stage
         /\ client'[c] = IF stage = "closed" THEN NoClient ELSE client[c]
         /\ toServer'[c] = toServer[c] \o out
         /\ toViewer'[c] = Tail(toViewer[c])
         /\ spc'[c] = spc[c] /\ server'[c] = server[c]
         /\ Matched(c)' => StepInv'
<1>1. /\ toServer' = [toServer EXCEPT ![c] = toServer[c] \o out]
      /\ toViewer' = [toViewer EXCEPT ![c] = Tail(toViewer[c])]
  BY DEF ViewerTakes
<1> QED
  BY <1>1, ViewerMoves

\* The messages differ by their names.
LEMMA NamesOfMessages ==
  ASSUME NEW x
  PROVE  /\ Msg("version", x).name = "version"
         /\ Msg("secTypes", x).name = "secTypes"
         /\ Msg("secType", x).name = "secType"
         /\ Msg("refused", x).name = "refused" /\ Msg("result", x).name = "result"
         /\ Msg("challenge", x).name = "challenge"
         /\ Msg("serverInit", x).name = "serverInit"
         /\ Msg("caps", x).name = "caps"
         /\ Tunnels.name = "tunnels" /\ AuthCaps(x).name = "authCaps"
         /\ Reason.name = "reason" /\ Ok.name = "result"
         /\ Failed.name = "result" /\ ClientInit.name = "clientInit"
         /\ AuthCaps(x).has = x /\ Msg("secType", x).has = x
         /\ Ok.has = {"ok"} /\ Failed.has = {"failed"}
BY DEF Msg, Tunnels, AuthCaps, Reason, Ok, Failed, ClientInit

LEMMA StepAnswerVersion ==
  ASSUME StepInv, NEW c \in Conns, AnswerVersion(c)
  PROVE  StepInv'
<1> DEFINE out == <<Msg("version", {client[c].minor})>>
<1>1. /\ Matched(c) /\ vpc[c] = "version" /\ toViewer[c] # <<>>
      /\ Viewer(c, "types") /\ ViewerTakes(c, out) /\ UNCHANGED <<spc, server>>
  BY DEF StepInv, AnswerVersion, Hears
<1> HIDE DEF out
<1>2. /\ vpc'[c] = "types" /\ client'[c] = client[c]
      /\ toServer'[c] = toServer[c] \o out
      /\ toViewer'[c] = Tail(toViewer[c])
      /\ spc'[c] = spc[c] /\ server'[c] = server[c]
      /\ Matched(c)' => StepInv'
  BY <1>1, ViewerReads
<1>3. Versions(c)
  BY <1>1
  DEF Matched, ViewerAlone, LastReads, Selection, AuthSelection,
      Authentication, Access, Initialization, ViewerAt
<1>4. /\ toServer[c] = <<>> /\ toViewer[c] = <<Msg("version", {})>>
      /\ spc[c] = "version" /\ server[c].tight = FALSE
  BY <1>1, <1>3 DEF Versions, ViewerAt
<1>5. toServer'[c] = <<Msg("version", {client[c].minor})>>
      /\ toViewer'[c] = <<>>
  BY <1>2, <1>4, Empties DEF out
<1>6. Versions(c)'
  BY <1>2, <1>4, <1>5 DEF Versions, ViewerAt
<1> QED
  BY <1>2, <1>4, <1>6 DEF Matched

LEMMA StepReadRefusal ==
  ASSUME StepInv, NEW c \in Conns, ReadRefusal(c)
  PROVE  StepInv'
<1> DEFINE stage == IF client[c].minor >= 8 THEN "reason" ELSE "closed"
<1>1. /\ Matched(c) /\ vpc[c] = "types" /\ toViewer[c] # <<>>
      /\ Head(toViewer[c]).name = "refused" /\ stage \in {"reason", "closed"}
      /\ Viewer(c, stage) /\ ViewerTakes(c, <<>>) /\ UNCHANGED <<spc, server>>
  BY DEF StepInv, ReadRefusal, Hears
<1> HIDE DEF stage
<1>2. /\ vpc'[c] = stage
      /\ toViewer'[c] = Tail(toViewer[c])
      /\ spc'[c] = spc[c]
      /\ Matched(c)' => StepInv'
  BY <1>1, ViewerReads
<1>3. spc[c] = "closed"
  <2>1. CASE Versions(c) \/ Selection(c)
    BY <1>1, <2>1, NamesOfMessages DEF Versions, Selection, ViewerAt
  <2>2. CASE AuthSelection(c) \/ Authentication(c)
    BY <1>1, <2>2, NamesOfMessages DEF AuthSelection, Authentication, ViewerAt
  <2>3. CASE Access(c) \/ Initialization(c)
    BY <1>1, <2>3, NamesOfMessages DEF Access, Initialization, ViewerAt
  <2> QED
    BY <1>1, <2>1, <2>2, <2>3 DEF Matched, LastReads, ViewerAt
<1>4. toViewer[c] = <<Msg("refused", {}), Reason>>
  BY <1>1, <1>3, NamesOfMessages DEF Matched, ViewerAlone, LastReads, ViewerAt
<1>5. toViewer'[c] = <<Reason>>
  BY <1>2, <1>4
<1> QED
  BY <1>1, <1>2, <1>3, <1>5 DEF Matched, ViewerAlone, ViewerAt

\* Where a viewer waits after NONE, and whether it has sent ClientInit.
LEMMA AfterTypes ==
  ASSUME NEW c \in Conns
  PROVE  /\ AfterType(c, VNC) = "challenge"
         /\ client[c].minor >= 8 => AfterType(c, NONE) = "result"
         /\ ~(client[c].minor >= 8) => AfterType(c, NONE) = "serverInit"
         /\ InitIfDone("serverInit") = <<ClientInit>>
         /\ InitIfDone("result") = <<>> /\ InitIfDone("challenge") = <<>>
BY DEF AfterType, InitIfDone, VNC, NONE, ClientInit

LEMMA StepReadType ==
  ASSUME StepInv, NEW c \in Conns, ReadType(c)
  PROVE  StepInv'
<1>1. PICK type \in Head(toViewer[c]).has :
        /\ ViewerTakes(c, InitIfDone(AfterType(c, type)))
        /\ Viewer(c, AfterType(c, type))
  BY DEF ReadType
<1> DEFINE stage == AfterType(c, type)
           out == InitIfDone(stage)
<1>2. /\ Matched(c) /\ vpc[c] = "types" /\ toViewer[c] # <<>>
      /\ Head(toViewer[c]).name = "secType" /\ UNCHANGED <<spc, server>>
      /\ client[c].minor \in {3, 7, 8}
  BY DEF StepInv, ReadType, Hears, AllKinds
<1>3. /\ vpc'[c] = stage
      /\ client'[c] = IF stage = "closed" THEN NoClient ELSE client[c]
      /\ toServer'[c] = toServer[c] \o out
      /\ toViewer'[c] = Tail(toViewer[c])
      /\ spc'[c] = spc[c] /\ server'[c] = server[c]
      /\ Matched(c)' => StepInv'
  BY <1>1, <1>2, ViewerReads
<1> HIDE DEF stage, out
<1>4. ASSUME toViewer[c] = <<Msg("secType", {NONE})>>
      PROVE  /\ toViewer'[c] = <<>> /\ client'[c] = client[c]
             /\ \/ /\ client[c].minor >= 8 /\ stage = "result" /\ out = <<>>
                \/ /\ client[c].minor < 8 /\ stage = "serverInit"
                   /\ out = <<ClientInit>>
  <2>1. Head(toViewer[c]) = Msg("secType", {NONE}) /\ toViewer'[c] = <<>>
    BY <1>3, <1>4
  <2>2. type = NONE
    BY <1>1, <2>1, NamesOfMessages
  <2>3. \/ /\ client[c].minor >= 8 /\ stage = "result" /\ out = <<>>
        \/ /\ client[c].minor < 8 /\ stage = "serverInit"
           /\ out = <<ClientInit>>
    BY <1>2, <2>2, AfterTypes DEF stage, out
  <2> QED
    BY <1>3, <2>1, <2>3
<1>5. CASE spc[c] = "closed"
  <2>1. toViewer[c] = <<Msg("secType", {NONE})>>
    BY <1>2, <1>5, NamesOfMessages
    DEF Matched, ViewerAlone, LastReads, ViewerAt
  <2> QED
    BY <1>3, <1>4, <1>5, <2>1 DEF Matched, ViewerAlone, ViewerAt
<1>6. CASE spc[c] # "closed"
  <2>1. ~Versions(c) /\ ~Selection(c)
    BY <1>2, NamesOfMessages DEF Versions, Selection, ViewerAt
  <2>2. Authentication(c) \/ Access(c) \/ Initialization(c)
    BY <1>2, <1>6, <2>1 DEF Matched, AuthSelection, LastReads, ViewerAt
  <2>3. CASE Authentication(c)
    <3>1. /\ toViewer[c] = <<Msg("secType", {VNC}), Msg("challenge", {})>>
          /\ toServer[c] = <<>> /\ spc[c] = "response" /\ Alike(c)
          /\ server[c].auth = VNC
      BY <1>2, <2>3 DEF Authentication, ViewerAt, ServerAt
    <3>2. Head(toViewer[c]) = Msg("secType", {VNC})
          /\ toViewer'[c] = <<Msg("challenge", {})>>
      BY <1>3, <3>1
    <3>3. type = VNC
      BY <1>1, <3>2, NamesOfMessages
    <3>4. stage = "challenge" /\ out = <<>>
      BY <3>3, AfterTypes DEF stage, out
    <3>5. toServer'[c] = <<>> /\ client'[c] = client[c]
      BY <1>3, <3>1, <3>4, Empties
    <3>6. Alike(c)'
      BY <1>3, <3>1, <3>5 DEF Alike
    <3>7. Authentication(c)'
      BY <1>3, <3>1, <3>2, <3>4, <3>5, <3>6
      DEF Authentication, ViewerAt, ServerAt
    <3> QED
      BY <1>3, <1>6, <3>4, <3>7 DEF Matched
  <2>4. CASE Access(c) \/ Initialization(c)
    <3>1. /\ toViewer[c] = <<Msg("secType", {NONE})>> /\ toServer[c] = <<>>
          /\ client[c].minor < 7 /\ server[c].auth = NONE /\ Alike(c)
          /\ spc[c] \in {"access", "clientInit"}
      <4>1. CASE Access(c)
        BY <1>2, <4>1 DEF Access, ViewerAt
      <4>2. CASE Initialization(c)
        BY <1>2, <4>2 DEF Initialization, ViewerAt
      <4> QED
        BY <2>4, <4>1, <4>2
    <3>2. /\ toViewer'[c] = <<>> /\ client'[c] = client[c]
          /\ stage = "serverInit" /\ out = <<ClientInit>>
      BY <1>2, <1>4, <3>1
    <3>3. toServer'[c] = <<ClientInit>>
      BY <1>3, <3>1, <3>2, Empties
    <3>4. Alike(c)' /\ ~SendsResult(c)'
      BY <1>2, <1>3, <3>1, <3>2 DEF Alike, SendsResult
    <3>5. Access(c)' \/ Initialization(c)'
      BY <1>3, <3>1, <3>2, <3>3, <3>4 DEF Access, Initialization, ViewerAt
    <3> QED
      BY <1>3, <1>6, <3>2, <3>5 DEF Matched
  <2> QED
    BY <2>2, <2>3, <2>4
<1> QED
  BY <1>5, <1>6

LEMMA StepSelectType ==
  ASSUME StepInv, NEW c \in Conns, SelectType(c)
  PROVE  StepInv'
<1>1. /\ Matched(c) /\ vpc[c] = "types" /\ toViewer[c] # <<>>
      /\ Head(toViewer[c]).name = "secTypes" /\ UNCHANGED <<spc, server>>
      /\ client[c].minor \in {3, 7, 8} /\ client[c].tight \in BOOLEAN
  BY DEF StepInv, SelectType, Hears, AllKinds
<1>2. /\ spc[c] = "select" /\ toServer[c] = <<>> /\ server[c].tight = FALSE
      /\ toViewer[c] = <<Msg("secTypes", {server[c].prim, TIGHT})>>
      /\ server[c].minor = client[c].minor /\ server[c].minor >= 7
  <2>1. ~ViewerAlone(c)
    BY <1>1, NamesOfMessages DEF ViewerAlone, LastReads, ViewerAt
  <2>2. ~Versions(c) /\ ~AuthSelection(c) /\ ~Authentication(c)
    BY <1>1, NamesOfMessages
    DEF Versions, AuthSelection, Authentication, ViewerAt
  <2>3. ~Access(c) /\ ~Initialization(c) /\ ~LastReads(c)
    BY <1>1, NamesOfMessages DEF Access, Initialization, LastReads, ViewerAt
  <2>4. Selection(c)
    BY <1>1, <2>1, <2>2, <2>3 DEF Matched
  <2> QED
    BY <1>1, <2>4 DEF Selection, ViewerAt
<1>3. PICK stage, out :
        /\ Viewer(c, stage) /\ ViewerTakes(c, out)
        /\ \/ /\ client[c].tight = TRUE /\ stage = "tunnels"
              /\ out = <<AnswerOf(TIGHT)>>
           \/ /\ client[c].tight = FALSE /\ stage = "challenge"
              /\ out = <<AnswerOf(VNC)>>
           \/ /\ client[c].tight = FALSE /\ stage = "result"
              /\ client[c].minor >= 8 /\ out = <<AnswerOf(NONE)>>
           \/ /\ client[c].tight = FALSE /\ stage = "serverInit"
              /\ client[c].minor < 8 /\ out = <<AnswerOf(NONE), ClientInit>>
  <2>1. CASE client[c].tight
    <3>1. ViewerTakes(c, <<AnswerOf(TIGHT)>>) /\ Viewer(c, "tunnels")
      BY <2>1 DEF SelectType, AnswerOf
    <3> QED
      BY <1>1, <2>1, <3>1
  <2>2. CASE ~client[c].tight
    <3>1. PICK type \in {NONE, VNC} :
            /\ ViewerTakes(c, <<AnswerOf(type)>> \o
                              InitIfDone(AfterType(c, type)))
            /\ Viewer(c, AfterType(c, type))
      BY <2>2 DEF SelectType, AnswerOf
    <3>2. CASE type = VNC
      <4>1. /\ AfterType(c, type) = "challenge"
            /\ <<AnswerOf(type)>> \o InitIfDone(AfterType(c, type))
                 = <<AnswerOf(VNC)>>
        BY <3>2, AfterTypes, Empties
      <4> QED
        BY <1>1, <2>2, <3>1, <4>1
    <3>3. CASE type = NONE /\ client[c].minor >= 8
      <4>1. /\ AfterType(c, type) = "result"
            /\ <<AnswerOf(type)>> \o InitIfDone(AfterType(c, type))
                 = <<AnswerOf(NONE)>>
        BY <3>3, AfterTypes, Empties
      <4> QED
        BY <1>1, <2>2, <3>1, <3>3, <4>1
    <3>4. CASE type = NONE /\ ~(client[c].minor >= 8)
      <4>1. /\ AfterType(c, type) = "serverInit"
            /\ <<AnswerOf(type)>> \o InitIfDone(AfterType(c, type))
                 = <<AnswerOf(NONE), ClientInit>>
        BY <3>4, AfterTypes, OneAndOne
      <4>2. client[c].tight = FALSE /\ client[c].minor < 8
        BY <1>1, <2>2, <3>4
      <4> QED
        BY <3>1, <4>1, <4>2
    <3> QED
      BY <3>2, <3>3, <3>4
  <2> QED
    BY <2>1, <2>2
<1>4. /\ vpc'[c] = stage
      /\ client'[c] = IF stage = "closed" THEN NoClient ELSE client[c]
      /\ toServer'[c] = toServer[c] \o out
      /\ toViewer'[c] = Tail(toViewer[c])
      /\ spc'[c] = spc[c] /\ server'[c] = server[c]
      /\ Matched(c)' => StepInv'
  BY <1>1, <1>3, ViewerReads
<1>5. client'[c] = client[c] /\ stage # "closed"
  BY <1>3, <1>4
<1>6. toServer'[c] = out /\ toViewer'[c] = <<>>
  <2>1. <<>> \o out = out
    BY <1>3, Empties
  <2> QED
    BY <1>2, <1>4, <2>1
<1>7. Selection(c)'
  BY <1>2, <1>3, <1>4, <1>5, <1>6 DEF Selection, ViewerAt
<1> QED
  BY <1>2, <1>4, <1>5, <1>7 DEF Matched

LEMMA StepReadTunnels ==
  ASSUME StepInv, NEW c \in Conns, ReadTunnels(c)
  PROVE  StepInv'
<1> DEFINE out == <<>>
<1>1. /\ Matched(c) /\ vpc[c] = "tunnels" /\ toViewer[c] # <<>>
      /\ Viewer(c, "authCaps") /\ ViewerTakes(c, out)
      /\ UNCHANGED <<spc, server>>
  BY DEF StepInv, ReadTunnels, Hears
<1> HIDE DEF out
<1>2. /\ vpc'[c] = "authCaps" /\ client'[c] = client[c]
      /\ toServer'[c] = toServer[c] \o out
      /\ toViewer'[c] = Tail(toViewer[c])
      /\ spc'[c] = spc[c] /\ server'[c] = server[c]
      /\ Matched(c)' => StepInv'
  BY <1>1, ViewerReads
<1>3. CASE spc[c] = "closed"
  <2>1. \/ toViewer[c] = <<Tunnels, AuthCaps({})>>
        \/ /\ client[c].minor >= 8
           /\ toViewer[c] = <<Tunnels, AuthCaps({}), Failed, Reason>>
    BY <1>1, <1>3 DEF Matched, ViewerAlone, LastReads, ViewerAt
  <2>2. \/ toViewer'[c] = <<AuthCaps({})>>
        \/ /\ client'[c].minor >= 8
           /\ toViewer'[c] = <<AuthCaps({}), Failed, Reason>>
    <3>1. CASE toViewer[c] = <<Tunnels, AuthCaps({})>>
      BY <1>2, <3>1
    <3>2. CASE /\ client[c].minor >= 8
               /\ toViewer[c] = <<Tunnels, AuthCaps({}), Failed, Reason>>
      BY <1>2, <3>2, Firsts
    <3> QED
      BY <2>1, <3>1, <3>2
  <2> QED
    BY <1>2, <1>3, <2>2 DEF Matched, ViewerAlone, ViewerAt
<1>4. CASE spc[c] # "closed"
  <2>1. /\ toServer[c] = <<>> /\ Alike(c)
        /\ \/ spc[c] = "authSelect" /\ toViewer[c] = <<Tunnels, AuthCaps({VNC})>>
           \/ /\ spc[c] \in {"access", "clientInit"} /\ server[c].auth = NONE
              /\ spc[c] = "clientInit" => client[c].minor < 8
              /\ toViewer[c] = <<Tunnels, AuthCaps({})>>
           \/ /\ spc[c] = "clientInit" /\ client[c].minor >= 8
              /\ toViewer[c] = <<Tunnels, AuthCaps({}), Ok>>
    <3>1. ~Versions(c) /\ ~Selection(c) /\ ~Authentication(c) /\ ~LastReads(c)
      BY <1>1
      DEF Versions, Selection, Authentication, LastReads, ViewerAt
    <3>2. CASE AuthSelection(c)
      BY <1>1, <3>2 DEF AuthSelection, ViewerAt
    <3>3. CASE Access(c)
      BY <1>1, <3>3 DEF Access, ViewerAt
    <3>4. CASE Initialization(c)
      BY <1>1, <3>4 DEF Initialization, ViewerAt
    <3> QED
      BY <1>1, <1>4, <3>1, <3>2, <3>3, <3>4 DEF Matched
  <2>2. toServer'[c] = <<>>
    BY <1>2, <2>1, Empties DEF out
  <2>3. Alike(c)'
    BY <1>2, <2>1 DEF Alike
  <2>4. CASE spc[c] = "authSelect"
    <3>1. toViewer'[c] = <<AuthCaps({VNC})>>
      <4>1. toViewer[c] = <<Tunnels, AuthCaps({VNC})>>
        BY <2>1, <2>4
      <4> QED
        BY <1>2, <4>1
    <3>2. AuthSelection(c)'
      BY <1>2, <2>2, <2>3, <2>4, <3>1 DEF AuthSelection, ViewerAt
    <3> QED
      BY <1>2, <2>4, <3>2 DEF Matched
  <2>5. CASE /\ spc[c] \in {"access", "clientInit"} /\ server[c].auth = NONE
             /\ spc[c] = "clientInit" => client[c].minor < 8
             /\ toViewer[c] = <<Tunnels, AuthCaps({})>>
    <3>1. toViewer'[c] = <<AuthCaps({})>>
      BY <1>2, <2>5
    <3>2. Access(c)' \/ Initialization(c)'
      BY <1>2, <2>2, <2>3, <2>5, <3>1 DEF Access, Initialization, ViewerAt
    <3> QED
      BY <1>2, <2>5, <3>2 DEF Matched
  <2>6. CASE /\ spc[c] = "clientInit" /\ client[c].minor >= 8
             /\ toViewer[c] = <<Tunnels, AuthCaps({}), Ok>>
    <3>1. toViewer'[c] = <<AuthCaps({}), Ok>>
      BY <1>2, <2>6, Firsts
    <3>2. Initialization(c)'
      BY <1>2, <2>2, <2>3, <2>6, <3>1 DEF Initialization, ViewerAt
    <3> QED
      BY <1>2, <2>6, <3>2 DEF Matched
  <2> QED
    BY <2>1, <2>4, <2>5, <2>6
<1> QED
  BY <1>3, <1>4

\* What the viewer does once it has the capabilities: none of them, or VNC.
LEMMA AfterAuthCaps ==
  ASSUME NEW c \in Conns, ReadAuthCaps(c), client[c].minor \in {3, 7, 8}
  PROVE  \E stage, out :
           /\ Viewer(c, stage) /\ ViewerTakes(c, out)
           /\ \/ /\ Head(toViewer[c]).has = {} /\ client[c].minor >= 8
                 /\ stage = "result" /\ out = <<>>
              \/ /\ Head(toViewer[c]).has = {} /\ client[c].minor < 8
                 /\ stage = "serverInit" /\ out = <<ClientInit>>
              \/ /\ Head(toViewer[c]).has # {} /\ stage = "challenge"
                 /\ out = <<Msg("authSelect", {VNC})>>
<1> DEFINE offered == Head(toViewer[c]).has
<1>1. CASE offered = {} /\ client[c].minor >= 8
  <2>1. Viewer(c, AfterType(c, NONE))
        /\ ViewerTakes(c, InitIfDone(AfterType(c, NONE)))
    BY <1>1 DEF ReadAuthCaps
  <2> QED
    BY <1>1, <2>1, AfterTypes
<1>2. CASE offered = {} /\ ~(client[c].minor >= 8)
  <2>1. Viewer(c, AfterType(c, NONE))
        /\ ViewerTakes(c, InitIfDone(AfterType(c, NONE)))
    BY <1>2 DEF ReadAuthCaps
  <2>2. client[c].minor < 8
    BY <1>2
  <2> QED
    BY <1>2, <2>1, <2>2, AfterTypes
<1>3. CASE offered # {}
  <2>1. Viewer(c, AfterType(c, VNC))
        /\ ViewerTakes(c, <<Msg("authSelect", {VNC})>>)
    BY <1>3 DEF ReadAuthCaps
  <2> QED
    BY <1>3, <2>1, AfterTypes
<1> QED
  BY <1>1, <1>2, <1>3

LEMMA StepReadAuthCaps ==
  ASSUME StepInv, NEW c \in Conns, ReadAuthCaps(c)
  PROVE  StepInv'
<1>1. /\ Matched(c) /\ vpc[c] = "authCaps" /\ toViewer[c] # <<>>
      /\ client[c].minor \in {3, 7, 8} /\ UNCHANGED <<spc, server>>
  BY DEF StepInv, ReadAuthCaps, Hears, AllKinds
<1>2. PICK stage, out :
        /\ Viewer(c, stage) /\ ViewerTakes(c, out)
        /\ \/ /\ Head(toViewer[c]).has = {} /\ client[c].minor >= 8
              /\ stage = "result" /\ out = <<>>
           \/ /\ Head(toViewer[c]).has = {} /\ client[c].minor < 8
              /\ stage = "serverInit" /\ out = <<ClientInit>>
           \/ /\ Head(toViewer[c]).has # {} /\ stage = "challenge"
              /\ out = <<Msg("authSelect", {VNC})>>
  BY <1>1, AfterAuthCaps
<1>3. /\ vpc'[c] = stage
      /\ client'[c] = IF stage = "closed" THEN NoClient ELSE client[c]
      /\ toServer'[c] = toServer[c] \o out
      /\ toViewer'[c] = Tail(toViewer[c])
      /\ spc'[c] = spc[c] /\ server'[c] = server[c]
      /\ Matched(c)' => StepInv'
  BY <1>1, <1>2, ViewerReads
<1>4. client'[c] = client[c] /\ stage # "closed"
  BY <1>2, <1>3
<1>5. CASE spc[c] = "closed"
  <2>1. CASE toViewer[c] = <<AuthCaps({})>>
    <3>1. Head(toViewer[c]).has = {} /\ toViewer'[c] = <<>>
      BY <1>3, <2>1, Firsts, NamesOfMessages
    <3> QED
      BY <1>2, <1>3, <1>4, <1>5, <3>1 DEF Matched, ViewerAlone, ViewerAt
  <2>2. CASE client[c].minor >= 8
             /\ toViewer[c] = <<AuthCaps({}), Failed, Reason>>
    <3>1. Head(toViewer[c]).has = {} /\ toViewer'[c] = <<Failed, Reason>>
      BY <1>3, <2>2, Firsts, NamesOfMessages
    <3>2. stage = "result"
      BY <1>1, <1>2, <2>2, <3>1
    <3> QED
      BY <1>3, <1>4, <1>5, <2>2, <3>1, <3>2 DEF Matched, ViewerAlone, ViewerAt
  <2> QED
    BY <1>1, <1>5, <2>1, <2>2 DEF Matched, ViewerAlone, LastReads, ViewerAt
<1>6. CASE spc[c] # "closed"
  <2>1. /\ toServer[c] = <<>> /\ Alike(c)
        /\ \/ spc[c] = "authSelect" /\ toViewer[c] = <<AuthCaps({VNC})>>
           \/ /\ spc[c] \in {"access", "clientInit"} /\ server[c].auth = NONE
              /\ spc[c] = "clientInit" => client[c].minor < 8
              /\ toViewer[c] = <<AuthCaps({})>>
           \/ /\ spc[c] = "clientInit" /\ client[c].minor >= 8
              /\ toViewer[c] = <<AuthCaps({}), Ok>>
    <3>1. ~Versions(c) /\ ~Selection(c) /\ ~Authentication(c) /\ ~LastReads(c)
      BY <1>1
      DEF Versions, Selection, Authentication, LastReads, ViewerAt
    <3>2. CASE AuthSelection(c)
      BY <1>1, <3>2 DEF AuthSelection, ViewerAt
    <3>3. CASE Access(c)
      BY <1>1, <3>3 DEF Access, ViewerAt
    <3>4. CASE Initialization(c)
      BY <1>1, <3>4 DEF Initialization, ViewerAt
    <3> QED
      BY <1>1, <1>6, <3>1, <3>2, <3>3, <3>4 DEF Matched
  <2>2. toServer'[c] = out
    <3>1. <<>> \o out = out
      BY <1>2, Empties
    <3> QED
      BY <1>3, <2>1, <3>1
  <2>3. Alike(c)'
    BY <1>3, <1>4, <2>1 DEF Alike
  <2>4. CASE spc[c] = "authSelect"
    <3>1. toViewer[c] = <<AuthCaps({VNC})>>
      BY <2>1, <2>4
    <3>2. Head(toViewer[c]).has = {VNC} /\ toViewer'[c] = <<>>
      BY <1>3, <3>1, Firsts, NamesOfMessages
    <3>3. stage = "challenge" /\ out = <<Msg("authSelect", {VNC})>>
      <4>1. Head(toViewer[c]).has # {}
        BY <3>2
      <4> QED
        BY <1>2, <4>1
    <3>4. AuthSelection(c)'
      BY <1>3, <2>2, <2>3, <2>4, <3>2, <3>3 DEF AuthSelection, ViewerAt
    <3> QED
      BY <1>3, <1>4, <2>4, <3>4 DEF Matched
  <2>5. CASE /\ spc[c] \in {"access", "clientInit"} /\ server[c].auth = NONE
             /\ spc[c] = "clientInit" => client[c].minor < 8
             /\ toViewer[c] = <<AuthCaps({})>>
    <3>1. Head(toViewer[c]).has = {} /\ toViewer'[c] = <<>>
      BY <1>3, <2>5, Firsts, NamesOfMessages
    <3>2. SendsResult(c)' <=> client[c].minor >= 8
      BY <1>3, <2>1, <2>5 DEF SendsResult, Alike
    <3>3. \/ /\ client[c].minor >= 8 /\ stage = "result" /\ out = <<>>
             /\ spc[c] = "access"
          \/ /\ client[c].minor < 8 /\ stage = "serverInit"
             /\ out = <<ClientInit>>
      BY <1>1, <1>2, <2>5, <3>1
    <3>4. CASE stage = "result"
      <4>1. Access(c)'
        BY <1>3, <2>2, <2>3, <3>1, <3>2, <3>3, <3>4 DEF Access, ViewerAt
      <4> QED
        BY <1>3, <1>4, <2>5, <4>1 DEF Matched
    <3>5. CASE stage = "serverInit"
      <4>1. ~SendsResult(c)' /\ toServer'[c] = <<ClientInit>>
        BY <1>1, <2>2, <3>2, <3>3, <3>5
      <4>2. Access(c)' \/ Initialization(c)'
        BY <1>3, <2>3, <2>5, <3>1, <3>5, <4>1
        DEF Access, Initialization, ViewerAt
      <4> QED
        BY <1>3, <1>4, <2>5, <4>2 DEF Matched
    <3> QED
      BY <3>3, <3>4, <3>5
  <2>6. CASE /\ spc[c] = "clientInit" /\ client[c].minor >= 8
             /\ toViewer[c] = <<AuthCaps({}), Ok>>
    <3>1. Head(toViewer[c]).has = {} /\ toViewer'[c] = <<Ok>>
      BY <1>3, <2>6, Firsts, NamesOfMessages
    <3>2. stage = "result" /\ out = <<>>
      BY <1>1, <1>2, <2>6, <3>1
    <3>3. Initialization(c)'
      BY <1>3, <2>2, <2>3, <2>6, <3>1, <3>2 DEF Initialization, ViewerAt
    <3> QED
      BY <1>3, <1>4, <2>6, <3>3 DEF Matched
  <2> QED
    BY <2>1, <2>4, <2>5, <2>6
<1> QED
  BY <1>5, <1>6

LEMMA StepAnswerChallenge ==
  ASSUME StepInv, NEW c \in Conns, AnswerChallenge(c)
  PROVE  StepInv'
<1>1. /\ Matched(c) /\ vpc[c] = "challenge" /\ toViewer[c] # <<>>
      /\ UNCHANGED <<spc, server>>
  BY DEF StepInv, AnswerChallenge, Hears
<1>2. /\ spc[c] = "response" /\ toServer[c] = <<>> /\ Alike(c)
      /\ server[c].auth = VNC /\ toViewer[c] = <<Msg("challenge", {})>>
  <2>1. ~ViewerAlone(c) /\ ~Versions(c) /\ ~Selection(c)
    BY <1>1 DEF ViewerAlone, Versions, Selection, LastReads, ViewerAt
  <2>2. ~AuthSelection(c) /\ ~Access(c) /\ ~Initialization(c) /\ ~LastReads(c)
    BY <1>1 DEF AuthSelection, Access, Initialization, LastReads, ViewerAt
  <2>3. Authentication(c)
    BY <1>1, <2>1, <2>2 DEF Matched
  <2> QED
    BY <1>1, <2>3 DEF Authentication, ViewerAt, ServerAt
<1>3. CASE \E typed \in Passwords \cup {"wrong"} :
             /\ ViewerTakes(c, <<Msg("response", {typed})>>)
             /\ Viewer(c, "result")
  <2>1. PICK typed \in Passwords \cup {"wrong"} :
          /\ ViewerTakes(c, <<Msg("response", {typed})>>)
          /\ Viewer(c, "result")
    BY <1>3
  <2> DEFINE out == <<Msg("response", {typed})>>
  <2>2. ViewerTakes(c, out) /\ <<>> \o out = out /\ Tail(toViewer[c]) = <<>>
    BY <1>2, <2>1, Empties
  <2> HIDE DEF out
  <2>3. /\ vpc'[c] = "result" /\ client'[c] = client[c]
        /\ toServer'[c] = toServer[c] \o out
        /\ toViewer'[c] = Tail(toViewer[c])
        /\ spc'[c] = spc[c] /\ server'[c] = server[c]
        /\ Matched(c)' => StepInv'
    BY <1>1, <2>1, <2>2, ViewerReads
  <2>4. toServer'[c] = out /\ toViewer'[c] = <<>>
    BY <1>2, <2>2, <2>3
  <2>5. Alike(c)'
    BY <1>2, <2>3 DEF Alike
  <2>6. Authentication(c)'
    BY <1>2, <2>1, <2>3, <2>4, <2>5
    DEF Authentication, ViewerAt, ServerAt, out
  <2> QED
    BY <1>2, <2>3, <2>6 DEF Matched
<1>4. CASE ViewerTakes(c, <<>>) /\ Viewer(c, "closed")
  <2>1. /\ vpc'[c] = "closed" /\ toServer'[c] = toServer[c] \o <<>>
        /\ spc'[c] = spc[c]
        /\ Matched(c)' => StepInv'
    BY <1>1, <1>4, ViewerReads
  <2>2. toServer'[c] = <<>> /\ spc'[c] = "response"
    BY <1>2, <2>1, Empties
  <2>3. ServerAlone(c)'
    BY <2>2 DEF ServerAlone
  <2>4. Matched(c)'
    BY <2>1, <2>2, <2>3 DEF Matched
  <2> QED
    BY <2>1, <2>4
<1> QED
  BY <1>3, <1>4 DEF AnswerChallenge

LEMMA StepReadResult ==
  ASSUME StepInv, NEW c \in Conns, ReadResult(c)
  PROVE  StepInv'
<1>1. /\ Matched(c) /\ vpc[c] = "result" /\ toViewer[c] # <<>>
      /\ Head(toViewer[c]).name = "result" /\ UNCHANGED <<spc, server>>
  BY DEF StepInv, ReadResult, Hears
<1>2. CASE spc[c] = "closed"
  <2>1. client[c].minor >= 8 /\ toViewer[c] = <<Failed, Reason>>
    BY <1>1, <1>2 DEF Matched, ViewerAlone, LastReads, ViewerAt
  <2>2. Head(toViewer[c]).has # {"ok"} /\ Tail(toViewer[c]) = <<Reason>>
    BY <2>1, Firsts, NamesOfMessages
  <2>3. Viewer(c, "reason") /\ ViewerTakes(c, <<>>)
    BY <2>1, <2>2 DEF ReadResult
  <2>4. /\ vpc'[c] = "reason" /\ toViewer'[c] = Tail(toViewer[c])
        /\ spc'[c] = spc[c]
        /\ Matched(c)' => StepInv'
    BY <1>1, <2>3, ViewerReads
  <2> QED
    BY <1>2, <2>2, <2>4 DEF Matched, ViewerAlone, ViewerAt
<1>3. CASE spc[c] # "closed"
  <2>1. /\ spc[c] = "clientInit" /\ Alike(c) /\ toServer[c] = <<>>
        /\ toViewer[c] = <<Ok>>
    <3>1. ~Versions(c) /\ ~AuthSelection(c) /\ ~LastReads(c)
      BY <1>1 DEF Versions, AuthSelection, LastReads, ViewerAt
    <3>2. ~Selection(c) /\ ~Authentication(c) /\ ~Access(c)
      BY <1>1 DEF Selection, Authentication, Access, ViewerAt
    <3>3. Initialization(c)
      BY <1>1, <1>3, <3>1, <3>2 DEF Matched
    <3> QED
      BY <1>1, <3>3 DEF Initialization, ViewerAt
  <2>2. Head(toViewer[c]).has = {"ok"} /\ Tail(toViewer[c]) = <<>>
    BY <2>1, Firsts, NamesOfMessages
  <2> DEFINE out == <<ClientInit>>
  <2>3. Viewer(c, "serverInit") /\ ViewerTakes(c, out) /\ <<>> \o out = out
    BY <2>2, AfterTypes, Empties DEF ReadResult
  <2> HIDE DEF out
  <2>4. /\ vpc'[c] = "serverInit" /\ client'[c] = client[c]
        /\ toServer'[c] = toServer[c] \o out
        /\ toViewer'[c] = Tail(toViewer[c])
        /\ spc'[c] = spc[c] /\ server'[c] = server[c]
        /\ Matched(c)' => StepInv'
    BY <1>1, <2>3, ViewerReads
  <2>5. toServer'[c] = <<ClientInit>> /\ toViewer'[c] = <<>>
    BY <2>1, <2>2, <2>3, <2>4 DEF out
  <2>6. Alike(c)'
    BY <2>1, <2>4 DEF Alike
  <2>7. Initialization(c)'
    BY <2>1, <2>4, <2>5, <2>6 DEF Initialization, ViewerAt
  <2> QED
    BY <2>1, <2>4, <2>7 DEF Matched
<1> QED
  BY <1>2, <1>3

\* The viewer ends alone: nothing is left to read of it.
LEMMA StepViewerEnds ==
  ASSUME StepInv, NEW c \in Conns,
         ReadReason(c) \/ ViewerReadFails(c) \/ Stop(c)
  PROVE  StepInv'
<1>1. Matched(c)
  BY DEF StepInv
<1>2. CASE ReadReason(c)
  <2>1. /\ vpc[c] = "reason" /\ Viewer(c, "closed") /\ ViewerTakes(c, <<>>)
        /\ UNCHANGED <<spc, server>>
    BY <1>2 DEF ReadReason
  <2>2. /\ vpc'[c] = "closed" /\ spc'[c] = spc[c]
        /\ Matched(c)' => StepInv'
    BY <2>1, ViewerReads
  <2>3. spc[c] = "closed"
    <3>1. ~Versions(c) /\ ~AuthSelection(c) /\ ~LastReads(c)
      BY <2>1 DEF Versions, AuthSelection, LastReads, ViewerAt
    <3>2. ~Selection(c) /\ ~Authentication(c) /\ ~Access(c)
          /\ ~Initialization(c)
      BY <2>1 DEF Selection, Authentication, Access, Initialization, ViewerAt
    <3> QED
      BY <1>1, <2>1, <3>1, <3>2 DEF Matched
  <2> QED
    BY <2>2, <2>3 DEF Matched
<1>3. CASE ViewerReadFails(c) \/ Stop(c)
  <2>1. /\ Viewer(c, "closed") /\ UNCHANGED <<spc, server>>
        /\ toServer' = [toServer EXCEPT ![c] = toServer[c]]
        /\ toViewer' = [toViewer EXCEPT ![c] = toViewer[c]]
    BY <1>3 DEF ViewerReadFails, Stop, channels, StepInv, OnConns
  <2>2. /\ vpc'[c] = "closed" /\ spc'[c] = spc[c]
        /\ toServer'[c] = toServer[c]
        /\ Matched(c)' => StepInv'
    BY <2>1, ViewerMoves
  <2>3. CASE spc[c] = "closed"
    BY <2>2, <2>3 DEF Matched
  <2>4. CASE spc[c] # "closed"
    <3>1. vpc[c] = "connected"
      BY <1>3, <2>4 DEF ViewerReadFails, Stop
    <3>2. ~Versions(c) /\ ~AuthSelection(c)
      BY <3>1 DEF Versions, AuthSelection, ViewerAt
    <3>3. ~Selection(c) /\ ~Authentication(c) /\ ~Access(c)
          /\ ~Initialization(c)
      BY <3>1 DEF Selection, Authentication, Access, Initialization, ViewerAt
    <3>4. spc[c] = "normal" /\ toServer[c] = <<>>
      BY <1>1, <2>4, <3>1, <3>2, <3>3 DEF Matched, ServerAt
    <3>5. ServerAlone(c)'
      BY <2>2, <3>4 DEF ServerAlone
    <3> QED
      BY <2>2, <2>4, <3>5 DEF Matched
  <2> QED
    BY <2>3, <2>4
<1> QED
  BY <1>2, <1>3

\* ServerInit and the capabilities are the last that the viewer reads.
LEMMA StepLastReads ==
  ASSUME StepInv, NEW c \in Conns, ReadServerInit(c) \/ ReadCaps(c)
  PROVE  StepInv'
<1>1. /\ Matched(c) /\ toViewer[c] # <<>> /\ vpc[c] \in {"serverInit", "caps"}
      /\ UNCHANGED <<spc, server>> /\ client[c].tight \in BOOLEAN
  BY DEF StepInv, ReadServerInit, ReadCaps, Hears, AllKinds
<1>2. /\ LastReads(c)
      /\ spc[c] = "closed" \/ ServerAt(c, "normal", <<>>)
  <2>1. ~Versions(c) /\ ~AuthSelection(c)
    BY <1>1 DEF Versions, AuthSelection, ViewerAt
  <2>2. ~Selection(c) /\ ~Authentication(c) /\ ~Access(c)
        /\ ~Initialization(c)
    BY <1>1 DEF Selection, Authentication, Access, Initialization, ViewerAt
  <2> QED
    BY <1>1, <2>1, <2>2 DEF Matched, ViewerAlone, ViewerAt
<1>3. PICK stage :
        /\ Viewer(c, stage) /\ ViewerTakes(c, <<>>)
        /\ \/ vpc[c] = "serverInit" /\ client[c].tight = TRUE /\ stage = "caps"
           \/ /\ vpc[c] = "serverInit" /\ client[c].tight = FALSE
              /\ stage = "connected"
           \/ vpc[c] = "caps" /\ stage = "connected"
  BY <1>1 DEF ReadServerInit, ReadCaps
<1> DEFINE out == <<>>
<1>4. ViewerTakes(c, out) /\ <<>> \o out = <<>> /\ stage # "closed"
  BY <1>3, Empties
<1> HIDE DEF out
<1>5. /\ vpc'[c] = stage
      /\ client'[c] = IF stage = "closed" THEN NoClient ELSE client[c]
      /\ toServer'[c] = toServer[c] \o out
      /\ toViewer'[c] = Tail(toViewer[c])
      /\ spc'[c] = spc[c] /\ server'[c] = server[c]
      /\ Matched(c)' => StepInv'
  BY <1>1, <1>3, <1>4, ViewerReads
<1>6. CASE stage = "caps"
  <2>1. toViewer[c] = <<Msg("serverInit", {}), Msg("caps", {})>>
    BY <1>2, <1>3, <1>6 DEF LastReads, ViewerAt
  <2>2. toViewer'[c] = <<Msg("caps", {})>>
    BY <1>5, <2>1
  <2>3. LastReads(c)'
    BY <1>5, <1>6, <2>2 DEF LastReads, ViewerAt
  <2>4. ServerAt(c, "normal", <<>>) => ServerAt(c, "normal", <<>>)'
    BY <1>4, <1>5 DEF ServerAt
  <2>5. Matched(c)'
    BY <1>2, <1>5, <1>6, <2>3, <2>4 DEF Matched, ViewerAlone, ServerAt
  <2> QED
    BY <1>5, <2>5
<1>7. CASE stage = "connected"
  <2>1. \/ toViewer[c] = <<Msg("serverInit", {})>>
        \/ toViewer[c] = <<Msg("caps", {})>>
    BY <1>2, <1>3, <1>7 DEF LastReads, ViewerAt
  <2>2. toViewer'[c] = <<>>
    <3>1. Tail(toViewer[c]) = <<>>
      BY <2>1, Firsts
    <3> QED
      BY <1>5, <3>1
  <2>3. LastReads(c)'
    BY <1>5, <1>7, <2>2 DEF LastReads, ViewerAt
  <2>4. ServerAt(c, "normal", <<>>) => ServerAt(c, "normal", <<>>)'
    BY <1>4, <1>5 DEF ServerAt
  <2>5. Matched(c)'
    BY <1>2, <1>5, <1>7, <2>3, <2>4 DEF Matched, ViewerAlone, ServerAt
  <2> QED
    BY <1>5, <2>5
<1> QED
  BY <1>3, <1>6, <1>7

LEMMA StepAccept ==
  ASSUME StepInv, RightsInv, NEW c \in Conns, Accept(c)
  PROVE  StepInv'
<1>1. PICK kind \in Kinds : client' = [client EXCEPT ![c] = kind]
  BY DEF Accept
<1>2. kind \in AllKinds /\ OnAllConns /\ server[c].tight = FALSE
  BY HandshakeAssumption
  DEF HandshakeAssumption, StepInv, OnAllConns, RightsInv, RightsAt, Accept
<1>3. /\ spc'[c] = "version" /\ vpc'[c] = "version" /\ server'[c] = server[c]
      /\ toServer'[c] = <<>> /\ toViewer'[c] = <<Msg("version", {})>>
  BY <1>2 DEF Accept, Server, OnAllConns, OnConns
<1>4. OnAllConns' /\ \A d \in Conns \ {c} : Same(d)
  BY <1>1, <1>2 DEF Accept, Server, OnAllConns, OnConns, Same
<1>5. Versions(c)'
  BY <1>2, <1>3 DEF Versions, ViewerAt
<1>6. Matched(c)'
  BY <1>3, <1>5 DEF Matched
<1> QED
  BY <1>4, <1>6, OneConn

LEMMA StepElsewhere ==
  ASSUME StepInv, UNCHANGED <<spc, vpc, toServer, toViewer, client, server>>
  PROVE  StepInv'
<1>1. OnAllConns'
  BY DEF StepInv, OnAllConns, OnConns
<1>2. \A d \in Conns : Same(d)
  BY DEF Same
<1>3. \A d \in Conns : Matched(d)'
  BY <1>2, SameConn DEF StepInv
<1> QED
  BY <1>1, <1>3 DEF StepInv, OnAllConns

LEMMA StepKept ==
  ASSUME StepInv, RightsInv, [Next]_vars
  PROVE  StepInv'
<1>1. CASE UNCHANGED vars \/ BanExpires \/ ChangeConfig
  BY <1>1, StepElsewhere
  DEF vars, BanExpires, ChangeConfig, ends, channels, peers
<1>2. ASSUME NEW c \in Conns, ServerStep(c) \/ Disconnect(c)
      PROVE  StepInv'
  BY <1>2, StepReadVersion, StepReadSelection, StepReadAuthSelection,
     StepReadResponse, StepVerify, StepCheckAccess, StepReadClientInit,
     StepServerGoes
  DEF ServerStep
<1>3. ASSUME NEW c \in Conns, ViewerStep(c) \/ Stop(c)
      PROVE  StepInv'
  BY <1>3, StepAnswerVersion, StepReadRefusal, StepReadType, StepSelectType,
     StepReadTunnels, StepReadAuthCaps, StepAnswerChallenge, StepReadResult,
     StepViewerEnds, StepLastReads
  DEF ViewerStep
<1> QED
  BY <1>1, <1>2, <1>3, StepAccept DEF Next

\* What the invariant says of a connection is more than what an end expects.
LEMMA MatchedIsInStep ==
  ASSUME NEW c \in Conns, Matched(c)
  PROVE  /\ spc[c] # "closed" /\ toServer[c] # <<>> =>
              Head(toServer[c]).name \in ServerExpects(spc[c])
         /\ vpc[c] # "closed" /\ toViewer[c] # <<>> =>
              Head(toViewer[c]).name \in ViewerExpects(vpc[c])
<1>1. ASSUME spc[c] # "closed", toServer[c] # <<>>
      PROVE  Head(toServer[c]).name \in ServerExpects(spc[c])
  <2>1. \/ spc[c] = "version" /\ \E x : toServer[c] = <<Msg("version", {x})>>
        \/ /\ spc[c] = "select"
           /\ \/ toServer[c] = <<AnswerOf(NONE), ClientInit>>
              \/ \E x : toServer[c] = <<AnswerOf(x)>>
        \/ spc[c] = "authSelect" /\ toServer[c] = <<Msg("authSelect", {VNC})>>
        \/ spc[c] = "response" /\ \E x : toServer[c] = <<Msg("response", {x})>>
        \/ spc[c] \in {"access", "clientInit"} /\ toServer[c] = <<ClientInit>>
    <3>1. CASE ServerAlone(c)
      BY <1>1, <3>1 DEF ServerAlone, ServerAt
    <3>2. CASE Versions(c) \/ Selection(c) \/ AuthSelection(c)
      BY <1>1, <3>2 DEF Versions, Selection, AuthSelection
    <3>3. CASE Authentication(c) \/ Access(c) \/ Initialization(c)
      BY <1>1, <3>3 DEF Authentication, Access, Initialization, ServerAt
    <3> QED
      BY <1>1, <3>1, <3>2, <3>3 DEF Matched, ServerAt
  <2>2. CASE spc[c] = "version" /\ \E x : toServer[c] = <<Msg("version", {x})>>
    BY <2>2 DEF ServerExpects, Msg
  <2>3. CASE spc[c] = "select" /\ toServer[c] = <<AnswerOf(NONE), ClientInit>>
    BY <2>3, Firsts DEF ServerExpects, Msg, AnswerOf
  <2>4. CASE spc[c] = "select" /\ \E x : toServer[c] = <<AnswerOf(x)>>
    BY <2>4 DEF ServerExpects, Msg, AnswerOf
  <2>5. CASE /\ spc[c] = "authSelect"
             /\ toServer[c] = <<Msg("authSelect", {VNC})>>
    BY <2>5 DEF ServerExpects, Msg
  <2>6. CASE spc[c] = "response" /\ \E x : toServer[c] = <<Msg("response", {x})>>
    BY <2>6 DEF ServerExpects, Msg
  <2>7. CASE spc[c] \in {"access", "clientInit"} /\ toServer[c] = <<ClientInit>>
    BY <2>7 DEF ServerExpects, Msg, ClientInit
  <2> QED
    BY <2>1, <2>2, <2>3, <2>4, <2>5, <2>6, <2>7
<1>2. ASSUME vpc[c] # "closed", toViewer[c] # <<>>
      PROVE  Head(toViewer[c]).name \in ViewerExpects(vpc[c])
  <2>1. \/ vpc[c] = "version" /\ Head(toViewer[c]).name = "version"
        \/ /\ vpc[c] = "types"
           /\ Head(toViewer[c]).name \in {"secTypes", "secType", "refused"}
        \/ vpc[c] = "tunnels" /\ Head(toViewer[c]).name = "tunnels"
        \/ vpc[c] = "authCaps" /\ Head(toViewer[c]).name = "authCaps"
        \/ vpc[c] = "challenge" /\ Head(toViewer[c]).name = "challenge"
        \/ vpc[c] = "result" /\ Head(toViewer[c]).name = "result"
        \/ vpc[c] = "reason" /\ Head(toViewer[c]).name = "reason"
        \/ vpc[c] = "serverInit" /\ Head(toViewer[c]).name = "serverInit"
        \/ vpc[c] = "caps" /\ Head(toViewer[c]).name = "caps"
    <3> USE Firsts, NamesOfMessages DEF ViewerAt
    <3>1. CASE LastReads(c)
      BY <1>2, <3>1 DEF LastReads
    <3>2. CASE ViewerAlone(c)
      BY <1>2, <3>1, <3>2 DEF ViewerAlone
    <3>3. CASE Versions(c) \/ Selection(c) \/ AuthSelection(c)
      BY <1>2, <3>3 DEF Versions, Selection, AuthSelection
    <3>4. CASE Authentication(c) \/ Access(c)
      BY <1>2, <3>4 DEF Authentication, Access
    <3>5. CASE Initialization(c)
      BY <1>2, <3>5 DEF Initialization
    <3> QED
      BY <1>2, <3>1, <3>2, <3>3, <3>4, <3>5 DEF Matched
  <2> QED
    BY <2>1 DEF ViewerExpects
<1> QED
  BY <1>1, <1>2

\* Whatever version a client has, with the extensions or without, whatever it
\* selects and types, with a ban, a refusal or a change of the configuration
\* between any two steps, and whichever end goes first: an end reads no message
\* but one that it waits for, and nothing is left of the first phases when the
\* viewer is connected.
THEOREM BothEndsReadWhatComes == Spec => []InStep
<1>1. Init => StepInv /\ RightsInv
  <2> SUFFICES ASSUME Init PROVE StepInv /\ RightsInv
    OBVIOUS
  <2>1. config \in AllConfigurations /\ NoClient \in AllKinds
    BY HandshakeAssumption DEF Init, HandshakeAssumption, NoClient, AllKinds
  <2>2. RightsInv
    BY <2>1, NewServerIsShaped DEF Init, RightsInv, ServerStages
  <2>3. StepInv
    BY <2>1 DEF Init, StepInv, OnConns, Matched
  <2> QED
    BY <2>2, <2>3
<1>2. StepInv /\ RightsInv /\ [Next]_vars => StepInv' /\ RightsInv'
  BY StepKept, RightsStep
<1>3. StepInv => InStep
  BY MatchedIsInStep DEF StepInv, InStep
<1> QED
  BY <1>1, <1>2, <1>3, PTL DEF Spec
================================================================================
