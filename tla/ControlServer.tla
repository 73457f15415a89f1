----------------------------- MODULE ControlServer -----------------------------
(***************************************************************************)
(* The control connections of the service and the application at their    *)
(* other end.                                                              *)
(*                                                                         *)
(* ControlServer accepts connections on a pipe; each one is served by a    *)
(* ControlClient, a thread that reads a message, asks for authentication   *)
(* or handles it, and is deleted by a ThreadCollector when it is over.     *)
(* The peer is the control application: a ControlMessage is sent, perhaps  *)
(* refused, paid for by a ControlAuth, and sent again.                     *)
(*                                                                         *)
(* A pipe is a sequence of items in each direction: the header of a        *)
(* message, its body, a challenge, a response, a reply.  The messages      *)
(* stand for the groups in which the program handles its messages alike:   *)
(* SET_CONFIG has a body that is read after the reply, DISCONNECT_ALL has  *)
(* none, and RELOAD_CONFIG needs no authentication.                        *)
(***************************************************************************)
EXTENDS ControlAuthenticator, Sequences

CONSTANTS ControlConfigs,  \* the configurations that may be set
          Commands,        \* the messages that peers send
          MaxCommands      \* bound: how many all peers send

ControlConfig == [useControlAuth : BOOLEAN, alwaysChecking : BOOLEAN,
                  password : Passwords]

REQUIRES_AUTH == {"SET_CONFIG", "DISCONNECT_ALL"}
WITHOUT_AUTH == {"AUTH", "RELOAD_CONFIG"}
Messages == REQUIRES_AUTH \cup WITHOUT_AUTH
None == "none"

ASSUME ControlServerAssumption ==
  /\ ControlConfigs \subseteq ControlConfig
  /\ Commands \subseteq Messages \ {"AUTH"}
  /\ MaxCommands \in Nat

VARIABLES
  conf,                     \* the control part of the ServerConfig
  cpc,                      \* [Callers -> where the ControlClient thread is]
  m_active,                 \* [Callers -> Thread::m_active]
  serving,                  \* [Callers -> the message being handled]
  m_authPassed, m_repeatAuthPassed, m_authReqMessageId, \* ControlClient
  pipeOpen,                 \* [Callers -> the pipe is connected]
  toServer, toClient,       \* [Callers -> the items on their way]
  ppc,                      \* [Callers -> where the peer is]
  command,                  \* [Callers -> the message the peer sends]
  authDone,                 \* [Callers -> it has authenticated for it]
  sent,                     \* commands so far
  spc,                      \* the thread that deletes the ControlServer
  collected                 \* ControlClients the ThreadCollector has

sessionVars == <<cpc, m_active, serving, m_authPassed, m_repeatAuthPassed,
                 m_authReqMessageId, collected>>
pipeVars == <<pipeOpen, toServer, toClient>>
peerVars == <<ppc, command, authDone, sent>>
vars == <<authVars, conf, sessionVars, pipeVars, peerVars, spc>>

--------------------------------------------------------------------------------
HasBody(m) == m = "SET_CONFIG"

Header(m) == [item |-> "header", id |-> m]
Body(b) == [item |-> "body", of |-> b]
Response(p) == [item |-> "response", password |-> p]
Reply(r) == [item |-> r]

ClientPC == {"unborn", "start", "read", "refuse", "handle", "readBody",
             "readResponse", "auth", "over", "ended", "deleted"}
PeerPC == {"idle", "waitReply", "askPassword", "waitChallenge", "waitResult",
           "gone"}

TypeOK ==
  /\ AuthTypeOK
  /\ conf \in ControlConfigs
  /\ cpc \in [Callers -> ClientPC]
  /\ m_active \in [Callers -> BOOLEAN]
  /\ serving \in [Callers -> Messages \cup {None}]
  /\ m_authPassed \in [Callers -> BOOLEAN]
  /\ m_repeatAuthPassed \in [Callers -> BOOLEAN]
  /\ m_authReqMessageId \in [Callers -> REQUIRES_AUTH \cup {None}]
  /\ pipeOpen \in [Callers -> BOOLEAN]
  /\ \A c \in Callers :
       /\ Len(toServer[c]) <= 3 /\ Len(toClient[c]) <= 1
       /\ \A i \in 1 .. Len(toServer[c]) :
            toServer[c][i].item \in {"header", "body", "response"}
  /\ ppc \in [Callers -> PeerPC]
  /\ command \in [Callers -> Commands \cup {None}]
  /\ authDone \in [Callers -> BOOLEAN]
  /\ sent \in 0 .. MaxCommands
  /\ spc \in {"running", "terminated", "breaking", "broken", "collecting",
              "waiting", "destroyed"}
  /\ collected \subseteq Callers

Init ==
  /\ AuthInit
  /\ conf \in ControlConfigs
  /\ cpc = [c \in Callers |-> "unborn"]
  /\ m_active = [c \in Callers |-> FALSE]
  /\ serving = [c \in Callers |-> None]
  /\ m_authPassed = [c \in Callers |-> FALSE]
  /\ m_repeatAuthPassed = [c \in Callers |-> FALSE]
  /\ m_authReqMessageId = [c \in Callers |-> None]
  /\ pipeOpen = [c \in Callers |-> FALSE]
  /\ toServer = [c \in Callers |-> <<>>]
  /\ toClient = [c \in Callers |-> <<>>]
  /\ ppc = [c \in Callers |-> "idle"]
  /\ command = [c \in Callers |-> None]
  /\ authDone = [c \in Callers |-> FALSE]
  /\ sent = 0
  /\ spc = "running"
  /\ collected = {}

--------------------------------------------------------------------------------
(* The peer: ControlProxy, ControlMessage and ControlAuth.                 *)

\* ControlMessage::sendData()
SendData(c, m) ==
  \E b \in ControlConfigs :
    toServer' = [toServer EXCEPT ![c] =
                   @ \o <<Header(m)>> \o (IF HasBody(m) THEN <<Body(b)>>
                                          ELSE <<>>)]

SendCommand(c) ==
  /\ ppc[c] = "idle" /\ pipeOpen[c]
  /\ sent < MaxCommands /\ sent' = sent + 1
  /\ \E m \in Commands :
       /\ command' = [command EXCEPT ![c] = m]
       /\ SendData(c, m)
  /\ ppc' = [ppc EXCEPT ![c] = "waitReply"]
  /\ UNCHANGED <<authVars, conf, sessionVars, pipeOpen, toClient, authDone,
                 spc>>

\* The peer takes the next item of its pipe.
PeerReads(c, r) ==
  /\ toClient[c] # <<>>
  /\ Head(toClient[c]) = Reply(r)
  /\ toClient' = [toClient EXCEPT ![c] = Tail(@)]

PeerContinues(c, from, reply, to) ==
  /\ ppc[c] = from
  /\ PeerReads(c, reply)
  /\ ppc' = [ppc EXCEPT ![c] = to]
  /\ command' = [command EXCEPT ![c] = IF to = "idle" THEN None ELSE @]
  /\ authDone' = [authDone EXCEPT ![c] = to # "idle" /\ @]
  /\ UNCHANGED <<authVars, conf, sessionVars, pipeOpen, toServer, sent,
                 spc>>

\* ControlMessage::checkRetCode(): the command is over, or needs a password.
CommandOk(c) == PeerContinues(c, "waitReply", "REPLY_OK", "idle")
AuthNeeded(c) == PeerContinues(c, "waitReply", "REPLY_AUTH_NEEDED",
                               "askPassword")

\* The dialog is cancelled, or no password is stored: the command is given up.
AuthCancelled(c) ==
  /\ ppc[c] = "askPassword"
  /\ ppc' = [ppc EXCEPT ![c] = "idle"]
  /\ command' = [command EXCEPT ![c] = None]
  /\ authDone' = [authDone EXCEPT ![c] = FALSE]
  /\ UNCHANGED <<authVars, conf, sessionVars, pipeVars, sent, spc>>

\* ControlAuth: the message, the challenge, the response and the result.
SendAuth(c) ==
  /\ ppc[c] = "askPassword"
  /\ toServer' = [toServer EXCEPT ![c] = Append(@, Header("AUTH"))]
  /\ ppc' = [ppc EXCEPT ![c] = "waitChallenge"]
  /\ UNCHANGED <<authVars, conf, sessionVars, pipeOpen, toClient, command,
                 authDone, sent, spc>>

SendResponse(c) ==
  /\ ppc[c] = "waitChallenge"
  /\ PeerReads(c, "CHALLENGE")
  /\ \E p \in Passwords :
       toServer' = [toServer EXCEPT ![c] = Append(@, Response(p))]
  /\ ppc' = [ppc EXCEPT ![c] = "waitResult"]
  /\ UNCHANGED <<authVars, conf, sessionVars, pipeOpen, command, authDone,
                 sent, spc>>

\* A wrong password is an exception; after the right one the message is sent
\* again.
AuthRejected(c) == PeerContinues(c, "waitResult", "REPLY_ERROR", "idle")

SendAgain(c) ==
  /\ ppc[c] = "waitResult"
  /\ PeerReads(c, "REPLY_OK")
  /\ SendData(c, command[c])
  /\ authDone' = [authDone EXCEPT ![c] = TRUE]
  /\ ppc' = [ppc EXCEPT ![c] = "waitReply"]
  /\ UNCHANGED <<authVars, conf, sessionVars, pipeOpen, command, sent, spc>>

\* The application ends, or finds its pipe closed.
PeerLeaves(c) ==
  /\ cpc[c] # "unborn" /\ ppc[c] # "gone"
  /\ ppc' = [ppc EXCEPT ![c] = "gone"]
  /\ pipeOpen' = [pipeOpen EXCEPT ![c] = FALSE]
  /\ toClient' = [toClient EXCEPT ![c] = <<>>]
  /\ UNCHANGED <<authVars, conf, sessionVars, toServer, command,
                 authDone, sent, spc>>

--------------------------------------------------------------------------------
(* ControlServer::execute() and the ThreadCollector.                       *)

\* accept(), new ControlClient, and ResumeThread() in resume().
Accept(c) ==
  /\ spc = "running"
  /\ cpc[c] = "unborn"
  /\ \A d \in Callers : cpc[d] # "unborn" => d \in collected
  /\ cpc' = [cpc EXCEPT ![c] = "start"]
  /\ pipeOpen' = [pipeOpen EXCEPT ![c] = TRUE]
  /\ UNCHANGED <<authVars, conf, m_active, serving, m_authPassed,
                 m_repeatAuthPassed, m_authReqMessageId, collected, toServer,
                 toClient, peerVars, spc>>

\* resume() sets m_active, whatever the thread has done since; addThread().
AddThread(c) ==
  /\ spc \in {"running", "terminated"}
  /\ cpc[c] # "unborn" /\ c \notin collected
  /\ m_active' = [m_active EXCEPT ![c] = TRUE]
  /\ collected' = collected \cup {c}
  /\ UNCHANGED <<authVars, conf, cpc, serving, m_authPassed,
                 m_repeatAuthPassed, m_authReqMessageId, pipeVars, peerVars,
                 spc>>

RemovableUnseen(c) == \* (mutant) every collected thread
  c \in collected /\ cpc[c] # "deleted"

\* deleteDeadThreads() looks at m_active only.
Removable(c) == c \in collected /\ cpc[c] # "deleted" /\ ~m_active[c]

DeleteDead(c) ==
  /\ spc # "destroyed"
  /\ Removable(c)
  /\ cpc' = [cpc EXCEPT ![c] = "deleted"]
  /\ pipeOpen' = [pipeOpen EXCEPT ![c] = FALSE]
  /\ UNCHANGED <<authVars, conf, m_active, serving, m_authPassed,
                 m_repeatAuthPassed, m_authReqMessageId, collected, toServer,
                 toClient, peerVars, spc>>

--------------------------------------------------------------------------------
(* ControlClient: the thread of one connection.                            *)

\* What a step of the thread leaves alone.
OnlySession(c) == UNCHANGED <<m_active, collected, peerVars, spc>>

\* Reads fail on a closed pipe, once or before what was sent has been read;
\* writes fail at once.  Either ends execute().
ReadFails(c) ==
  /\ cpc[c] \in {"read", "refuse", "readBody", "readResponse"}
  /\ ~pipeOpen[c]
  /\ cpc' = [cpc EXCEPT ![c] = "over"]
  /\ UNCHANGED <<authVars, conf, serving, m_authPassed,
                 m_repeatAuthPassed, m_authReqMessageId, pipeVars>>
  /\ OnlySession(c)

NextItem(c, item) == toServer[c] # <<>> /\ Head(toServer[c]).item = item

TakeItem(c) == toServer' = [toServer EXCEPT ![c] = Tail(@)]

WriteReply(c, r, next) ==
  /\ toClient' = IF pipeOpen[c] THEN [toClient EXCEPT ![c] = Append(@, Reply(r))]
                 ELSE toClient
  /\ cpc' = [cpc EXCEPT ![c] = IF pipeOpen[c] THEN next ELSE "over"]
  /\ UNCHANGED pipeOpen

StartSession(c) ==
  /\ cpc[c] = "start"
  /\ m_authPassed' = [m_authPassed EXCEPT ![c] = ~conf.useControlAuth]
  /\ cpc' = [cpc EXCEPT ![c] = "read"]
  /\ UNCHANGED <<authVars, conf, serving, m_repeatAuthPassed,
                 m_authReqMessageId, pipeVars>>
  /\ OnlySession(c)

RequiresAuth(m) == conf.useControlAuth /\ m \in REQUIRES_AUTH

AuthPassed(c, m) ==
  /\ m_authPassed[c]
  /\ conf.alwaysChecking => m_authReqMessageId[c] = m /\ m_repeatAuthPassed[c]

RepeatAuthKept(c, m) == m_repeatAuthPassed[c] \* (mutant) never taken back

RepeatAuthAfter(c, m) ==
  IF RequiresAuth(m) THEN FALSE ELSE m_repeatAuthPassed[c]

\* The header, and whether the message is handled or refused.
ReadHeader(c) ==
  /\ cpc[c] = "read"
  /\ NextItem(c, "header")
  /\ LET m == Head(toServer[c]).id IN
       /\ serving' = [serving EXCEPT ![c] = m]
       /\ m_repeatAuthPassed' =
            [m_repeatAuthPassed EXCEPT ![c] = RepeatAuthAfter(c, m)]
       /\ cpc' = [cpc EXCEPT ![c] = IF RequiresAuth(m) /\ ~AuthPassed(c, m)
                                    THEN "refuse" ELSE "handle"]
  /\ TakeItem(c)
  /\ UNCHANGED <<authVars, conf, m_authPassed, m_authReqMessageId,
                 pipeOpen, toClient>>
  /\ OnlySession(c)

SkippedNothing(c) == UNCHANGED toServer \* (mutant) the body stays in the pipe

\* skipBytes(messageSize)
Skipped(c) ==
  IF HasBody(serving[c]) THEN NextItem(c, "body") /\ TakeItem(c)
  ELSE UNCHANGED toServer

Refuse(c) ==
  /\ cpc[c] = "refuse"
  /\ Skipped(c)
  /\ WriteReply(c, "REPLY_AUTH_NEEDED", "read")
  /\ m_authReqMessageId' = [m_authReqMessageId EXCEPT ![c] = serving[c]]
  /\ UNCHANGED <<authVars, conf, serving, m_authPassed,
                 m_repeatAuthPassed>>
  /\ OnlySession(c)

\* Every handler replies before it reads its parameters or acts.
Handle(c) ==
  /\ cpc[c] = "handle"
  /\ \/ /\ HasBody(serving[c])
        /\ WriteReply(c, "REPLY_OK", "readBody")
     \/ /\ serving[c] \in {"RELOAD_CONFIG", "DISCONNECT_ALL"}
        /\ WriteReply(c, "REPLY_OK", "read")
     \/ /\ serving[c] = "AUTH"
        /\ WriteReply(c, "CHALLENGE", "readResponse")
  /\ UNCHANGED <<authVars, conf, serving, m_authPassed,
                 m_repeatAuthPassed, m_authReqMessageId, toServer>>
  /\ OnlySession(c)

\* setServerConfigMsgRcvd(); how it saves, loads and reloads what it has read
\* is ConfigReload's.
ReadBody(c) ==
  /\ cpc[c] = "readBody"
  /\ NextItem(c, "body")
  /\ conf' = Head(toServer[c]).of
  /\ cpc' = [cpc EXCEPT ![c] = "read"]
  /\ serving' = [serving EXCEPT ![c] = None]
  /\ TakeItem(c)
  /\ UNCHANGED <<authVars, m_authPassed, m_repeatAuthPassed,
                 m_authReqMessageId, pipeOpen, toClient>>
  /\ OnlySession(c)

\* authMsgRcdv(): the password is copied from the configuration once the
\* response is there, and compared when authenticate() gets that far.
ReadResponse(c) ==
  /\ cpc[c] = "readResponse"
  /\ NextItem(c, "response")
  /\ Authenticate(c, conf.password, Head(toServer[c]).password)
  /\ TakeItem(c)
  /\ cpc' = [cpc EXCEPT ![c] = "auth"]
  /\ UNCHANGED <<conf, serving, m_authPassed, m_repeatAuthPassed,
                 m_authReqMessageId, pipeOpen, toClient>>
  /\ OnlySession(c)

AuthenticateStep(c) ==
  /\ cpc[c] = "auth"
  /\ AuthStep(c)
  /\ UNCHANGED <<conf, sessionVars, pipeVars, peerVars, spc>>

\* The marks are set after the reply, unless it cannot be written.
AuthReturns(c) ==
  /\ cpc[c] = "auth"
  /\ Return(c)
  /\ WriteReply(c, IF apc[c] = "succeeded" THEN "REPLY_OK" ELSE "REPLY_ERROR",
                "read")
  /\ LET passed == apc[c] = "succeeded" /\ pipeOpen[c] IN
       /\ m_authPassed' = [m_authPassed EXCEPT ![c] = @ \/ passed]
       /\ m_repeatAuthPassed' = [m_repeatAuthPassed EXCEPT ![c] = @ \/ passed]
  /\ UNCHANGED <<conf, serving, m_authReqMessageId, toServer>>
  /\ OnlySession(c)

\* The last step of Thread::threadProc().  What the object remembers is not
\* used any more, and is forgotten.
ThreadEnds(c) ==
  /\ cpc[c] = "over"
  /\ cpc' = [cpc EXCEPT ![c] = "ended"]
  /\ m_active' = [m_active EXCEPT ![c] = FALSE]
  /\ toServer' = [toServer EXCEPT ![c] = <<>>]
  /\ serving' = [serving EXCEPT ![c] = None]
  /\ m_authPassed' = [m_authPassed EXCEPT ![c] = FALSE]
  /\ m_repeatAuthPassed' = [m_repeatAuthPassed EXCEPT ![c] = FALSE]
  /\ m_authReqMessageId' = [m_authReqMessageId EXCEPT ![c] = None]
  /\ UNCHANGED <<authVars, conf, collected, pipeOpen, toClient, peerVars, spc>>

--------------------------------------------------------------------------------
(* ~ControlServer() and the destructors of its members.                    *)

\* terminate() closes the PipeServer: accept() fails from now on.
Terminate ==
  /\ spc = "running"
  /\ spc' = "terminated"
  /\ UNCHANGED <<authVars, conf, sessionVars, pipeVars, peerVars>>

\* wait(): the accepting thread is over, with what it accepted last.
WaitAcceptor ==
  /\ spc = "terminated"
  /\ \A c \in Callers : cpc[c] # "unborn" => c \in collected
  /\ spc' = "breaking"
  /\ UNCHANGED <<authVars, conf, sessionVars, pipeVars, peerVars>>

\* breakAndDisableAuthentications(), its two statements.
BreakAuthentications ==
  /\ spc = "breaking" /\ Break /\ spc' = "broken"
  /\ UNCHANGED <<conf, sessionVars, pipeVars, peerVars>>

WakeAuthentications ==
  /\ spc = "broken" /\ WakeBanned /\ spc' = "collecting"
  /\ UNCHANGED <<conf, sessionVars, pipeVars, peerVars>>

\* (mutant) a terminated ControlClient leaves its pipe open
StaysOpen == pipeOpen

\* onTerminate() closes the pipe of every ControlClient.
ClosedByTerminate == [c \in Callers |-> FALSE]

\* ~ThreadCollector() ends its own thread, and destroyAllThreads() terminates
\* every ControlClient, which closes its pipe, and waits for it.
TerminateClients ==
  /\ spc = "collecting"
  /\ spc' = "waiting"
  /\ pipeOpen' = ClosedByTerminate
  /\ UNCHANGED <<authVars, conf, sessionVars, toServer, toClient,
                 peerVars>>

Waited(c) == m_active[c] => cpc[c] \in {"ended", "deleted"}

WaitClients ==
  /\ spc = "waiting"
  /\ \A c \in collected : Waited(c)
  /\ spc' = "destroyed"
  /\ cpc' = [c \in Callers |-> IF Removable(c) THEN "deleted" ELSE cpc[c]]
  /\ UNCHANGED <<authVars, conf, m_active, serving, m_authPassed,
                 m_repeatAuthPassed, m_authReqMessageId, collected, pipeVars,
                 peerVars>>

ClockTicks == Tick /\ UNCHANGED <<conf, sessionVars, pipeVars, peerVars,
                                  spc>>

--------------------------------------------------------------------------------
PeerStep(c) == \/ SendCommand(c) \/ CommandOk(c) \/ AuthNeeded(c)
               \/ AuthCancelled(c) \/ SendAuth(c)
               \/ SendResponse(c) \/ AuthRejected(c) \/ SendAgain(c)
               \/ PeerLeaves(c)

SessionStep(c) == \/ StartSession(c) \/ ReadHeader(c) \/ ReadFails(c)
                  \/ Refuse(c) \/ Handle(c) \/ ReadBody(c)
                  \/ ReadResponse(c) \/ AuthenticateStep(c)
                  \/ AuthReturns(c) \/ ThreadEnds(c)

DestructorStep == \/ WaitAcceptor \/ BreakAuthentications
                  \/ WakeAuthentications \/ TerminateClients \/ WaitClients

Next == \/ \E c \in Callers : \/ PeerStep(c) \/ SessionStep(c)
                              \/ Accept(c) \/ AddThread(c) \/ DeleteDead(c)
        \/ Terminate \/ DestructorStep
        \/ ClockTicks

\* Threads are scheduled; peers, new connections, the clock and the end of the
\* service are not promised.
Fairness == /\ \A c \in Callers : /\ WF_vars(SessionStep(c))
                                  /\ WF_vars(AddThread(c))
            /\ WF_vars(DestructorStep)

Spec == Init /\ [][Next]_vars /\ Fairness

--------------------------------------------------------------------------------
(* Properties.                                                             *)

\* Hypothesis of PaidByCommand: authentication is not switched off meanwhile.
AuthAlwaysEnabled == \A b \in ControlConfigs : b.useControlAuth

\* While the ban lasts no further password is verified: more failures than
\* the maximum are counted only once the interval has passed since the first.
\* (ControlAppAuthenticator::authenticate, AuthTracker::checkBan)
BanHolds ==
  m_failureCount > failureMaxCount =>
    now >= m_firstFailureTime + failureTimeInterval

\* The thread and its peer agree on what is in the pipe, whatever is refused
\* or repeated: no body is read as a header, and no header as a response.
\* (ControlClient::execute, ControlMessage::sendData)
InStep ==
  \A c \in Callers : toServer[c] # <<>> =>
    /\ cpc[c] = "read" => NextItem(c, "header")
    /\ cpc[c] \in {"refuse", "readBody"} /\ HasBody(serving[c]) =>
         NextItem(c, "body")
    /\ cpc[c] = "readResponse" => NextItem(c, "response")

\* When every message is to be authenticated, a message that needs it is only
\* handled if its peer has authenticated for this very command.
\* (m_repeatAuthPassed, ControlClient::execute)
PaidByCommand ==
  [][\A c \in Callers :
       cpc[c] = "read" /\ cpc'[c] = "handle" /\ RequiresAuth(serving'[c])
         /\ conf.alwaysChecking /\ AuthAlwaysEnabled
       => authDone[c] /\ serving'[c] = command[c]]_vars

\* A ControlClient is deleted only when its thread is over, and none runs once
\* the server is destroyed, whose authenticator and clients it would use.
\* (ThreadCollector::deleteDeadThreads, ~ControlServer)
SessionsEndFirst ==
  /\ [][\A c \in Callers :
          cpc'[c] = "deleted" => cpc[c] \in {"ended", "deleted"}]_vars
  /\ [](spc = "destroyed" =>
          \A c \in Callers : cpc[c] \in {"unborn", "ended", "deleted"})

\* The destructor returns, though a thread waits for the ban or the mutex and
\* the time of the ban never comes.
\* (~ControlServer, breakAndDisableAuthentications)
ShutdownEnds == (spc = "terminated") ~> (spc = "destroyed")
=============================================================================
