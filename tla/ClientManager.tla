----------------------------- MODULE ClientManager -----------------------------
(***************************************************************************)
(* The life of RFB clients and of the desktop they share.                  *)
(*                                                                         *)
(* RfbClientManager keeps two lists of RfbClient objects, each of which    *)
(* is a thread, and one Desktop, itself a thread, which exists while some  *)
(* client is authorized.  A client leaves the lists when its thread        *)
(* reports IN_READY_TO_REMOVE; it is then handed to the ZombieKiller,      *)
(* which deletes it once the thread is over.  The last authorized client   *)
(* to leave takes the desktop out under m_clientListLocker and deletes it  *)
(* after the lock is released.                                             *)
(*                                                                         *)
(* A member of Clients stands for one RfbClient object (one connection),   *)
(* used once.  A desktop is named by the client whose onClientAuth()       *)
(* created it.  A section of code under m_clientListLocker in which no     *)
(* other thread can interfere is one step; the sections in which another   *)
(* thread's progress shows are split and hold the lock variable.           *)
(***************************************************************************)
EXTENDS Naturals, FiniteSets

CONSTANTS Clients,        \* the RfbClient objects that may ever be created
          NoClient,       \* "no desktop" and "no client", the null pointer
          ServerConfigs   \* the sharing configurations considered

ASSUME NoClientAssumption == NoClient \notin Clients

SharingConfig == [alwaysShared : BOOLEAN, neverShared : BOOLEAN,
                  disconnectExisting : BOOLEAN]

ASSUME ServerConfigsAssumption == ServerConfigs \subseteq SharingConfig

VARIABLES
  m_nonAuthClientList, m_clientList, \* the two lists of the manager
  m_clientListLocker,                \* the thread that holds the mutex
  m_desktop,                         \* the manager's desktop
  m_listUnderflowingEvent,           \* auto-reset event: both lists empty
  servConf,                          \* sharing part of the ServerConfig
  pc,             \* [Clients -> where the RfbClient thread is]
  m_clientState,  \* [Clients -> ClientState]
  sockOpen,       \* [Clients -> is the connection still usable]
  parts,          \* [Clients -> the UpdateSender and the other handlers]
  deskOf,         \* [Clients -> RfbClient::m_desktop]
  doomed,         \* [Clients -> objectToDestroy in validateClientList()]
  desk,           \* [Clients -> life of the desktop that client created]
  dpc, dcall,     \* desktop thread: control point, callback being made
  dtodo, dusing,  \* desktop thread: rest of the loop, client it calls into
  m_zombies, m_lockObj, \* ZombieKiller: its list and its mutex
  freed,          \* deleted RfbClient objects
  mpc             \* the thread that runs ~RfbClientManager()

listVars   == <<m_nonAuthClientList, m_clientList>>
clientVars == <<pc, m_clientState, sockOpen, parts, deskOf, doomed>>
deskVars   == <<desk, dpc, dcall, dtodo, dusing>>
zombieVars == <<m_zombies, m_lockObj, freed>>
vars == <<listVars, m_clientListLocker, m_desktop, m_listUnderflowingEvent,
          servConf, clientVars, deskVars, zombieVars, mpc>>

--------------------------------------------------------------------------------
Free == <<"free", NoClient>>
RfbClientThread(c) == <<"RfbClient", c>>
DesktopThread(d)   == <<"Desktop", d>>
MainThread         == <<"main", NoClient>>

\* The threads that hold m_clientListLocker across a step of another thread.
Threads == {RfbClientThread(c) : c \in Clients}
             \cup {DesktopThread(d) : d \in Clients}

ClientState == {"IN_NONAUTH", "IN_AUTH", "IN_NORMAL_PHASE",
                "IN_PENDING_TO_REMOVE", "IN_READY_TO_REMOVE"}

ClientPC == {"unborn", "authPhase", "onClientAuth", "construct", "secondPhase",
             "normal", "closing", "validate", "validating", "destroyDesktop",
             "joinDesktop", "afterLast", "revalidate", "deleteParts", "done"}

TypeOK ==
  /\ m_nonAuthClientList \subseteq Clients
  /\ m_clientList \subseteq Clients
  /\ m_clientListLocker \in Threads \cup {Free}
  /\ m_desktop \in Clients \cup {NoClient}
  /\ m_listUnderflowingEvent \in BOOLEAN
  /\ servConf \in SharingConfig
  /\ pc \in [Clients -> ClientPC]
  /\ m_clientState \in [Clients -> ClientState]
  /\ sockOpen \in [Clients -> BOOLEAN]
  /\ parts \in [Clients -> {"none", "alive", "deleted"}]
  /\ deskOf \in [Clients -> Clients \cup {NoClient}]
  /\ doomed \in [Clients -> Clients \cup {NoClient}]
  /\ desk \in [Clients -> {"none", "alive", "stopping", "gone"}]
  /\ dpc \in [Clients -> {"idle", "enter", "scan", "exited"}]
  /\ dcall \in [Clients -> {"isReadyToSend", "onSendUpdate"}]
  /\ dtodo \in [Clients -> SUBSET Clients]
  /\ dusing \in [Clients -> Clients \cup {NoClient}]
  /\ m_zombies \subseteq Clients
  /\ m_lockObj \in {Free, MainThread}
  /\ freed \subseteq Clients
  /\ mpc \in {"serving", "disconnectAll", "check", "wait", "kill", "killing",
              "destroyed"}

Init ==
  /\ m_nonAuthClientList = {} /\ m_clientList = {}
  /\ m_clientListLocker = Free
  /\ m_desktop = NoClient
  /\ m_listUnderflowingEvent = FALSE
  /\ servConf \in ServerConfigs
  /\ pc = [c \in Clients |-> "unborn"]
  /\ m_clientState = [c \in Clients |-> "IN_NONAUTH"]
  /\ sockOpen = [c \in Clients |-> FALSE]
  /\ parts = [c \in Clients |-> "none"]
  /\ deskOf = [c \in Clients |-> NoClient]
  /\ doomed = [c \in Clients |-> NoClient]
  /\ desk = [d \in Clients |-> "none"]
  /\ dpc = [d \in Clients |-> "idle"]
  /\ dcall = [d \in Clients |-> "isReadyToSend"]
  /\ dtodo = [d \in Clients |-> {}]
  /\ dusing = [d \in Clients |-> NoClient]
  /\ m_zombies = {} /\ m_lockObj = Free /\ freed = {}
  /\ mpc = "serving"

--------------------------------------------------------------------------------
(* The connection and its peer.                                            *)

\* A listening or connecting thread hands an accepted socket over.  The
\* RfbClient constructor starts the thread, still under the lock.
addNewConnection(c) ==
  /\ pc[c] = "unborn" /\ mpc = "serving"
  /\ m_clientListLocker = Free
  /\ m_nonAuthClientList' = m_nonAuthClientList \cup {c}
  /\ pc' = [pc EXCEPT ![c] = "authPhase"]
  /\ sockOpen' = [sockOpen EXCEPT ![c] = TRUE]
  /\ UNCHANGED <<m_clientList, m_clientListLocker, m_desktop,
                 m_listUnderflowingEvent, servConf, m_clientState, parts,
                 deskOf, doomed, deskVars, zombieVars, mpc>>

\* The peer closes the connection or breaks the protocol: every later read
\* or write on the socket fails.
PeerDisconnects(c) ==
  /\ sockOpen[c]
  /\ sockOpen' = [sockOpen EXCEPT ![c] = FALSE]
  /\ UNCHANGED <<listVars, m_clientListLocker, m_desktop,
                 m_listUnderflowingEvent, servConf, pc, m_clientState, parts,
                 deskOf, doomed, deskVars, zombieVars, mpc>>

\* (mutant) The other connections are forgotten.
DisconnectedOnly(S) == [c \in S |-> FALSE]

\* sockOpen after RfbClient::disconnect() of every member of S.
Disconnected(S) == [c \in Clients |-> sockOpen[c] /\ c \notin S]

--------------------------------------------------------------------------------
(* RfbClient::execute(), first part: up to the normal phase.               *)

\* A move of the thread of c that touches nothing but its own position.
Goto(c, from, to) ==
  /\ pc[c] = from
  /\ pc' = [pc EXCEPT ![c] = to]

AuthPhaseSucceeds(c) ==
  /\ Goto(c, "authPhase", "onClientAuth")
  /\ sockOpen[c]
  /\ m_clientState' = [m_clientState EXCEPT ![c] = "IN_AUTH"]
  /\ UNCHANGED <<listVars, m_clientListLocker, m_desktop,
                 m_listUnderflowingEvent, servConf, sockOpen, parts, deskOf,
                 doomed, deskVars, zombieVars, mpc>>

AuthPhaseFails(c) ==
  /\ Goto(c, "authPhase", "closing")
  /\ UNCHANGED <<listVars, m_clientListLocker, m_desktop,
                 m_listUnderflowingEvent, servConf, m_clientState, sockOpen,
                 parts, deskOf, doomed, deskVars, zombieVars, mpc>>

\* (mutant) The never-shared setting is ignored.
IsExclusiveByFlag(sharedFlag) == ~servConf.alwaysShared /\ ~sharedFlag

\* Must the client be alone, given the shared flag it sent?
IsExclusive(sharedFlag) ==
  /\ ~servConf.alwaysShared
  /\ servConf.neverShared \/ ~sharedFlag

\* onClientAuth() throws: the existing clients take priority.
onClientAuthRefuses(c) ==
  /\ Goto(c, "onClientAuth", "closing")
  /\ m_clientListLocker = Free
  /\ \E sharedFlag \in BOOLEAN : IsExclusive(sharedFlag)
  /\ ~servConf.disconnectExisting /\ m_clientList # {}
  /\ UNCHANGED <<listVars, m_clientListLocker, m_desktop,
                 m_listUnderflowingEvent, servConf, m_clientState, sockOpen,
                 parts, deskOf, doomed, deskVars, zombieVars, mpc>>

\* onClientAuth() lists the client, and disconnects the others first when it
\* wishes exclusive access and the incoming client takes priority.
ListAuthorized(c) ==
  /\ pc[c] = "onClientAuth"
  /\ m_clientListLocker = Free
  /\ \E sharedFlag \in BOOLEAN :
       \/ /\ ~IsExclusive(sharedFlag)
          /\ UNCHANGED sockOpen
       \/ /\ IsExclusive(sharedFlag)
          /\ servConf.disconnectExisting \/ m_clientList = {}
          /\ sockOpen' = Disconnected(m_clientList)
  /\ m_nonAuthClientList' = m_nonAuthClientList \ {c}
  /\ m_clientList' = m_clientList \cup {c}

\* onClientAuth() returns the desktop, which it creates if there is none.
onClientAuthAccepts(c) ==
  /\ ListAuthorized(c)
  /\ pc' = [pc EXCEPT ![c] = "construct"]
  /\ IF m_desktop = NoClient
     THEN /\ m_desktop' = c
          /\ desk' = [desk EXCEPT ![c] = "alive"]
          /\ deskOf' = [deskOf EXCEPT ![c] = c]
     ELSE /\ deskOf' = [deskOf EXCEPT ![c] = m_desktop]
          /\ UNCHANGED <<m_desktop, desk>>
  /\ UNCHANGED <<m_clientListLocker, m_listUnderflowingEvent, servConf,
                 m_clientState, parts, doomed, dpc, dcall, dtodo, dusing,
                 zombieVars, mpc>>

\* createDesktop() throws: the client stays listed, without a desktop.
onClientAuthDesktopFails(c) ==
  /\ ListAuthorized(c)
  /\ m_desktop = NoClient
  /\ pc' = [pc EXCEPT ![c] = "closing"]
  /\ UNCHANGED <<m_clientListLocker, m_desktop, m_listUnderflowingEvent,
                 servConf, m_clientState, parts, deskOf, doomed, deskVars,
                 zombieVars, mpc>>

\* The dispatcher and the message handlers are created.
ConstructParts(c) ==
  /\ Goto(c, "construct", "secondPhase")
  /\ parts' = [parts EXCEPT ![c] = "alive"]
  /\ UNCHANGED <<listVars, m_clientListLocker, m_desktop,
                 m_listUnderflowingEvent, servConf, m_clientState, sockOpen,
                 deskOf, doomed, deskVars, zombieVars, mpc>>

EnterNormalPhase(c) ==
  /\ Goto(c, "secondPhase", "normal")
  /\ sockOpen[c]
  /\ m_clientState' = [m_clientState EXCEPT ![c] = "IN_NORMAL_PHASE"]
  /\ UNCHANGED <<listVars, m_clientListLocker, m_desktop,
                 m_listUnderflowingEvent, servConf, sockOpen, parts, deskOf,
                 doomed, deskVars, zombieVars, mpc>>

\* A read fails: afterAuthPhase() throws, or the dispatcher thread stops and
\* sets connClosingEvent.
ConnectionLost(c) ==
  /\ pc[c] \in {"secondPhase", "normal"} /\ ~sockOpen[c]
  /\ pc' = [pc EXCEPT ![c] = "closing"]
  /\ UNCHANGED <<listVars, m_clientListLocker, m_desktop,
                 m_listUnderflowingEvent, servConf, m_clientState, sockOpen,
                 parts, deskOf, doomed, deskVars, zombieVars, mpc>>

--------------------------------------------------------------------------------
(* RfbClient::execute(), the end, with validateClientList() inlined.       *)
(* m_clientState tells the first call (pending) from the second (ready).   *)

\* disconnect(), then setClientState(IN_PENDING_TO_REMOVE).
CloseAndPend(c) ==
  /\ Goto(c, "closing", "validate")
  /\ sockOpen' = Disconnected({c})
  /\ m_clientState' = [m_clientState EXCEPT ![c] = "IN_PENDING_TO_REMOVE"]
  /\ UNCHANGED <<listVars, m_clientListLocker, m_desktop,
                 m_listUnderflowingEvent, servConf, parts, deskOf, doomed,
                 deskVars, zombieVars, mpc>>

ValidateEnter(c) ==
  /\ Goto(c, "validate", "validating")
  /\ m_clientListLocker = Free
  /\ m_clientListLocker' = RfbClientThread(c)
  /\ UNCHANGED <<listVars, m_desktop, m_listUnderflowingEvent, servConf,
                 m_clientState, sockOpen, parts, deskOf, doomed, deskVars,
                 zombieVars, mpc>>

\* (mutants) Clients are removed one notification too early; only the list
\* of authorized clients is looked at.
RemovableWhenPending ==
  {k \in m_nonAuthClientList \cup m_clientList :
     m_clientState[k] \in {"IN_PENDING_TO_REMOVE", "IN_READY_TO_REMOVE"}}
RemovableAuthorized ==
  {k \in m_clientList : m_clientState[k] = "IN_READY_TO_REMOVE"}

\* Every listed client that is ready to be removed, whoever it is.
Removable ==
  {k \in m_nonAuthClientList \cup m_clientList :
     m_clientState[k] = "IN_READY_TO_REMOVE"}

\* Nobody is authorized any more: the desktop is taken out of the manager.
TakeDesktop(c) ==
  /\ doomed' = [doomed EXCEPT ![c] = m_desktop]
  /\ m_desktop' = NoClient
  /\ pc' = [pc EXCEPT ![c] = "destroyDesktop"]

\* The section of validateClientList() under the lock.  addZombie() waits
\* for the ZombieKiller's own mutex with m_clientListLocker held.
Validate(c) ==
  /\ pc[c] = "validating"
  /\ Removable # {} => m_lockObj = Free
  /\ m_nonAuthClientList' = m_nonAuthClientList \ Removable
  /\ m_clientList' = m_clientList \ Removable
  /\ m_zombies' = m_zombies \cup Removable
  /\ IF m_desktop # NoClient /\ m_clientList' = {}
     THEN TakeDesktop(c)
     ELSE /\ pc' = [pc EXCEPT ![c] = "revalidate"]
          /\ UNCHANGED <<doomed, m_desktop>>
  /\ m_clientListLocker' = Free
  /\ UNCHANGED <<m_listUnderflowingEvent, servConf, m_clientState, sockOpen,
                 parts, deskOf, deskVars, m_lockObj, freed, mpc>>

\* delete objectToDestroy: the destructor of the desktop asks its thread to
\* terminate, then waits for it.
DestroyDesktop(c) ==
  /\ Goto(c, "destroyDesktop", "joinDesktop")
  /\ desk' = [desk EXCEPT ![doomed[c]] = "stopping"]
  /\ UNCHANGED <<listVars, m_clientListLocker, m_desktop,
                 m_listUnderflowingEvent, servConf, m_clientState, sockOpen,
                 parts, deskOf, doomed, dpc, dcall, dtodo, dusing, zombieVars,
                 mpc>>

JoinDesktop(c) ==
  /\ Goto(c, "joinDesktop", "afterLast")
  /\ dpc[doomed[c]] = "exited"
  /\ desk' = [desk EXCEPT ![doomed[c]] = "gone"]
  /\ UNCHANGED <<listVars, m_clientListLocker, m_desktop,
                 m_listUnderflowingEvent, servConf, m_clientState, sockOpen,
                 parts, deskOf, doomed, dpc, dcall, dtodo, dusing, zombieVars,
                 mpc>>

\* The listeners run the action configured for the last disconnection.
afterLastClientDisconnect(c) ==
  /\ Goto(c, "afterLast", "revalidate")
  /\ doomed' = [doomed EXCEPT ![c] = NoClient]
  /\ UNCHANGED <<listVars, m_clientListLocker, m_desktop,
                 m_listUnderflowingEvent, servConf, m_clientState, sockOpen,
                 parts, deskOf, deskVars, zombieVars, mpc>>

ListsEmpty == m_clientList = {} /\ m_nonAuthClientList = {}

\* (mutant) The notification is missing.
UnderflowForgotten == m_listUnderflowingEvent

\* An auto-reset event remembers a notification nobody waits for.
UnderflowNotified == m_listUnderflowingEvent \/ ListsEmpty

\* The last section of validateClientList(), and its return.
Revalidate(c) ==
  /\ pc[c] = "revalidate"
  /\ m_clientListLocker = Free
  /\ m_listUnderflowingEvent' = UnderflowNotified
  /\ pc' = [pc EXCEPT ![c] = IF m_clientState[c] = "IN_READY_TO_REMOVE"
                             THEN "done" ELSE "deleteParts"]
  /\ UNCHANGED <<listVars, m_clientListLocker, m_desktop, servConf,
                 m_clientState, sockOpen, parts, deskOf, doomed, deskVars,
                 zombieVars, mpc>>

\* The handlers are deleted, then setClientState(IN_READY_TO_REMOVE).
DeleteParts(c) ==
  /\ Goto(c, "deleteParts", "validate")
  /\ parts' = [parts EXCEPT ![c] = IF @ = "alive" THEN "deleted" ELSE @]
  /\ m_clientState' = [m_clientState EXCEPT ![c] = "IN_READY_TO_REMOVE"]
  /\ UNCHANGED <<listVars, m_clientListLocker, m_desktop,
                 m_listUnderflowingEvent, servConf, sockOpen, deskOf, doomed,
                 deskVars, zombieVars, mpc>>

--------------------------------------------------------------------------------
(* The desktop thread: DesktopBaseImpl::sendUpdate() and the manager's     *)
(* callbacks isReadyToSend() and onSendUpdate(), which walk m_clientList.  *)

otherVars == <<listVars, m_desktop, m_listUnderflowingEvent, servConf, pc,
               m_clientState, parts, deskOf, doomed, desk, zombieVars, mpc>>

\* An update event, or a request, wakes a thread that is not terminating.
DesktopWakes(d) ==
  /\ desk[d] = "alive" /\ dpc[d] = "idle"
  /\ dpc' = [dpc EXCEPT ![d] = "enter"]
  /\ dcall' = [dcall EXCEPT ![d] = "isReadyToSend"]
  /\ UNCHANGED <<otherVars, m_clientListLocker, sockOpen, dtodo, dusing>>

CallbackEnter(d) ==
  /\ dpc[d] = "enter"
  /\ m_clientListLocker = Free
  /\ m_clientListLocker' = DesktopThread(d)
  /\ dpc' = [dpc EXCEPT ![d] = "scan"]
  /\ dtodo' = [dtodo EXCEPT ![d] = m_clientList]
  /\ UNCHANGED <<otherVars, sockOpen, dcall, dusing>>

\* (mutant) A client that is about to be removed is served as well.
IsServedLate(k) ==
  m_clientState[k] \in {"IN_NORMAL_PHASE", "IN_PENDING_TO_REMOVE"}

\* The test each callback makes before it calls into a client.
IsServed(k) == m_clientState[k] = "IN_NORMAL_PHASE"

\* The state of a client is read; the call into it comes later.
CheckClient(d, k) ==
  /\ dpc[d] = "scan" /\ dusing[d] = NoClient
  /\ k \in dtodo[d]
  /\ dtodo' = [dtodo EXCEPT ![d] = @ \ {k}]
  /\ dusing' = [dusing EXCEPT ![d] = IF IsServed(k) THEN k ELSE NoClient]
  /\ UNCHANGED <<otherVars, m_clientListLocker, sockOpen, dpc, dcall>>

\* clientIsReady() or sendUpdate(): the call into the client's UpdateSender.
UseClient(d) ==
  /\ dusing[d] # NoClient
  /\ dusing' = [dusing EXCEPT ![d] = NoClient]
  /\ UNCHANGED <<otherVars, m_clientListLocker, sockOpen, dpc, dcall, dtodo>>

\* After isReadyToSend() the thread sends if somebody is ready.
CallbackLeave(d) ==
  /\ dpc[d] = "scan" /\ dusing[d] = NoClient /\ dtodo[d] = {}
  /\ m_clientListLocker' = Free
  /\ \/ /\ dpc' = [dpc EXCEPT ![d] = "idle"]
        /\ UNCHANGED dcall
     \/ /\ dcall[d] = "isReadyToSend"
        /\ dpc' = [dpc EXCEPT ![d] = "enter"]
        /\ dcall' = [dcall EXCEPT ![d] = "onSendUpdate"]
  /\ UNCHANGED <<otherVars, sockOpen, dtodo, dusing>>

\* extract() throws: every current connection is closed, and the thread goes
\* on with the rest of sendUpdate().
onAbnormalDesktopTerminate(d) ==
  /\ dpc[d] = "enter" /\ dcall[d] = "onSendUpdate"
  /\ m_clientListLocker = Free
  /\ sockOpen' = Disconnected(m_nonAuthClientList \cup m_clientList)
  /\ dpc' \in {dpc, [dpc EXCEPT ![d] = "idle"]}
  /\ UNCHANGED <<otherVars, m_clientListLocker, dcall, dtodo, dusing>>

DesktopExits(d) ==
  /\ desk[d] = "stopping" /\ dpc[d] = "idle"
  /\ dpc' = [dpc EXCEPT ![d] = "exited"]
  /\ UNCHANGED <<otherVars, m_clientListLocker, sockOpen, dcall, dtodo, dusing>>

--------------------------------------------------------------------------------
(* The ZombieKiller thread and ~RfbClientManager().                        *)

restVars == <<m_clientListLocker, m_desktop, servConf, pc, m_clientState,
              parts, deskOf, doomed, deskVars>>

\* (mutants) A thread counts as over once its last notification has begun;
\* threads are not waited for.
IsOverEarly(z) == pc[z] \in {"revalidate", "done"}
IsOverAlways(z) == TRUE

\* Thread::isActive() is false, Thread::wait() returns.
IsOver(z) == pc[z] = "done"

deleteDeadZombies ==
  /\ m_lockObj = Free
  /\ \E z \in m_zombies : IsOver(z)
  /\ LET dead == {z \in m_zombies : IsOver(z)}
     IN  /\ m_zombies' = m_zombies \ dead
         /\ freed' = freed \cup dead
  /\ UNCHANGED <<restVars, listVars, sockOpen, m_listUnderflowingEvent,
                 m_lockObj, mpc>>

BeginDestructor ==
  /\ mpc = "serving"
  /\ mpc' = "disconnectAll"
  /\ UNCHANGED <<restVars, listVars, sockOpen, m_listUnderflowingEvent,
                 zombieVars>>

disconnectAllClients ==
  /\ mpc = "disconnectAll" /\ m_clientListLocker = Free
  /\ sockOpen' = Disconnected(m_nonAuthClientList \cup m_clientList)
  /\ mpc' = "check"
  /\ UNCHANGED <<restVars, listVars, m_listUnderflowingEvent, zombieVars>>

\* waitUntilAllClientAreBeenDestroyed(): the test under the lock ...
CheckLists ==
  /\ mpc = "check" /\ m_clientListLocker = Free
  /\ mpc' = IF ListsEmpty THEN "kill" ELSE "wait"
  /\ UNCHANGED <<restVars, listVars, sockOpen, m_listUnderflowingEvent,
                 zombieVars>>

\* ... and the wait for the auto-reset event.
WaitForUnderflow ==
  /\ mpc = "wait" /\ m_listUnderflowingEvent
  /\ m_listUnderflowingEvent' = FALSE
  /\ mpc' = "check"
  /\ UNCHANGED <<restVars, listVars, sockOpen, zombieVars>>

\* killAllZombies() terminates every zombie thread and waits for each of
\* them with its mutex held.
KillAllZombiesEnter ==
  /\ mpc = "kill" /\ m_lockObj = Free
  /\ m_lockObj' = MainThread
  /\ sockOpen' = Disconnected(m_zombies)
  /\ mpc' = "killing"
  /\ UNCHANGED <<restVars, listVars, m_listUnderflowingEvent, m_zombies, freed>>

KillAllZombiesLeave ==
  /\ mpc = "killing"
  /\ \A z \in m_zombies : IsOver(z)
  /\ m_zombies' = {} /\ freed' = freed \cup m_zombies
  /\ m_lockObj' = Free
  /\ mpc' = "destroyed"
  /\ UNCHANGED <<restVars, listVars, sockOpen, m_listUnderflowingEvent>>

--------------------------------------------------------------------------------
\* The steps of the thread of client c that it takes without the peer.
ClientRuns(c) ==
  \/ ConstructParts(c) \/ ConnectionLost(c) \/ CloseAndPend(c) \/ Validate(c)
  \/ DestroyDesktop(c) \/ JoinDesktop(c) \/ afterLastClientDisconnect(c)
  \/ DeleteParts(c)

\* Its steps that begin by taking m_clientListLocker.
ClientLocks(c) ==
  \/ onClientAuthRefuses(c) \/ onClientAuthAccepts(c)
  \/ onClientAuthDesktopFails(c) \/ ValidateEnter(c) \/ Revalidate(c)

\* Its steps that need the peer's messages.
ClientNegotiates(c) ==
  AuthPhaseSucceeds(c) \/ AuthPhaseFails(c) \/ EnterNormalPhase(c)

DesktopRuns(d) ==
  \/ (\E k \in Clients : CheckClient(d, k)) \/ UseClient(d)
  \/ CallbackLeave(d) \/ DesktopExits(d)

MainRuns == WaitForUnderflow \/ KillAllZombiesEnter \/ KillAllZombiesLeave
MainLocks == disconnectAllClients \/ CheckLists

ManagerNext ==
  \/ \E c \in Clients :
       \/ addNewConnection(c) \/ PeerDisconnects(c)
       \/ ClientNegotiates(c) \/ ClientLocks(c) \/ ClientRuns(c)
       \/ DesktopWakes(c) \/ onAbnormalDesktopTerminate(c)
       \/ CallbackEnter(c) \/ DesktopRuns(c)
  \/ deleteDeadZombies
  \/ disconnectAllClients \/ CheckLists \/ WaitForUnderflow
  \/ KillAllZombiesEnter \/ KillAllZombiesLeave

\* The destructor has returned and every thread is over.
AllDone ==
  /\ mpc = "destroyed"
  /\ \A c \in Clients : pc[c] \in {"unborn", "done"}
  /\ UNCHANGED vars

Next == ManagerNext \/ BeginDestructor \/ AllDone

SafetySpec == Init /\ [][Next]_vars

(* Every thread that can run is eventually scheduled (weak fairness), and  *)
(* a thread that asks for m_clientListLocker again and again gets it       *)
(* (strong fairness): a critical section never starves a waiter forever.   *)
(* Nothing is assumed of peers: the destructor relies on the sockets it    *)
(* closes.                                                                 *)
Fairness ==
  /\ \A c \in Clients :
       /\ WF_vars(ClientRuns(c))
       /\ SF_vars(ClientLocks(c))
       /\ WF_vars(pc[c] = "authPhase" /\ ~sockOpen[c] /\ AuthPhaseFails(c))
       /\ SF_vars(CallbackEnter(c))
       /\ WF_vars(DesktopRuns(c))
  /\ WF_vars(deleteDeadZombies)
  /\ WF_vars(MainRuns)
  /\ SF_vars(MainLocks)

Spec == SafetySpec /\ Fairness
--------------------------------------------------------------------------------
(* Safety.                                                                 *)

\* Once a client has passed validateClientList() in the pending state, no
\* thread calls into the handlers it deletes ("we are guaranteed not to be
\* used by other threads", RfbClient::execute()): a desktop thread in one of
\* the manager's callbacks only calls into living handlers of a living client.
CallsReachLivingHandlers ==
  \A d \in Clients :
    dusing[d] # NoClient =>
      /\ parts[dusing[d]] = "alive"
      /\ dusing[d] \in m_clientList /\ dusing[d] \notin freed

\* A client whose handlers exist, or are about to be created, uses the
\* manager's current desktop, and nobody has begun to destroy it.
DesktopOutlivesItsUsers ==
  \A c \in Clients :
    (parts[c] = "alive" \/ pc[c] = "construct") =>
      deskOf[c] # NoClient /\ deskOf[c] = m_desktop /\ desk[m_desktop] = "alive"

\* Every client that was ever created is in exactly one place: one of the two
\* lists, the ZombieKiller's list, or deleted; and it is deleted only when its
\* thread is over.
ExactlyOneOwner ==
  LET listed == m_nonAuthClientList \cup m_clientList
  IN  /\ m_nonAuthClientList \cap m_clientList = {}
      /\ listed \cap (m_zombies \cup freed) = {}
      /\ m_zombies \cap freed = {}
      /\ listed \cup m_zombies \cup freed = {c \in Clients : pc[c] # "unborn"}
      /\ \A c \in freed : pc[c] = "done"

\* With a never-shared configuration at most one authorized client has a
\* usable connection, whichever side is given priority.
NeverSharedIsExclusive ==
  servConf.neverShared /\ ~servConf.alwaysShared =>
    \A c, k \in m_clientList : sockOpen[c] /\ sockOpen[k] => c = k

\* When ~RfbClientManager() returns, no thread that could still touch the
\* manager is left: every client is deleted and every desktop thread is over.
NothingOutlivesTheManager ==
  mpc = "destroyed" =>
    /\ \A c \in Clients : pc[c] = "unborn" \/ c \in freed
    /\ \A d \in Clients : desk[d] \in {"none", "gone"}
    /\ m_clientListLocker = Free /\ m_desktop = NoClient

\* The manager implements the desktop that is shared: whatever happens to the
\* lists, the threads and the connections, a desktop is created once, is given
\* to everybody who comes, goes when the last user is gone, and serves users.
Users == {c \in Clients : pc[c] = "construct" \/ parts[c] = "alive"}

Shared == INSTANCE SharedDesktop WITH
  current <- m_desktop,
  living  <- {d \in Clients : desk[d] \in {"alive", "stopping"}},
  users   <- Users,
  former  <- {c \in Clients : deskOf[c] # NoClient},
  serving <- dusing

SharesOneDesktop == Shared!Spec

(* Liveness.                                                               *)

\* A client whose connection is gone is finally deleted.
ClosedClientIsDeleted ==
  \A c \in Clients : (pc[c] # "unborn" /\ ~sockOpen[c]) ~> (c \in freed)
--------------------------------------------------------------------------------
(* The inductive invariant behind the safety properties, by subject.       *)

\* Which list holds a client, by the position of its thread.
PlaceInv ==
  /\ ExactlyOneOwner
  /\ \A c \in Clients :
       /\ pc[c] \in {"authPhase", "onClientAuth"} => c \in m_nonAuthClientList
       /\ (pc[c] \in {"construct", "secondPhase", "normal"}
             \/ parts[c] = "alive") => c \in m_clientList
       /\ c \in m_zombies \cup freed => m_clientState[c] = "IN_READY_TO_REMOVE"

\* What a client's state and handlers are, by the position of its thread.
PhaseInv ==
  \A c \in Clients :
    /\ pc[c] \in {"unborn", "authPhase"} => m_clientState[c] = "IN_NONAUTH"
    /\ pc[c] \in {"onClientAuth", "construct", "secondPhase"} =>
         m_clientState[c] = "IN_AUTH"
    /\ pc[c] = "normal" => m_clientState[c] = "IN_NORMAL_PHASE"
    /\ pc[c] = "closing" =>
         m_clientState[c] \in {"IN_NONAUTH", "IN_AUTH", "IN_NORMAL_PHASE"}
    /\ pc[c] \in {"validate", "validating", "destroyDesktop", "joinDesktop",
                  "afterLast", "revalidate"} =>
         m_clientState[c] \in {"IN_PENDING_TO_REMOVE", "IN_READY_TO_REMOVE"}
    /\ pc[c] = "deleteParts" => m_clientState[c] = "IN_PENDING_TO_REMOVE"
    /\ pc[c] = "done" => m_clientState[c] = "IN_READY_TO_REMOVE"
    /\ pc[c] \in {"secondPhase", "normal"} => parts[c] = "alive"
    /\ pc[c] \in {"unborn", "authPhase", "onClientAuth", "construct"} =>
         parts[c] = "none"
    /\ m_clientState[c] = "IN_NORMAL_PHASE" => parts[c] = "alive"
    /\ m_clientState[c] = "IN_READY_TO_REMOVE" => parts[c] # "alive"

\* Who holds m_clientListLocker.
LockInv ==
  /\ \A c \in Clients :
       pc[c] = "validating" <=> m_clientListLocker = RfbClientThread(c)
  /\ \A d \in Clients : dpc[d] = "scan" <=> m_clientListLocker = DesktopThread(d)

\* A callback in progress: what is left of its loop, and whom it calls.
CallInv ==
  \A d \in Clients :
    /\ dpc[d] # "scan" => dtodo[d] = {} /\ dusing[d] = NoClient
    /\ dtodo[d] \subseteq m_clientList
    /\ dusing[d] # NoClient =>
         /\ dusing[d] \in m_clientList
         /\ parts[dusing[d]] = "alive"
         /\ pc[dusing[d]] \in {"normal", "closing", "validate"}
         /\ m_clientState[dusing[d]] # "IN_READY_TO_REMOVE"

\* The manager's desktop, its users, and the desktops being destroyed.
DeskInv ==
  /\ m_desktop # NoClient => desk[m_desktop] = "alive" /\ m_clientList # {}
  /\ \A c \in Clients :
       /\ pc[c] = "construct" \/ parts[c] = "alive" =>
            deskOf[c] # NoClient /\ deskOf[c] = m_desktop
       /\ pc[c] \in {"unborn", "authPhase", "onClientAuth"} =>
            deskOf[c] = NoClient
       /\ doomed[c] # NoClient <=>
            pc[c] \in {"destroyDesktop", "joinDesktop", "afterLast"}
       /\ doomed[c] # NoClient => doomed[c] # m_desktop
       /\ pc[c] = "destroyDesktop" => desk[doomed[c]] = "alive"
       /\ pc[c] = "joinDesktop" => desk[doomed[c]] = "stopping"
       /\ pc[c] = "afterLast" => desk[doomed[c]] = "gone"
       /\ \A k \in Clients :
            doomed[c] = doomed[k] /\ doomed[c] # NoClient => c = k
  /\ \A d \in Clients :
       /\ desk[d] # "none" =>
            pc[d] \notin {"unborn", "authPhase", "onClientAuth"}
       /\ desk[d] \in {"alive", "stopping"} =>
            m_desktop = d \/ \E c \in Clients : doomed[c] = d
       /\ desk[d] = "none" => dpc[d] = "idle"
       /\ desk[d] = "gone" => dpc[d] = "exited"

\* What the destructor knows after its wait.
MainInv ==
  /\ mpc \in {"kill", "killing", "destroyed"} =>
       m_clientList = {} /\ m_nonAuthClientList = {}
  /\ mpc = "destroyed" => m_zombies = {}

IInv == PlaceInv /\ PhaseInv /\ LockInv /\ CallInv /\ DeskInv /\ MainInv
          /\ NeverSharedIsExclusive
================================================================================
