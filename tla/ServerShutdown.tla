---------------------------- MODULE ServerShutdown -----------------------------
(***************************************************************************)
(* The end of the service: ~TvnServer() over the client manager.           *)
(*                                                                         *)
(* The destructor stops the listeners, calls killAllZombies() and deletes  *)
(* the client manager.  When it kills the zombies, clients are still being *)
(* served and may leave at any moment; killAllZombies() holds the          *)
(* ZombieKiller's mutex while it waits for the threads of the zombies,     *)
(* each of which has one more section under m_clientListLocker to go.      *)
(***************************************************************************)
EXTENDS ClientManager

VARIABLE tpc  \* the thread that runs ~TvnServer()

ShutdownTypeOK ==
  TypeOK /\ tpc \in {"running", "killing", "deleteManager"}

ShutdownInit == Init /\ tpc = "running"

\* (mutant) The zombies' threads are not waited for.
ZombiesAreTold == TRUE

\* Thread::wait() of every zombie.
ZombiesAreOver == \A z \in m_zombies : IsOver(z)

\* The servers of control, HTTP and incoming connections are stopped, then
\* "Disconnect all zombies http, rfb, control clients": terminate() of each.
KillZombiesEnter ==
  /\ tpc = "running" /\ m_lockObj = Free
  /\ m_lockObj' = MainThread
  /\ sockOpen' = Disconnected(m_zombies)
  /\ tpc' = "killing"
  /\ UNCHANGED <<restVars, listVars, m_listUnderflowingEvent, m_zombies, freed,
                 mpc>>

KillZombiesLeave ==
  /\ tpc = "killing" /\ ZombiesAreOver
  /\ m_zombies' = {} /\ freed' = freed \cup m_zombies
  /\ m_lockObj' = Free
  /\ tpc' = "deleteManager"
  /\ UNCHANGED <<restVars, listVars, m_listUnderflowingEvent, sockOpen, mpc>>

DeleteManager == tpc = "deleteManager" /\ BeginDestructor /\ UNCHANGED tpc

\* The manager goes on.  Outgoing connections, made by threads that are
\* zombies from the start, are added until the zombies are killed.
ManagerRuns ==
  /\ ManagerNext
  /\ tpc = "deleteManager" =>
       \A c \in Clients : pc[c] = "unborn" => pc'[c] = "unborn"
  /\ UNCHANGED tpc

ShutdownNext ==
  \/ KillZombiesEnter \/ KillZombiesLeave \/ DeleteManager
  \/ ManagerRuns \/ (AllDone /\ UNCHANGED tpc)

allVars == <<vars, tpc>>
ShutdownSafety == ShutdownInit /\ [][ShutdownNext]_allVars

(* As in ClientManager, and the main thread goes on.                       *)
ShutdownSpec ==
  /\ ShutdownSafety /\ Fairness
  /\ WF_allVars(KillZombiesLeave) /\ WF_allVars(DeleteManager)
--------------------------------------------------------------------------------
\* ~TvnServer() returns: "Disconnect all zombies http, rfb, control clients
\* though killing their threads", whatever the clients are doing.
ShutdownReturns == (tpc = "killing") ~> (mpc = "destroyed")

\* While the zombies are killed, there is nobody left to leave the lists, or
\* nobody to wait for.  Then nothing is stuck:
Quiet == [](tpc = "killing" => ListsEmpty \/ m_zombies = {})

\* ~TvnServer() returns; m_listUnderflowingEvent in particular is not lost.
QuietShutdownReturns == Quiet => ShutdownReturns

\* A client whose connection is gone is finally deleted, whatever the phase
\* it was in, and whether the service ends or not.
QuietClientsAreDeleted == Quiet => ClosedClientIsDeleted
================================================================================
