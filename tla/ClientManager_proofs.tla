-------------------------- MODULE ClientManager_proofs -------------------------
(* Theorems about ClientManager and ServerShutdown, for any set of clients. *)
EXTENDS ServerShutdown, TLAPS

\* Disconnecting a set of clients yields a function of the same type.
LEMMA DisconnectedType ==
  ASSUME sockOpen \in [Clients -> BOOLEAN], NEW S
  PROVE  Disconnected(S) \in [Clients -> BOOLEAN]
BY DEF Disconnected

\* What listing a client as authorized does to the variables it assigns.
LEMMA ListedTypes ==
  ASSUME TypeOK, NEW c \in Clients, ListAuthorized(c)
  PROVE  /\ sockOpen' \in [Clients -> BOOLEAN]
         /\ m_nonAuthClientList' \subseteq Clients
         /\ m_clientList' \subseteq Clients
<1>1. sockOpen' = sockOpen \/ sockOpen' = Disconnected(m_clientList)
  BY DEF ListAuthorized
<1>2. sockOpen' \in [Clients -> BOOLEAN]
  BY <1>1, DisconnectedType DEF TypeOK
<1> QED
  BY <1>2 DEF ListAuthorized, TypeOK

\* No step of the manager, of a client, of a desktop thread or of the
\* ZombieKiller leaves the value space of the model.
LEMMA TypeStep ==
  ASSUME TypeOK, [Next]_vars
  PROVE  TypeOK'
<1> USE NoClientAssumption, ServerConfigsAssumption DEF NoClientAssumption, ServerConfigsAssumption
<1> USE DEF TypeOK, ClientPC, ClientState, Threads, listVars, clientVars,
            deskVars, zombieVars
<1>1. ASSUME NEW c \in Clients, addNewConnection(c) PROVE TypeOK'
  BY <1>1 DEF addNewConnection
<1>2. ASSUME NEW c \in Clients, PeerDisconnects(c) PROVE TypeOK'
  BY <1>2 DEF PeerDisconnects
<1>3. ASSUME NEW c \in Clients, AuthPhaseSucceeds(c) PROVE TypeOK'
  BY <1>3 DEF AuthPhaseSucceeds, Goto
<1>4. ASSUME NEW c \in Clients, AuthPhaseFails(c) PROVE TypeOK'
  BY <1>4 DEF AuthPhaseFails, Goto
<1>5. ASSUME NEW c \in Clients, EnterNormalPhase(c) PROVE TypeOK'
  BY <1>5 DEF EnterNormalPhase, Goto
<1>6. ASSUME NEW c \in Clients, onClientAuthRefuses(c) PROVE TypeOK'
  BY <1>6 DEF onClientAuthRefuses, Goto
<1>7. ASSUME NEW c \in Clients, onClientAuthAccepts(c) PROVE TypeOK'
  <3>1. ListAuthorized(c)
    BY <1>7 DEF onClientAuthAccepts
  <3> QED
    BY <1>7, <3>1, ListedTypes DEF onClientAuthAccepts
<1>8. ASSUME NEW c \in Clients, onClientAuthDesktopFails(c) PROVE TypeOK'
  <3>1. ListAuthorized(c)
    BY <1>8 DEF onClientAuthDesktopFails
  <3> QED
    BY <1>8, <3>1, ListedTypes DEF onClientAuthDesktopFails
<1>9. ASSUME NEW c \in Clients, ValidateEnter(c) PROVE TypeOK'
  BY <1>9 DEF ValidateEnter, Goto
<1>10. ASSUME NEW c \in Clients, Revalidate(c) PROVE TypeOK'
  BY <1>10 DEF Revalidate, UnderflowNotified, ListsEmpty
<1>11. ASSUME NEW c \in Clients, ConstructParts(c) PROVE TypeOK'
  BY <1>11 DEF ConstructParts, Goto
<1>12. ASSUME NEW c \in Clients, ConnectionLost(c) PROVE TypeOK'
  BY <1>12 DEF ConnectionLost
<1>13. ASSUME NEW c \in Clients, CloseAndPend(c) PROVE TypeOK'
  BY <1>13 DEF CloseAndPend, Goto, Disconnected
<1>14. ASSUME NEW c \in Clients, Validate(c) PROVE TypeOK'
  BY <1>14 DEF Validate, Removable, TakeDesktop
<1>15. ASSUME NEW c \in Clients, DestroyDesktop(c) PROVE TypeOK'
  BY <1>15 DEF DestroyDesktop, Goto
<1>16. ASSUME NEW c \in Clients, JoinDesktop(c) PROVE TypeOK'
  BY <1>16 DEF JoinDesktop, Goto
<1>17. ASSUME NEW c \in Clients, afterLastClientDisconnect(c) PROVE TypeOK'
  BY <1>17 DEF afterLastClientDisconnect, Goto
<1>18. ASSUME NEW c \in Clients, DeleteParts(c) PROVE TypeOK'
  BY <1>18 DEF DeleteParts, Goto
<1>19. ASSUME NEW d \in Clients, DesktopWakes(d) PROVE TypeOK'
  BY <1>19 DEF DesktopWakes, otherVars
<1>20. ASSUME NEW d \in Clients, onAbnormalDesktopTerminate(d) PROVE TypeOK'
  BY <1>20 DEF onAbnormalDesktopTerminate, otherVars, Disconnected
<1>21. ASSUME NEW d \in Clients, CallbackEnter(d) PROVE TypeOK'
  BY <1>21 DEF CallbackEnter, otherVars
<1>22. ASSUME NEW d \in Clients, NEW k \in Clients, CheckClient(d, k) PROVE TypeOK'
  BY <1>22 DEF CheckClient, otherVars, IsServed
<1>23. ASSUME NEW d \in Clients, UseClient(d) PROVE TypeOK'
  BY <1>23 DEF UseClient, otherVars
<1>24. ASSUME NEW d \in Clients, CallbackLeave(d) PROVE TypeOK'
  BY <1>24 DEF CallbackLeave, otherVars
<1>25. ASSUME NEW d \in Clients, DesktopExits(d) PROVE TypeOK'
  BY <1>25 DEF DesktopExits, otherVars
<1>26. ASSUME deleteDeadZombies PROVE TypeOK'
  BY <1>26 DEF deleteDeadZombies, restVars, IsOver
<1>27. ASSUME BeginDestructor PROVE TypeOK'
  BY <1>27 DEF BeginDestructor, restVars
<1>28. ASSUME disconnectAllClients PROVE TypeOK'
  BY <1>28 DEF disconnectAllClients, restVars, Disconnected
<1>29. ASSUME CheckLists PROVE TypeOK'
  BY <1>29 DEF CheckLists, restVars, ListsEmpty
<1>30. ASSUME WaitForUnderflow PROVE TypeOK'
  BY <1>30 DEF WaitForUnderflow, restVars
<1>31. ASSUME KillAllZombiesEnter PROVE TypeOK'
  BY <1>31 DEF KillAllZombiesEnter, restVars, Disconnected
<1>32. ASSUME KillAllZombiesLeave PROVE TypeOK'
  BY <1>32 DEF KillAllZombiesLeave, restVars, IsOver
<1>33. CASE UNCHANGED vars
  BY <1>33 DEF vars
<1> QED
  BY <1>1, <1>2, <1>3, <1>4, <1>5, <1>6, <1>7, <1>8, <1>9, <1>10, <1>11,
     <1>12, <1>13, <1>14, <1>15, <1>16, <1>17, <1>18, <1>19, <1>20, <1>21,
     <1>22, <1>23, <1>24, <1>25, <1>26, <1>27, <1>28, <1>29, <1>30, <1>31,
     <1>32, <1>33 DEF Next, ManagerNext,
     ClientNegotiates, ClientLocks, ClientRuns, DesktopRuns, AllDone

\* Every variable begins in its type.
LEMMA TypeInit ==
  ASSUME Init
  PROVE  TypeOK
<1> USE NoClientAssumption, ServerConfigsAssumption DEF NoClientAssumption, ServerConfigsAssumption
<1>1. servConf \in SharingConfig
  BY DEF Init
<1>2. m_clientListLocker \in Threads \cup {Free} /\ m_lockObj \in {Free, MainThread}
  BY DEF Init
<1> QED
  BY <1>1, <1>2 DEF Init, TypeOK, ClientPC, ClientState

\* Every variable stays in its type.
THEOREM TypeCorrect == SafetySpec => []TypeOK
<1>1. Init => TypeOK
  BY TypeInit
<1>2. TypeOK /\ [Next]_vars => TypeOK'
  BY TypeStep
<1> QED
  BY <1>1, <1>2, PTL DEF SafetySpec

\* A client is in one place, the one its thread's position calls for.
LEMMA PlaceInv_Step ==
  ASSUME TypeOK, IInv, [Next]_vars, TypeOK'
  PROVE  PlaceInv'
<1> USE NoClientAssumption DEF NoClientAssumption, IInv
<1> USE DEF TypeOK, PlaceInv, PhaseInv, ExactlyOneOwner, ClientPC, ClientState,
        Free, RfbClientThread, DesktopThread, MainThread, Threads, listVars,
        clientVars, deskVars, zombieVars
<1>1. ASSUME NEW c \in Clients, addNewConnection(c) PROVE PlaceInv'
  BY <1>1 DEF addNewConnection
<1>2. ASSUME NEW c \in Clients, PeerDisconnects(c) PROVE PlaceInv'
  BY <1>2 DEF PeerDisconnects
<1>3. ASSUME NEW c \in Clients, AuthPhaseSucceeds(c) PROVE PlaceInv'
  BY <1>3 DEF AuthPhaseSucceeds, Goto
<1>4. ASSUME NEW c \in Clients, AuthPhaseFails(c) PROVE PlaceInv'
  BY <1>4 DEF AuthPhaseFails, Goto
<1>5. ASSUME NEW c \in Clients, EnterNormalPhase(c) PROVE PlaceInv'
  BY <1>5 DEF EnterNormalPhase, Goto
<1>6. ASSUME NEW c \in Clients, onClientAuthRefuses(c) PROVE PlaceInv'
  BY <1>6 DEF onClientAuthRefuses, Goto
<1>7. ASSUME NEW c \in Clients, onClientAuthAccepts(c) PROVE PlaceInv'
  BY <1>7 DEF onClientAuthAccepts, ListAuthorized, Disconnected
<1>8. ASSUME NEW c \in Clients, onClientAuthDesktopFails(c) PROVE PlaceInv'
  BY <1>8 DEF onClientAuthDesktopFails, ListAuthorized, Disconnected
<1>9. ASSUME NEW c \in Clients, ValidateEnter(c) PROVE PlaceInv'
  BY <1>9 DEF ValidateEnter, Goto
<1>10. ASSUME NEW c \in Clients, Revalidate(c) PROVE PlaceInv'
  BY <1>10 DEF Revalidate, UnderflowNotified, ListsEmpty
<1>11. ASSUME NEW c \in Clients, ConstructParts(c) PROVE PlaceInv'
  BY <1>11 DEF ConstructParts, Goto
<1>12. ASSUME NEW c \in Clients, ConnectionLost(c) PROVE PlaceInv'
  BY <1>12 DEF ConnectionLost
<1>13. ASSUME NEW c \in Clients, CloseAndPend(c) PROVE PlaceInv'
  BY <1>13 DEF CloseAndPend, Goto, Disconnected
<1>14. ASSUME NEW c \in Clients, Validate(c) PROVE PlaceInv'
  BY <1>14 DEF Validate, Removable, TakeDesktop
<1>15. ASSUME NEW c \in Clients, DestroyDesktop(c) PROVE PlaceInv'
  BY <1>15 DEF DestroyDesktop, Goto
<1>16. ASSUME NEW c \in Clients, JoinDesktop(c) PROVE PlaceInv'
  BY <1>16 DEF JoinDesktop, Goto
<1>17. ASSUME NEW c \in Clients, afterLastClientDisconnect(c) PROVE PlaceInv'
  BY <1>17 DEF afterLastClientDisconnect, Goto
<1>18. ASSUME NEW c \in Clients, DeleteParts(c) PROVE PlaceInv'
  BY <1>18 DEF DeleteParts, Goto
<1>19. ASSUME NEW d \in Clients, DesktopWakes(d) PROVE PlaceInv'
  BY <1>19 DEF DesktopWakes, otherVars
<1>20. ASSUME NEW d \in Clients, onAbnormalDesktopTerminate(d) PROVE PlaceInv'
  BY <1>20 DEF onAbnormalDesktopTerminate, otherVars, Disconnected
<1>21. ASSUME NEW d \in Clients, CallbackEnter(d) PROVE PlaceInv'
  BY <1>21 DEF CallbackEnter, otherVars
<1>22. ASSUME NEW d \in Clients, NEW k \in Clients, CheckClient(d, k) PROVE PlaceInv'
  BY <1>22 DEF CheckClient, otherVars, IsServed
<1>23. ASSUME NEW d \in Clients, UseClient(d) PROVE PlaceInv'
  BY <1>23 DEF UseClient, otherVars
<1>24. ASSUME NEW d \in Clients, CallbackLeave(d) PROVE PlaceInv'
  BY <1>24 DEF CallbackLeave, otherVars
<1>25. ASSUME NEW d \in Clients, DesktopExits(d) PROVE PlaceInv'
  BY <1>25 DEF DesktopExits, otherVars
<1>26. ASSUME deleteDeadZombies PROVE PlaceInv'
  BY <1>26 DEF deleteDeadZombies, restVars, IsOver
<1>27. ASSUME BeginDestructor PROVE PlaceInv'
  BY <1>27 DEF BeginDestructor, restVars
<1>28. ASSUME disconnectAllClients PROVE PlaceInv'
  BY <1>28 DEF disconnectAllClients, restVars, Disconnected
<1>29. ASSUME CheckLists PROVE PlaceInv'
  BY <1>29 DEF CheckLists, restVars, ListsEmpty
<1>30. ASSUME WaitForUnderflow PROVE PlaceInv'
  BY <1>30 DEF WaitForUnderflow, restVars
<1>31. ASSUME KillAllZombiesEnter PROVE PlaceInv'
  BY <1>31 DEF KillAllZombiesEnter, restVars, Disconnected
<1>32. ASSUME KillAllZombiesLeave PROVE PlaceInv'
  BY <1>32 DEF KillAllZombiesLeave, restVars, IsOver
<1>33. CASE UNCHANGED vars
  BY <1>33 DEF vars
<1> QED
  BY <1>1, <1>2, <1>3, <1>4, <1>5, <1>6, <1>7, <1>8, <1>9, <1>10, <1>11,
     <1>12, <1>13, <1>14, <1>15, <1>16, <1>17, <1>18, <1>19, <1>20, <1>21,
     <1>22, <1>23, <1>24, <1>25, <1>26, <1>27, <1>28, <1>29, <1>30, <1>31,
     <1>32, <1>33 DEF Next, ManagerNext,
     ClientNegotiates, ClientLocks, ClientRuns, DesktopRuns, AllDone

\* A client's state and handlers follow the position of its thread.
LEMMA PhaseInv_Step ==
  ASSUME TypeOK, IInv, [Next]_vars, TypeOK'
  PROVE  PhaseInv'
<1> USE NoClientAssumption DEF NoClientAssumption, IInv
<1> USE DEF TypeOK, PhaseInv, ClientPC, ClientState, Free, RfbClientThread,
        DesktopThread, MainThread, Threads, listVars, clientVars, deskVars,
        zombieVars
<1>1. ASSUME NEW c \in Clients, addNewConnection(c) PROVE PhaseInv'
  BY <1>1 DEF addNewConnection
<1>2. ASSUME NEW c \in Clients, PeerDisconnects(c) PROVE PhaseInv'
  BY <1>2 DEF PeerDisconnects
<1>3. ASSUME NEW c \in Clients, AuthPhaseSucceeds(c) PROVE PhaseInv'
  BY <1>3 DEF AuthPhaseSucceeds, Goto
<1>4. ASSUME NEW c \in Clients, AuthPhaseFails(c) PROVE PhaseInv'
  BY <1>4 DEF AuthPhaseFails, Goto
<1>5. ASSUME NEW c \in Clients, EnterNormalPhase(c) PROVE PhaseInv'
  BY <1>5 DEF EnterNormalPhase, Goto
<1>6. ASSUME NEW c \in Clients, onClientAuthRefuses(c) PROVE PhaseInv'
  BY <1>6 DEF onClientAuthRefuses, Goto
<1>7. ASSUME NEW c \in Clients, onClientAuthAccepts(c) PROVE PhaseInv'
  BY <1>7 DEF onClientAuthAccepts, ListAuthorized, Disconnected
<1>8. ASSUME NEW c \in Clients, onClientAuthDesktopFails(c) PROVE PhaseInv'
  BY <1>8 DEF onClientAuthDesktopFails, ListAuthorized, Disconnected
<1>9. ASSUME NEW c \in Clients, ValidateEnter(c) PROVE PhaseInv'
  BY <1>9 DEF ValidateEnter, Goto
<1>10. ASSUME NEW c \in Clients, Revalidate(c) PROVE PhaseInv'
  BY <1>10 DEF Revalidate, UnderflowNotified, ListsEmpty
<1>11. ASSUME NEW c \in Clients, ConstructParts(c) PROVE PhaseInv'
  BY <1>11 DEF ConstructParts, Goto
<1>12. ASSUME NEW c \in Clients, ConnectionLost(c) PROVE PhaseInv'
  BY <1>12 DEF ConnectionLost
<1>13. ASSUME NEW c \in Clients, CloseAndPend(c) PROVE PhaseInv'
  BY <1>13 DEF CloseAndPend, Goto, Disconnected
<1>14. ASSUME NEW c \in Clients, Validate(c) PROVE PhaseInv'
  BY <1>14 DEF Validate, Removable, TakeDesktop
<1>15. ASSUME NEW c \in Clients, DestroyDesktop(c) PROVE PhaseInv'
  BY <1>15 DEF DestroyDesktop, Goto
<1>16. ASSUME NEW c \in Clients, JoinDesktop(c) PROVE PhaseInv'
  BY <1>16 DEF JoinDesktop, Goto
<1>17. ASSUME NEW c \in Clients, afterLastClientDisconnect(c) PROVE PhaseInv'
  BY <1>17 DEF afterLastClientDisconnect, Goto
<1>18. ASSUME NEW c \in Clients, DeleteParts(c) PROVE PhaseInv'
  BY <1>18 DEF DeleteParts, Goto
<1>19. ASSUME NEW d \in Clients, DesktopWakes(d) PROVE PhaseInv'
  BY <1>19 DEF DesktopWakes, otherVars
<1>20. ASSUME NEW d \in Clients, onAbnormalDesktopTerminate(d) PROVE PhaseInv'
  BY <1>20 DEF onAbnormalDesktopTerminate, otherVars, Disconnected
<1>21. ASSUME NEW d \in Clients, CallbackEnter(d) PROVE PhaseInv'
  BY <1>21 DEF CallbackEnter, otherVars
<1>22. ASSUME NEW d \in Clients, NEW k \in Clients, CheckClient(d, k) PROVE PhaseInv'
  BY <1>22 DEF CheckClient, otherVars, IsServed
<1>23. ASSUME NEW d \in Clients, UseClient(d) PROVE PhaseInv'
  BY <1>23 DEF UseClient, otherVars
<1>24. ASSUME NEW d \in Clients, CallbackLeave(d) PROVE PhaseInv'
  BY <1>24 DEF CallbackLeave, otherVars
<1>25. ASSUME NEW d \in Clients, DesktopExits(d) PROVE PhaseInv'
  BY <1>25 DEF DesktopExits, otherVars
<1>26. ASSUME deleteDeadZombies PROVE PhaseInv'
  BY <1>26 DEF deleteDeadZombies, restVars, IsOver
<1>27. ASSUME BeginDestructor PROVE PhaseInv'
  BY <1>27 DEF BeginDestructor, restVars
<1>28. ASSUME disconnectAllClients PROVE PhaseInv'
  BY <1>28 DEF disconnectAllClients, restVars, Disconnected
<1>29. ASSUME CheckLists PROVE PhaseInv'
  BY <1>29 DEF CheckLists, restVars, ListsEmpty
<1>30. ASSUME WaitForUnderflow PROVE PhaseInv'
  BY <1>30 DEF WaitForUnderflow, restVars
<1>31. ASSUME KillAllZombiesEnter PROVE PhaseInv'
  BY <1>31 DEF KillAllZombiesEnter, restVars, Disconnected
<1>32. ASSUME KillAllZombiesLeave PROVE PhaseInv'
  BY <1>32 DEF KillAllZombiesLeave, restVars, IsOver
<1>33. CASE UNCHANGED vars
  BY <1>33 DEF vars
<1> QED
  BY <1>1, <1>2, <1>3, <1>4, <1>5, <1>6, <1>7, <1>8, <1>9, <1>10, <1>11,
     <1>12, <1>13, <1>14, <1>15, <1>16, <1>17, <1>18, <1>19, <1>20, <1>21,
     <1>22, <1>23, <1>24, <1>25, <1>26, <1>27, <1>28, <1>29, <1>30, <1>31,
     <1>32, <1>33 DEF Next, ManagerNext,
     ClientNegotiates, ClientLocks, ClientRuns, DesktopRuns, AllDone

\* m_clientListLocker is held exactly in the split sections.
LEMMA LockInv_Step ==
  ASSUME TypeOK, IInv, [Next]_vars, TypeOK'
  PROVE  LockInv'
<1> USE NoClientAssumption DEF NoClientAssumption, IInv
<1> USE DEF TypeOK, LockInv, ClientPC, ClientState, Free, RfbClientThread,
        DesktopThread, MainThread, Threads, listVars, clientVars, deskVars,
        zombieVars
<1>1. ASSUME NEW c \in Clients, addNewConnection(c) PROVE LockInv'
  BY <1>1 DEF addNewConnection
<1>2. ASSUME NEW c \in Clients, PeerDisconnects(c) PROVE LockInv'
  BY <1>2 DEF PeerDisconnects
<1>3. ASSUME NEW c \in Clients, AuthPhaseSucceeds(c) PROVE LockInv'
  BY <1>3 DEF AuthPhaseSucceeds, Goto
<1>4. ASSUME NEW c \in Clients, AuthPhaseFails(c) PROVE LockInv'
  BY <1>4 DEF AuthPhaseFails, Goto
<1>5. ASSUME NEW c \in Clients, EnterNormalPhase(c) PROVE LockInv'
  BY <1>5 DEF EnterNormalPhase, Goto
<1>6. ASSUME NEW c \in Clients, onClientAuthRefuses(c) PROVE LockInv'
  BY <1>6 DEF onClientAuthRefuses, Goto
<1>7. ASSUME NEW c \in Clients, onClientAuthAccepts(c) PROVE LockInv'
  BY <1>7 DEF onClientAuthAccepts, ListAuthorized, Disconnected
<1>8. ASSUME NEW c \in Clients, onClientAuthDesktopFails(c) PROVE LockInv'
  BY <1>8 DEF onClientAuthDesktopFails, ListAuthorized, Disconnected
<1>9. ASSUME NEW c \in Clients, ValidateEnter(c) PROVE LockInv'
  BY <1>9 DEF ValidateEnter, Goto
<1>10. ASSUME NEW c \in Clients, Revalidate(c) PROVE LockInv'
  BY <1>10 DEF Revalidate, UnderflowNotified, ListsEmpty
<1>11. ASSUME NEW c \in Clients, ConstructParts(c) PROVE LockInv'
  BY <1>11 DEF ConstructParts, Goto
<1>12. ASSUME NEW c \in Clients, ConnectionLost(c) PROVE LockInv'
  BY <1>12 DEF ConnectionLost
<1>13. ASSUME NEW c \in Clients, CloseAndPend(c) PROVE LockInv'
  BY <1>13 DEF CloseAndPend, Goto, Disconnected
<1>14. ASSUME NEW c \in Clients, Validate(c) PROVE LockInv'
  <2>1. m_clientListLocker' = Free /\ UNCHANGED dpc
    BY <1>14 DEF Validate
  <2>2. pc' = [pc EXCEPT ![c] = "destroyDesktop"] \/ pc' = [pc EXCEPT ![c] = "revalidate"]
    BY <1>14 DEF Validate, TakeDesktop
  <2>3. pc[c] = "validating"
    BY <1>14 DEF Validate
  <2>4. m_clientListLocker = RfbClientThread(c)
    BY <2>3
  <2>5. \A k \in Clients : pc'[k] # "validating"
    <3> SUFFICES ASSUME NEW k \in Clients PROVE pc'[k] # "validating"
      OBVIOUS
    <3>1. CASE k = c
      BY <3>1, <2>2
    <3>2. CASE k # c
      <4>1. m_clientListLocker # RfbClientThread(k)
        BY <2>4, <3>2
      <4>2. pc[k] # "validating"
        BY <4>1
      <4> QED
        BY <4>2, <3>2, <2>2
    <3> QED
      BY <3>1, <3>2
  <2>6. \A d \in Clients : dpc'[d] # "scan"
    BY <2>1, <2>4
  <2> QED
    BY <2>1, <2>5, <2>6
<1>15. ASSUME NEW c \in Clients, DestroyDesktop(c) PROVE LockInv'
  BY <1>15 DEF DestroyDesktop, Goto
<1>16. ASSUME NEW c \in Clients, JoinDesktop(c) PROVE LockInv'
  BY <1>16 DEF JoinDesktop, Goto
<1>17. ASSUME NEW c \in Clients, afterLastClientDisconnect(c) PROVE LockInv'
  BY <1>17 DEF afterLastClientDisconnect, Goto
<1>18. ASSUME NEW c \in Clients, DeleteParts(c) PROVE LockInv'
  BY <1>18 DEF DeleteParts, Goto
<1>19. ASSUME NEW d \in Clients, DesktopWakes(d) PROVE LockInv'
  BY <1>19 DEF DesktopWakes, otherVars
<1>20. ASSUME NEW d \in Clients, onAbnormalDesktopTerminate(d) PROVE LockInv'
  BY <1>20 DEF onAbnormalDesktopTerminate, otherVars, Disconnected
<1>21. ASSUME NEW d \in Clients, CallbackEnter(d) PROVE LockInv'
  BY <1>21 DEF CallbackEnter, otherVars
<1>22. ASSUME NEW d \in Clients, NEW k \in Clients, CheckClient(d, k) PROVE LockInv'
  BY <1>22 DEF CheckClient, otherVars, IsServed
<1>23. ASSUME NEW d \in Clients, UseClient(d) PROVE LockInv'
  BY <1>23 DEF UseClient, otherVars
<1>24. ASSUME NEW d \in Clients, CallbackLeave(d) PROVE LockInv'
  BY <1>24 DEF CallbackLeave, otherVars
<1>25. ASSUME NEW d \in Clients, DesktopExits(d) PROVE LockInv'
  BY <1>25 DEF DesktopExits, otherVars
<1>26. ASSUME deleteDeadZombies PROVE LockInv'
  BY <1>26 DEF deleteDeadZombies, restVars, IsOver
<1>27. ASSUME BeginDestructor PROVE LockInv'
  BY <1>27 DEF BeginDestructor, restVars
<1>28. ASSUME disconnectAllClients PROVE LockInv'
  BY <1>28 DEF disconnectAllClients, restVars, Disconnected
<1>29. ASSUME CheckLists PROVE LockInv'
  BY <1>29 DEF CheckLists, restVars, ListsEmpty
<1>30. ASSUME WaitForUnderflow PROVE LockInv'
  BY <1>30 DEF WaitForUnderflow, restVars
<1>31. ASSUME KillAllZombiesEnter PROVE LockInv'
  BY <1>31 DEF KillAllZombiesEnter, restVars, Disconnected
<1>32. ASSUME KillAllZombiesLeave PROVE LockInv'
  BY <1>32 DEF KillAllZombiesLeave, restVars, IsOver
<1>33. CASE UNCHANGED vars
  BY <1>33 DEF vars
<1> QED
  BY <1>1, <1>2, <1>3, <1>4, <1>5, <1>6, <1>7, <1>8, <1>9, <1>10, <1>11,
     <1>12, <1>13, <1>14, <1>15, <1>16, <1>17, <1>18, <1>19, <1>20, <1>21,
     <1>22, <1>23, <1>24, <1>25, <1>26, <1>27, <1>28, <1>29, <1>30, <1>31,
     <1>32, <1>33 DEF Next, ManagerNext,
     ClientNegotiates, ClientLocks, ClientRuns, DesktopRuns, AllDone

\* A callback calls into clients that cannot delete their handlers now.
LEMMA CallInv_Step ==
  ASSUME TypeOK, IInv, [Next]_vars, TypeOK'
  PROVE  CallInv'
<1> USE NoClientAssumption DEF NoClientAssumption, IInv
<1> USE DEF TypeOK, CallInv, LockInv, PlaceInv, PhaseInv, ExactlyOneOwner,
        ClientPC, ClientState, Free, RfbClientThread, DesktopThread,
        MainThread, Threads, listVars, clientVars, deskVars, zombieVars
<1>1. ASSUME NEW c \in Clients, addNewConnection(c) PROVE CallInv'
  BY <1>1 DEF addNewConnection
<1>2. ASSUME NEW c \in Clients, PeerDisconnects(c) PROVE CallInv'
  BY <1>2 DEF PeerDisconnects
<1>3. ASSUME NEW c \in Clients, AuthPhaseSucceeds(c) PROVE CallInv'
  BY <1>3 DEF AuthPhaseSucceeds, Goto
<1>4. ASSUME NEW c \in Clients, AuthPhaseFails(c) PROVE CallInv'
  BY <1>4 DEF AuthPhaseFails, Goto
<1>5. ASSUME NEW c \in Clients, EnterNormalPhase(c) PROVE CallInv'
  BY <1>5 DEF EnterNormalPhase, Goto
<1>6. ASSUME NEW c \in Clients, onClientAuthRefuses(c) PROVE CallInv'
  BY <1>6 DEF onClientAuthRefuses, Goto
<1>7. ASSUME NEW c \in Clients, onClientAuthAccepts(c) PROVE CallInv'
  BY <1>7 DEF onClientAuthAccepts, ListAuthorized, Disconnected
<1>8. ASSUME NEW c \in Clients, onClientAuthDesktopFails(c) PROVE CallInv'
  BY <1>8 DEF onClientAuthDesktopFails, ListAuthorized, Disconnected
<1>9. ASSUME NEW c \in Clients, ValidateEnter(c) PROVE CallInv'
  BY <1>9 DEF ValidateEnter, Goto
<1>10. ASSUME NEW c \in Clients, Revalidate(c) PROVE CallInv'
  BY <1>10 DEF Revalidate, UnderflowNotified, ListsEmpty
<1>11. ASSUME NEW c \in Clients, ConstructParts(c) PROVE CallInv'
  BY <1>11 DEF ConstructParts, Goto
<1>12. ASSUME NEW c \in Clients, ConnectionLost(c) PROVE CallInv'
  BY <1>12 DEF ConnectionLost
<1>13. ASSUME NEW c \in Clients, CloseAndPend(c) PROVE CallInv'
  BY <1>13 DEF CloseAndPend, Goto, Disconnected
<1>14. ASSUME NEW c \in Clients, Validate(c) PROVE CallInv'
  BY <1>14 DEF Validate, Removable, TakeDesktop
<1>15. ASSUME NEW c \in Clients, DestroyDesktop(c) PROVE CallInv'
  BY <1>15 DEF DestroyDesktop, Goto
<1>16. ASSUME NEW c \in Clients, JoinDesktop(c) PROVE CallInv'
  BY <1>16 DEF JoinDesktop, Goto
<1>17. ASSUME NEW c \in Clients, afterLastClientDisconnect(c) PROVE CallInv'
  BY <1>17 DEF afterLastClientDisconnect, Goto
<1>18. ASSUME NEW c \in Clients, DeleteParts(c) PROVE CallInv'
  BY <1>18 DEF DeleteParts, Goto
<1>19. ASSUME NEW d \in Clients, DesktopWakes(d) PROVE CallInv'
  BY <1>19 DEF DesktopWakes, otherVars
<1>20. ASSUME NEW d \in Clients, onAbnormalDesktopTerminate(d) PROVE CallInv'
  BY <1>20 DEF onAbnormalDesktopTerminate, otherVars, Disconnected
<1>21. ASSUME NEW d \in Clients, CallbackEnter(d) PROVE CallInv'
  BY <1>21 DEF CallbackEnter, otherVars
<1>22. ASSUME NEW d \in Clients, NEW k \in Clients, CheckClient(d, k) PROVE CallInv'
  BY <1>22 DEF CheckClient, otherVars, IsServed
<1>23. ASSUME NEW d \in Clients, UseClient(d) PROVE CallInv'
  BY <1>23 DEF UseClient, otherVars
<1>24. ASSUME NEW d \in Clients, CallbackLeave(d) PROVE CallInv'
  BY <1>24 DEF CallbackLeave, otherVars
<1>25. ASSUME NEW d \in Clients, DesktopExits(d) PROVE CallInv'
  BY <1>25 DEF DesktopExits, otherVars
<1>26. ASSUME deleteDeadZombies PROVE CallInv'
  BY <1>26 DEF deleteDeadZombies, restVars, IsOver
<1>27. ASSUME BeginDestructor PROVE CallInv'
  BY <1>27 DEF BeginDestructor, restVars
<1>28. ASSUME disconnectAllClients PROVE CallInv'
  BY <1>28 DEF disconnectAllClients, restVars, Disconnected
<1>29. ASSUME CheckLists PROVE CallInv'
  BY <1>29 DEF CheckLists, restVars, ListsEmpty
<1>30. ASSUME WaitForUnderflow PROVE CallInv'
  BY <1>30 DEF WaitForUnderflow, restVars
<1>31. ASSUME KillAllZombiesEnter PROVE CallInv'
  BY <1>31 DEF KillAllZombiesEnter, restVars, Disconnected
<1>32. ASSUME KillAllZombiesLeave PROVE CallInv'
  BY <1>32 DEF KillAllZombiesLeave, restVars, IsOver
<1>33. CASE UNCHANGED vars
  BY <1>33 DEF vars
<1> QED
  BY <1>1, <1>2, <1>3, <1>4, <1>5, <1>6, <1>7, <1>8, <1>9, <1>10, <1>11,
     <1>12, <1>13, <1>14, <1>15, <1>16, <1>17, <1>18, <1>19, <1>20, <1>21,
     <1>22, <1>23, <1>24, <1>25, <1>26, <1>27, <1>28, <1>29, <1>30, <1>31,
     <1>32, <1>33 DEF Next, ManagerNext,
     ClientNegotiates, ClientLocks, ClientRuns, DesktopRuns, AllDone

\* The manager's desktop lives, and a doomed one has a single destroyer.
LEMMA DeskInv_Step ==
  ASSUME TypeOK, IInv, [Next]_vars, TypeOK'
  PROVE  DeskInv'
<1> USE NoClientAssumption DEF NoClientAssumption, IInv
<1> USE DEF TypeOK, DeskInv, PlaceInv, PhaseInv, ExactlyOneOwner, ClientPC,
        ClientState, Free, RfbClientThread, DesktopThread, MainThread,
        Threads, listVars, clientVars, deskVars, zombieVars
<1>1. ASSUME NEW c \in Clients, addNewConnection(c) PROVE DeskInv'
  BY <1>1 DEF addNewConnection
<1>2. ASSUME NEW c \in Clients, PeerDisconnects(c) PROVE DeskInv'
  BY <1>2 DEF PeerDisconnects
<1>3. ASSUME NEW c \in Clients, AuthPhaseSucceeds(c) PROVE DeskInv'
  BY <1>3 DEF AuthPhaseSucceeds, Goto
<1>4. ASSUME NEW c \in Clients, AuthPhaseFails(c) PROVE DeskInv'
  BY <1>4 DEF AuthPhaseFails, Goto
<1>5. ASSUME NEW c \in Clients, EnterNormalPhase(c) PROVE DeskInv'
  BY <1>5 DEF EnterNormalPhase, Goto
<1>6. ASSUME NEW c \in Clients, onClientAuthRefuses(c) PROVE DeskInv'
  BY <1>6 DEF onClientAuthRefuses, Goto
<1>7. ASSUME NEW c \in Clients, onClientAuthAccepts(c) PROVE DeskInv'
  BY <1>7 DEF onClientAuthAccepts, ListAuthorized, Disconnected
<1>8. ASSUME NEW c \in Clients, onClientAuthDesktopFails(c) PROVE DeskInv'
  BY <1>8 DEF onClientAuthDesktopFails, ListAuthorized, Disconnected
<1>9. ASSUME NEW c \in Clients, ValidateEnter(c) PROVE DeskInv'
  BY <1>9 DEF ValidateEnter, Goto
<1>10. ASSUME NEW c \in Clients, Revalidate(c) PROVE DeskInv'
  BY <1>10 DEF Revalidate, UnderflowNotified, ListsEmpty
<1>11. ASSUME NEW c \in Clients, ConstructParts(c) PROVE DeskInv'
  BY <1>11 DEF ConstructParts, Goto
<1>12. ASSUME NEW c \in Clients, ConnectionLost(c) PROVE DeskInv'
  BY <1>12 DEF ConnectionLost
<1>13. ASSUME NEW c \in Clients, CloseAndPend(c) PROVE DeskInv'
  BY <1>13 DEF CloseAndPend, Goto, Disconnected
<1>14. ASSUME NEW c \in Clients, Validate(c) PROVE DeskInv'
  BY <1>14 DEF Validate, Removable, TakeDesktop
<1>15. ASSUME NEW c \in Clients, DestroyDesktop(c) PROVE DeskInv'
  BY <1>15 DEF DestroyDesktop, Goto
<1>16. ASSUME NEW c \in Clients, JoinDesktop(c) PROVE DeskInv'
  BY <1>16 DEF JoinDesktop, Goto
<1>17. ASSUME NEW c \in Clients, afterLastClientDisconnect(c) PROVE DeskInv'
  BY <1>17 DEF afterLastClientDisconnect, Goto
<1>18. ASSUME NEW c \in Clients, DeleteParts(c) PROVE DeskInv'
  BY <1>18 DEF DeleteParts, Goto
<1>19. ASSUME NEW d \in Clients, DesktopWakes(d) PROVE DeskInv'
  BY <1>19 DEF DesktopWakes, otherVars
<1>20. ASSUME NEW d \in Clients, onAbnormalDesktopTerminate(d) PROVE DeskInv'
  BY <1>20 DEF onAbnormalDesktopTerminate, otherVars, Disconnected
<1>21. ASSUME NEW d \in Clients, CallbackEnter(d) PROVE DeskInv'
  BY <1>21 DEF CallbackEnter, otherVars
<1>22. ASSUME NEW d \in Clients, NEW k \in Clients, CheckClient(d, k) PROVE DeskInv'
  BY <1>22 DEF CheckClient, otherVars, IsServed
<1>23. ASSUME NEW d \in Clients, UseClient(d) PROVE DeskInv'
  BY <1>23 DEF UseClient, otherVars
<1>24. ASSUME NEW d \in Clients, CallbackLeave(d) PROVE DeskInv'
  BY <1>24 DEF CallbackLeave, otherVars
<1>25. ASSUME NEW d \in Clients, DesktopExits(d) PROVE DeskInv'
  BY <1>25 DEF DesktopExits, otherVars
<1>26. ASSUME deleteDeadZombies PROVE DeskInv'
  BY <1>26 DEF deleteDeadZombies, restVars, IsOver
<1>27. ASSUME BeginDestructor PROVE DeskInv'
  BY <1>27 DEF BeginDestructor, restVars
<1>28. ASSUME disconnectAllClients PROVE DeskInv'
  BY <1>28 DEF disconnectAllClients, restVars, Disconnected
<1>29. ASSUME CheckLists PROVE DeskInv'
  BY <1>29 DEF CheckLists, restVars, ListsEmpty
<1>30. ASSUME WaitForUnderflow PROVE DeskInv'
  BY <1>30 DEF WaitForUnderflow, restVars
<1>31. ASSUME KillAllZombiesEnter PROVE DeskInv'
  BY <1>31 DEF KillAllZombiesEnter, restVars, Disconnected
<1>32. ASSUME KillAllZombiesLeave PROVE DeskInv'
  BY <1>32 DEF KillAllZombiesLeave, restVars, IsOver
<1>33. CASE UNCHANGED vars
  BY <1>33 DEF vars
<1> QED
  BY <1>1, <1>2, <1>3, <1>4, <1>5, <1>6, <1>7, <1>8, <1>9, <1>10, <1>11,
     <1>12, <1>13, <1>14, <1>15, <1>16, <1>17, <1>18, <1>19, <1>20, <1>21,
     <1>22, <1>23, <1>24, <1>25, <1>26, <1>27, <1>28, <1>29, <1>30, <1>31,
     <1>32, <1>33 DEF Next, ManagerNext,
     ClientNegotiates, ClientLocks, ClientRuns, DesktopRuns, AllDone

\* The lists stay empty once the destructor has found them empty.
LEMMA MainInv_Step ==
  ASSUME TypeOK, IInv, [Next]_vars, TypeOK'
  PROVE  MainInv'
<1> USE NoClientAssumption DEF NoClientAssumption, IInv
<1> USE DEF TypeOK, MainInv, PlaceInv, ExactlyOneOwner, ClientPC, ClientState,
        Free, RfbClientThread, DesktopThread, MainThread, Threads, listVars,
        clientVars, deskVars, zombieVars
<1>1. ASSUME NEW c \in Clients, addNewConnection(c) PROVE MainInv'
  BY <1>1 DEF addNewConnection
<1>2. ASSUME NEW c \in Clients, PeerDisconnects(c) PROVE MainInv'
  BY <1>2 DEF PeerDisconnects
<1>3. ASSUME NEW c \in Clients, AuthPhaseSucceeds(c) PROVE MainInv'
  BY <1>3 DEF AuthPhaseSucceeds, Goto
<1>4. ASSUME NEW c \in Clients, AuthPhaseFails(c) PROVE MainInv'
  BY <1>4 DEF AuthPhaseFails, Goto
<1>5. ASSUME NEW c \in Clients, EnterNormalPhase(c) PROVE MainInv'
  BY <1>5 DEF EnterNormalPhase, Goto
<1>6. ASSUME NEW c \in Clients, onClientAuthRefuses(c) PROVE MainInv'
  BY <1>6 DEF onClientAuthRefuses, Goto
<1>7. ASSUME NEW c \in Clients, onClientAuthAccepts(c) PROVE MainInv'
  BY <1>7 DEF onClientAuthAccepts, ListAuthorized, Disconnected
<1>8. ASSUME NEW c \in Clients, onClientAuthDesktopFails(c) PROVE MainInv'
  BY <1>8 DEF onClientAuthDesktopFails, ListAuthorized, Disconnected
<1>9. ASSUME NEW c \in Clients, ValidateEnter(c) PROVE MainInv'
  BY <1>9 DEF ValidateEnter, Goto
<1>10. ASSUME NEW c \in Clients, Revalidate(c) PROVE MainInv'
  BY <1>10 DEF Revalidate, UnderflowNotified, ListsEmpty
<1>11. ASSUME NEW c \in Clients, ConstructParts(c) PROVE MainInv'
  BY <1>11 DEF ConstructParts, Goto
<1>12. ASSUME NEW c \in Clients, ConnectionLost(c) PROVE MainInv'
  BY <1>12 DEF ConnectionLost
<1>13. ASSUME NEW c \in Clients, CloseAndPend(c) PROVE MainInv'
  BY <1>13 DEF CloseAndPend, Goto, Disconnected
<1>14. ASSUME NEW c \in Clients, Validate(c) PROVE MainInv'
  BY <1>14 DEF Validate, Removable, TakeDesktop
<1>15. ASSUME NEW c \in Clients, DestroyDesktop(c) PROVE MainInv'
  BY <1>15 DEF DestroyDesktop, Goto
<1>16. ASSUME NEW c \in Clients, JoinDesktop(c) PROVE MainInv'
  BY <1>16 DEF JoinDesktop, Goto
<1>17. ASSUME NEW c \in Clients, afterLastClientDisconnect(c) PROVE MainInv'
  BY <1>17 DEF afterLastClientDisconnect, Goto
<1>18. ASSUME NEW c \in Clients, DeleteParts(c) PROVE MainInv'
  BY <1>18 DEF DeleteParts, Goto
<1>19. ASSUME NEW d \in Clients, DesktopWakes(d) PROVE MainInv'
  BY <1>19 DEF DesktopWakes, otherVars
<1>20. ASSUME NEW d \in Clients, onAbnormalDesktopTerminate(d) PROVE MainInv'
  BY <1>20 DEF onAbnormalDesktopTerminate, otherVars, Disconnected
<1>21. ASSUME NEW d \in Clients, CallbackEnter(d) PROVE MainInv'
  BY <1>21 DEF CallbackEnter, otherVars
<1>22. ASSUME NEW d \in Clients, NEW k \in Clients, CheckClient(d, k) PROVE MainInv'
  BY <1>22 DEF CheckClient, otherVars, IsServed
<1>23. ASSUME NEW d \in Clients, UseClient(d) PROVE MainInv'
  BY <1>23 DEF UseClient, otherVars
<1>24. ASSUME NEW d \in Clients, CallbackLeave(d) PROVE MainInv'
  BY <1>24 DEF CallbackLeave, otherVars
<1>25. ASSUME NEW d \in Clients, DesktopExits(d) PROVE MainInv'
  BY <1>25 DEF DesktopExits, otherVars
<1>26. ASSUME deleteDeadZombies PROVE MainInv'
  BY <1>26 DEF deleteDeadZombies, restVars, IsOver
<1>27. ASSUME BeginDestructor PROVE MainInv'
  BY <1>27 DEF BeginDestructor, restVars
<1>28. ASSUME disconnectAllClients PROVE MainInv'
  BY <1>28 DEF disconnectAllClients, restVars, Disconnected
<1>29. ASSUME CheckLists PROVE MainInv'
  BY <1>29 DEF CheckLists, restVars, ListsEmpty
<1>30. ASSUME WaitForUnderflow PROVE MainInv'
  BY <1>30 DEF WaitForUnderflow, restVars
<1>31. ASSUME KillAllZombiesEnter PROVE MainInv'
  BY <1>31 DEF KillAllZombiesEnter, restVars, Disconnected
<1>32. ASSUME KillAllZombiesLeave PROVE MainInv'
  BY <1>32 DEF KillAllZombiesLeave, restVars, IsOver
<1>33. CASE UNCHANGED vars
  BY <1>33 DEF vars
<1> QED
  BY <1>1, <1>2, <1>3, <1>4, <1>5, <1>6, <1>7, <1>8, <1>9, <1>10, <1>11,
     <1>12, <1>13, <1>14, <1>15, <1>16, <1>17, <1>18, <1>19, <1>20, <1>21,
     <1>22, <1>23, <1>24, <1>25, <1>26, <1>27, <1>28, <1>29, <1>30, <1>31,
     <1>32, <1>33 DEF Next, ManagerNext,
     ClientNegotiates, ClientLocks, ClientRuns, DesktopRuns, AllDone

\* Never-shared clients exclude each other.
LEMMA NeverSharedIsExclusive_Step ==
  ASSUME TypeOK, IInv, [Next]_vars, TypeOK'
  PROVE  NeverSharedIsExclusive'
<1> USE NoClientAssumption DEF NoClientAssumption, IInv
<1> USE DEF TypeOK, NeverSharedIsExclusive, PlaceInv, ExactlyOneOwner, ClientPC,
        ClientState, Free, RfbClientThread, DesktopThread, MainThread,
        Threads, listVars, clientVars, deskVars, zombieVars
<1>1. ASSUME NEW c \in Clients, addNewConnection(c) PROVE NeverSharedIsExclusive'
  BY <1>1 DEF addNewConnection
<1>2. ASSUME NEW c \in Clients, PeerDisconnects(c) PROVE NeverSharedIsExclusive'
  BY <1>2 DEF PeerDisconnects
<1>3. ASSUME NEW c \in Clients, AuthPhaseSucceeds(c) PROVE NeverSharedIsExclusive'
  BY <1>3 DEF AuthPhaseSucceeds, Goto
<1>4. ASSUME NEW c \in Clients, AuthPhaseFails(c) PROVE NeverSharedIsExclusive'
  BY <1>4 DEF AuthPhaseFails, Goto
<1>5. ASSUME NEW c \in Clients, EnterNormalPhase(c) PROVE NeverSharedIsExclusive'
  BY <1>5 DEF EnterNormalPhase, Goto
<1>6. ASSUME NEW c \in Clients, onClientAuthRefuses(c) PROVE NeverSharedIsExclusive'
  BY <1>6 DEF onClientAuthRefuses, Goto
<1>7. ASSUME NEW c \in Clients, onClientAuthAccepts(c) PROVE NeverSharedIsExclusive'
  <2>1. /\ UNCHANGED servConf
        /\ m_clientList' = m_clientList \cup {c} /\ c \notin m_clientList
        /\ ListAuthorized(c)
    BY <1>7 DEF onClientAuthAccepts, ListAuthorized
  <2>2. SUFFICES ASSUME servConf.neverShared, ~servConf.alwaysShared
                 PROVE  \A a, b \in m_clientList' : sockOpen'[a] /\ sockOpen'[b] => a = b
    BY <2>1
  <2>3. \A sharedFlag \in BOOLEAN : IsExclusive(sharedFlag)
    BY <2>2 DEF IsExclusive
  <2>4. m_clientList = {} \/ sockOpen' = Disconnected(m_clientList)
    BY <2>1, <2>3 DEF ListAuthorized
  <2>5. sockOpen' = Disconnected(m_clientList)
    BY <2>1, <2>3 DEF ListAuthorized
  <2> QED
    BY <2>1, <2>5 DEF Disconnected
<1>8. ASSUME NEW c \in Clients, onClientAuthDesktopFails(c) PROVE NeverSharedIsExclusive'
  <2>1. /\ UNCHANGED servConf
        /\ m_clientList' = m_clientList \cup {c} /\ c \notin m_clientList
        /\ ListAuthorized(c)
    BY <1>8 DEF onClientAuthDesktopFails, ListAuthorized
  <2>2. SUFFICES ASSUME servConf.neverShared, ~servConf.alwaysShared
                 PROVE  \A a, b \in m_clientList' : sockOpen'[a] /\ sockOpen'[b] => a = b
    BY <2>1
  <2>3. \A sharedFlag \in BOOLEAN : IsExclusive(sharedFlag)
    BY <2>2 DEF IsExclusive
  <2>4. m_clientList = {} \/ sockOpen' = Disconnected(m_clientList)
    BY <2>1, <2>3 DEF ListAuthorized
  <2>5. sockOpen' = Disconnected(m_clientList)
    BY <2>1, <2>3 DEF ListAuthorized
  <2> QED
    BY <2>1, <2>5 DEF Disconnected
<1>9. ASSUME NEW c \in Clients, ValidateEnter(c) PROVE NeverSharedIsExclusive'
  BY <1>9 DEF ValidateEnter, Goto
<1>10. ASSUME NEW c \in Clients, Revalidate(c) PROVE NeverSharedIsExclusive'
  BY <1>10 DEF Revalidate, UnderflowNotified, ListsEmpty
<1>11. ASSUME NEW c \in Clients, ConstructParts(c) PROVE NeverSharedIsExclusive'
  BY <1>11 DEF ConstructParts, Goto
<1>12. ASSUME NEW c \in Clients, ConnectionLost(c) PROVE NeverSharedIsExclusive'
  BY <1>12 DEF ConnectionLost
<1>13. ASSUME NEW c \in Clients, CloseAndPend(c) PROVE NeverSharedIsExclusive'
  BY <1>13 DEF CloseAndPend, Goto, Disconnected
<1>14. ASSUME NEW c \in Clients, Validate(c) PROVE NeverSharedIsExclusive'
  BY <1>14 DEF Validate, Removable, TakeDesktop
<1>15. ASSUME NEW c \in Clients, DestroyDesktop(c) PROVE NeverSharedIsExclusive'
  BY <1>15 DEF DestroyDesktop, Goto
<1>16. ASSUME NEW c \in Clients, JoinDesktop(c) PROVE NeverSharedIsExclusive'
  BY <1>16 DEF JoinDesktop, Goto
<1>17. ASSUME NEW c \in Clients, afterLastClientDisconnect(c) PROVE NeverSharedIsExclusive'
  BY <1>17 DEF afterLastClientDisconnect, Goto
<1>18. ASSUME NEW c \in Clients, DeleteParts(c) PROVE NeverSharedIsExclusive'
  BY <1>18 DEF DeleteParts, Goto
<1>19. ASSUME NEW d \in Clients, DesktopWakes(d) PROVE NeverSharedIsExclusive'
  BY <1>19 DEF DesktopWakes, otherVars
<1>20. ASSUME NEW d \in Clients, onAbnormalDesktopTerminate(d) PROVE NeverSharedIsExclusive'
  BY <1>20 DEF onAbnormalDesktopTerminate, otherVars, Disconnected
<1>21. ASSUME NEW d \in Clients, CallbackEnter(d) PROVE NeverSharedIsExclusive'
  BY <1>21 DEF CallbackEnter, otherVars
<1>22. ASSUME NEW d \in Clients, NEW k \in Clients, CheckClient(d, k) PROVE NeverSharedIsExclusive'
  BY <1>22 DEF CheckClient, otherVars, IsServed
<1>23. ASSUME NEW d \in Clients, UseClient(d) PROVE NeverSharedIsExclusive'
  BY <1>23 DEF UseClient, otherVars
<1>24. ASSUME NEW d \in Clients, CallbackLeave(d) PROVE NeverSharedIsExclusive'
  BY <1>24 DEF CallbackLeave, otherVars
<1>25. ASSUME NEW d \in Clients, DesktopExits(d) PROVE NeverSharedIsExclusive'
  BY <1>25 DEF DesktopExits, otherVars
<1>26. ASSUME deleteDeadZombies PROVE NeverSharedIsExclusive'
  BY <1>26 DEF deleteDeadZombies, restVars, IsOver
<1>27. ASSUME BeginDestructor PROVE NeverSharedIsExclusive'
  BY <1>27 DEF BeginDestructor, restVars
<1>28. ASSUME disconnectAllClients PROVE NeverSharedIsExclusive'
  BY <1>28 DEF disconnectAllClients, restVars, Disconnected
<1>29. ASSUME CheckLists PROVE NeverSharedIsExclusive'
  BY <1>29 DEF CheckLists, restVars, ListsEmpty
<1>30. ASSUME WaitForUnderflow PROVE NeverSharedIsExclusive'
  BY <1>30 DEF WaitForUnderflow, restVars
<1>31. ASSUME KillAllZombiesEnter PROVE NeverSharedIsExclusive'
  BY <1>31 DEF KillAllZombiesEnter, restVars, Disconnected
<1>32. ASSUME KillAllZombiesLeave PROVE NeverSharedIsExclusive'
  BY <1>32 DEF KillAllZombiesLeave, restVars, IsOver
<1>33. CASE UNCHANGED vars
  BY <1>33 DEF vars
<1> QED
  BY <1>1, <1>2, <1>3, <1>4, <1>5, <1>6, <1>7, <1>8, <1>9, <1>10, <1>11,
     <1>12, <1>13, <1>14, <1>15, <1>16, <1>17, <1>18, <1>19, <1>20, <1>21,
     <1>22, <1>23, <1>24, <1>25, <1>26, <1>27, <1>28, <1>29, <1>30, <1>31,
     <1>32, <1>33 DEF Next, ManagerNext,
     ClientNegotiates, ClientLocks, ClientRuns, DesktopRuns, AllDone
--------------------------------------------------------------------------------
\* The manager begins without clients, locks or desktop.
LEMMA InvariantInit == Init => IInv
BY NoClientAssumption
DEF NoClientAssumption, Init, IInv, PlaceInv, ExactlyOneOwner, PhaseInv,
    LockInv, CallInv, DeskInv, MainInv, NeverSharedIsExclusive, Free,
    RfbClientThread, DesktopThread

\* Every part of the invariant survives every step.
LEMMA InvariantStep ==
  ASSUME TypeOK, TypeOK', IInv, [Next]_vars
  PROVE  IInv'
BY PlaceInv_Step, PhaseInv_Step, LockInv_Step, CallInv_Step, DeskInv_Step,
   MainInv_Step, NeverSharedIsExclusive_Step DEF IInv

\* The invariant IInv holds in every reachable state.
THEOREM Inductive == SafetySpec => [](TypeOK /\ IInv)
<1>1. Init => IInv
  BY InvariantInit
<1>2. TypeOK /\ TypeOK' /\ IInv /\ [Next]_vars => IInv'
  BY InvariantStep
<1> QED
  BY <1>1, <1>2, TypeCorrect, PTL DEF SafetySpec

\* No desktop thread ever calls into handlers that the client's thread has
\* deleted: the notification in the pending state is the barrier that the
\* comment in RfbClient::execute() claims it to be.
THEOREM CallsAreSafe == SafetySpec => []CallsReachLivingHandlers
<1>1. TypeOK /\ IInv => CallsReachLivingHandlers
  BY DEF TypeOK, IInv, CallInv, PlaceInv, ExactlyOneOwner, CallsReachLivingHandlers
<1> QED
  BY <1>1, Inductive, PTL

\* A client that uses the desktop uses the manager's own, which lives.
THEOREM DesktopIsSafe == SafetySpec => []DesktopOutlivesItsUsers
<1>1. TypeOK /\ IInv => DesktopOutlivesItsUsers
  BY DEF TypeOK, IInv, DeskInv, DesktopOutlivesItsUsers
<1> QED
  BY <1>1, Inductive, PTL

\* No client object is lost, listed twice, or deleted before its thread ends.
THEOREM ClientsAreOwned == SafetySpec => []ExactlyOneOwner
<1>1. IInv => ExactlyOneOwner
  BY DEF IInv, PlaceInv
<1> QED
  BY <1>1, Inductive, PTL

\* With a never-shared configuration, authorized clients exclude each other.
THEOREM NeverSharedExclusion == SafetySpec => []NeverSharedIsExclusive
<1>1. IInv => NeverSharedIsExclusive
  BY DEF IInv
<1> QED
  BY <1>1, Inductive, PTL

\* When the lists are empty and the zombies gone, everything is.
LEMMA NothingLeft == TypeOK /\ IInv => NothingOutlivesTheManager
<1> SUFFICES ASSUME TypeOK, IInv, mpc = "destroyed"
             PROVE  /\ \A c \in Clients : pc[c] = "unborn" \/ c \in freed
                    /\ \A d \in Clients : desk[d] \in {"none", "gone"}
                    /\ m_clientListLocker = Free /\ m_desktop = NoClient
  BY DEF NothingOutlivesTheManager
<1>1. m_clientList = {} /\ m_nonAuthClientList = {} /\ m_zombies = {}
  BY DEF IInv, MainInv
<1>2. \A c \in Clients : pc[c] = "unborn" \/ (c \in freed /\ pc[c] = "done")
  BY <1>1 DEF IInv, PlaceInv, ExactlyOneOwner
<1>3. m_desktop = NoClient /\ \A c \in Clients : doomed[c] = NoClient
  BY <1>1, <1>2 DEF IInv, DeskInv
<1>4. \A d \in Clients : desk[d] \in {"none", "gone"}
  BY <1>3, NoClientAssumption DEF NoClientAssumption, IInv, DeskInv, TypeOK
<1>5. \A d \in Clients : dpc[d] # "scan"
  BY <1>4 DEF IInv, DeskInv
<1>6. m_clientListLocker = Free
  BY <1>2, <1>5 DEF IInv, LockInv, TypeOK, Threads, MainThread
<1> QED
  BY <1>2, <1>3, <1>4, <1>6

\* When the destructor of the manager returns, every client is deleted and
\* every desktop thread is over.
THEOREM ManagerIsLeftAlone == SafetySpec => []NothingOutlivesTheManager
BY NothingLeft, Inductive, PTL
--------------------------------------------------------------------------------
(* The manager implements SharedDesktop.                                   *)

Living == {d \in Clients : desk[d] \in {"alive", "stopping"}}
Former == {c \in Clients : deskOf[c] # NoClient}

\* A step that leaves desktops, users and calls alone is none of the shared
\* desktop.
LEMMA NothingShared ==
  ASSUME Users' = Users, Living' = Living, Former' = Former,
         UNCHANGED <<m_desktop, dusing>>
  PROVE  UNCHANGED Shared!desktopVars
BY DEF Shared!desktopVars, Users, Living, Former

LEMMA NoDesktopShared ==
  ASSUME Users' = Users, UNCHANGED <<m_desktop, dusing, desk, deskOf>>
  PROVE  UNCHANGED Shared!desktopVars
<1>1. Living' = Living /\ Former' = Former
  BY DEF Living, Former
<1> QED
  BY <1>1, NothingShared

\* Every step of the manager is a step of the shared desktop, or none of it.
LEMMA SharedStep ==
  ASSUME TypeOK, IInv, [Next]_vars
  PROVE  [Shared!Next]_(Shared!desktopVars)
<1> USE NoClientAssumption DEF NoClientAssumption
<1>1. ASSUME NEW c \in Clients, addNewConnection(c) PROVE [Shared!Next]_(Shared!desktopVars)
  <2>1. Users' = Users
    BY <1>1 DEF addNewConnection, Users, TypeOK, deskVars
  <2> QED
    BY <1>1, <2>1, NoDesktopShared DEF addNewConnection, deskVars
<1>2. ASSUME NEW c \in Clients, PeerDisconnects(c) PROVE [Shared!Next]_(Shared!desktopVars)
  <2>1. Users' = Users
    BY <1>2 DEF PeerDisconnects, Users, TypeOK, deskVars
  <2> QED
    BY <1>2, <2>1, NoDesktopShared DEF PeerDisconnects, deskVars
<1>3. ASSUME NEW c \in Clients, AuthPhaseSucceeds(c) PROVE [Shared!Next]_(Shared!desktopVars)
  <2>1. Users' = Users
    BY <1>3 DEF AuthPhaseSucceeds, Goto, Users, TypeOK, deskVars
  <2> QED
    BY <1>3, <2>1, NoDesktopShared DEF AuthPhaseSucceeds, deskVars
<1>4. ASSUME NEW c \in Clients, AuthPhaseFails(c) PROVE [Shared!Next]_(Shared!desktopVars)
  <2>1. Users' = Users
    BY <1>4 DEF AuthPhaseFails, Goto, Users, TypeOK, deskVars
  <2> QED
    BY <1>4, <2>1, NoDesktopShared DEF AuthPhaseFails, deskVars
<1>5. ASSUME NEW c \in Clients, EnterNormalPhase(c) PROVE [Shared!Next]_(Shared!desktopVars)
  <2>1. Users' = Users
    BY <1>5 DEF EnterNormalPhase, Goto, Users, TypeOK, deskVars
  <2> QED
    BY <1>5, <2>1, NoDesktopShared DEF EnterNormalPhase, deskVars
<1>6. ASSUME NEW c \in Clients, onClientAuthRefuses(c) PROVE [Shared!Next]_(Shared!desktopVars)
  <2>1. Users' = Users
    BY <1>6 DEF onClientAuthRefuses, Goto, Users, TypeOK, deskVars
  <2> QED
    BY <1>6, <2>1, NoDesktopShared DEF onClientAuthRefuses, deskVars
<1>7. ASSUME NEW c \in Clients, onClientAuthDesktopFails(c) PROVE [Shared!Next]_(Shared!desktopVars)
  <2>1. Users' = Users
    BY <1>7 DEF onClientAuthDesktopFails, ListAuthorized, Users, TypeOK, deskVars
  <2> QED
    BY <1>7, <2>1, NoDesktopShared DEF onClientAuthDesktopFails, deskVars
<1>8. ASSUME NEW c \in Clients, ValidateEnter(c) PROVE [Shared!Next]_(Shared!desktopVars)
  <2>1. Users' = Users
    BY <1>8 DEF ValidateEnter, Goto, Users, TypeOK, deskVars
  <2> QED
    BY <1>8, <2>1, NoDesktopShared DEF ValidateEnter, deskVars
<1>9. ASSUME NEW c \in Clients, Revalidate(c) PROVE [Shared!Next]_(Shared!desktopVars)
  <2>1. Users' = Users
    BY <1>9 DEF Revalidate, Users, TypeOK, deskVars
  <2> QED
    BY <1>9, <2>1, NoDesktopShared DEF Revalidate, deskVars
<1>10. ASSUME NEW c \in Clients, ConnectionLost(c) PROVE [Shared!Next]_(Shared!desktopVars)
  <2>1. Users' = Users
    BY <1>10 DEF ConnectionLost, Users, TypeOK, deskVars
  <2> QED
    BY <1>10, <2>1, NoDesktopShared DEF ConnectionLost, deskVars
<1>11. ASSUME NEW c \in Clients, CloseAndPend(c) PROVE [Shared!Next]_(Shared!desktopVars)
  <2>1. Users' = Users
    BY <1>11 DEF CloseAndPend, Goto, Users, TypeOK, deskVars
  <2> QED
    BY <1>11, <2>1, NoDesktopShared DEF CloseAndPend, deskVars
<1>12. ASSUME NEW c \in Clients, afterLastClientDisconnect(c) PROVE [Shared!Next]_(Shared!desktopVars)
  <2>1. Users' = Users
    BY <1>12 DEF afterLastClientDisconnect, Goto, Users, TypeOK, deskVars
  <2> QED
    BY <1>12, <2>1, NoDesktopShared DEF afterLastClientDisconnect, deskVars
<1>13. ASSUME NEW c \in Clients, ConstructParts(c) PROVE [Shared!Next]_(Shared!desktopVars)
  <2>1. Users' = Users
    BY <1>13 DEF ConstructParts, Goto, IInv, PhaseInv, Users, TypeOK, deskVars
  <2> QED
    BY <1>13, <2>1, NoDesktopShared DEF ConstructParts, deskVars
<1>14. ASSUME NEW d \in Clients, DesktopWakes(d) PROVE [Shared!Next]_(Shared!desktopVars)
  <2>1. Users' = Users
    BY <1>14 DEF DesktopWakes, Users, otherVars
  <2> QED
    BY <1>14, <2>1, NoDesktopShared DEF DesktopWakes, otherVars
<1>15. ASSUME NEW d \in Clients, onAbnormalDesktopTerminate(d) PROVE [Shared!Next]_(Shared!desktopVars)
  <2>1. Users' = Users
    BY <1>15 DEF onAbnormalDesktopTerminate, Users, otherVars
  <2> QED
    BY <1>15, <2>1, NoDesktopShared DEF onAbnormalDesktopTerminate, otherVars
<1>16. ASSUME NEW d \in Clients, CallbackEnter(d) PROVE [Shared!Next]_(Shared!desktopVars)
  <2>1. Users' = Users
    BY <1>16 DEF CallbackEnter, Users, otherVars
  <2> QED
    BY <1>16, <2>1, NoDesktopShared DEF CallbackEnter, otherVars
<1>17. ASSUME NEW d \in Clients, CallbackLeave(d) PROVE [Shared!Next]_(Shared!desktopVars)
  <2>1. Users' = Users
    BY <1>17 DEF CallbackLeave, Users, otherVars
  <2> QED
    BY <1>17, <2>1, NoDesktopShared DEF CallbackLeave, otherVars
<1>18. ASSUME NEW d \in Clients, DesktopExits(d) PROVE [Shared!Next]_(Shared!desktopVars)
  <2>1. Users' = Users
    BY <1>18 DEF DesktopExits, Users, otherVars
  <2> QED
    BY <1>18, <2>1, NoDesktopShared DEF DesktopExits, otherVars
<1>19. ASSUME deleteDeadZombies PROVE [Shared!Next]_(Shared!desktopVars)
  <2>1. Users' = Users
    BY <1>19 DEF deleteDeadZombies, Users, restVars
  <2> QED
    BY <1>19, <2>1, NoDesktopShared DEF deleteDeadZombies, restVars, deskVars
<1>20. ASSUME BeginDestructor PROVE [Shared!Next]_(Shared!desktopVars)
  <2>1. Users' = Users
    BY <1>20 DEF BeginDestructor, Users, restVars
  <2> QED
    BY <1>20, <2>1, NoDesktopShared DEF BeginDestructor, restVars, deskVars
<1>21. ASSUME disconnectAllClients PROVE [Shared!Next]_(Shared!desktopVars)
  <2>1. Users' = Users
    BY <1>21 DEF disconnectAllClients, Users, restVars
  <2> QED
    BY <1>21, <2>1, NoDesktopShared DEF disconnectAllClients, restVars, deskVars
<1>22. ASSUME CheckLists PROVE [Shared!Next]_(Shared!desktopVars)
  <2>1. Users' = Users
    BY <1>22 DEF CheckLists, Users, restVars
  <2> QED
    BY <1>22, <2>1, NoDesktopShared DEF CheckLists, restVars, deskVars
<1>23. ASSUME WaitForUnderflow PROVE [Shared!Next]_(Shared!desktopVars)
  <2>1. Users' = Users
    BY <1>23 DEF WaitForUnderflow, Users, restVars
  <2> QED
    BY <1>23, <2>1, NoDesktopShared DEF WaitForUnderflow, restVars, deskVars
<1>24. ASSUME KillAllZombiesEnter PROVE [Shared!Next]_(Shared!desktopVars)
  <2>1. Users' = Users
    BY <1>24 DEF KillAllZombiesEnter, Users, restVars
  <2> QED
    BY <1>24, <2>1, NoDesktopShared DEF KillAllZombiesEnter, restVars, deskVars
<1>25. ASSUME KillAllZombiesLeave PROVE [Shared!Next]_(Shared!desktopVars)
  <2>1. Users' = Users
    BY <1>25 DEF KillAllZombiesLeave, Users, restVars
  <2> QED
    BY <1>25, <2>1, NoDesktopShared DEF KillAllZombiesLeave, restVars, deskVars
<1>26. ASSUME UNCHANGED vars PROVE [Shared!Next]_(Shared!desktopVars)
  <2>1. Users' = Users
    BY <1>26 DEF vars, Users, clientVars
  <2> QED
    BY <1>26, <2>1, NoDesktopShared DEF vars, clientVars, deskVars
<1>27. ASSUME NEW c \in Clients, DestroyDesktop(c) PROVE [Shared!Next]_(Shared!desktopVars)
  <2>1. Users' = Users /\ Former' = Former
    BY <1>27 DEF DestroyDesktop, Goto, Users, Former, TypeOK
  <2>2. doomed[c] \in Clients /\ desk[doomed[c]] = "alive"
    BY <1>27 DEF DestroyDesktop, Goto, IInv, DeskInv, TypeOK
  <2>3. Living' = Living
    BY <1>27, <2>2 DEF DestroyDesktop, Living, TypeOK
  <2> QED
    BY <1>27, <2>1, <2>3, NothingShared DEF DestroyDesktop
<1>28. ASSUME NEW c \in Clients, JoinDesktop(c) PROVE [Shared!Next]_(Shared!desktopVars)
  <2>0. doomed[c] \in Clients
    BY <1>28 DEF JoinDesktop, Goto, IInv, DeskInv, TypeOK
  <2>1. PICK d \in Clients :
          d = doomed[c] /\ desk[d] = "stopping" /\ d # m_desktop
    BY <1>28, <2>0 DEF JoinDesktop, Goto, IInv, DeskInv, TypeOK
  <2>2. dusing[d] = NoClient
    BY <1>28, <2>1 DEF JoinDesktop, IInv, CallInv
  <2>3. Users' = Users /\ Former' = Former
    BY <1>28 DEF JoinDesktop, Goto, Users, Former, TypeOK
  <2>4. Living' = Living \ {d}
    BY <1>28, <2>1 DEF JoinDesktop, Living, TypeOK
  <2>5. Shared!Stop(d)
    BY <1>28, <2>1, <2>2, <2>3, <2>4 DEF Shared!Stop, JoinDesktop, Living, Users, Former
  <2> QED
    BY <2>1, <2>5 DEF Shared!Next
<1>29. ASSUME NEW c \in Clients, onClientAuthAccepts(c) PROVE [Shared!Next]_(Shared!desktopVars)
  <2>1. /\ pc[c] = "onClientAuth" /\ parts[c] = "none"
        /\ pc' = [pc EXCEPT ![c] = "construct"] /\ UNCHANGED <<parts, dusing>>
    BY <1>29 DEF onClientAuthAccepts, ListAuthorized, IInv, PhaseInv
  <2>2. Users' = Users \cup {c}
    BY <2>1 DEF Users, TypeOK
  <2>3. deskOf[c] = NoClient
    BY <2>1 DEF IInv, DeskInv, TypeOK
  <2>4. CASE m_desktop = NoClient
    <3>1. /\ m_desktop' = c /\ desk' = [desk EXCEPT ![c] = "alive"]
          /\ deskOf' = [deskOf EXCEPT ![c] = c]
      BY <1>29, <2>4 DEF onClientAuthAccepts
    <3>2. Living' = Living \cup {c} /\ Former' = Former \cup {c}
      BY <3>1 DEF Living, Former, TypeOK
    <3>3. Shared!Create(c)
      BY <2>1, <2>2, <2>3, <2>4, <3>1, <3>2 DEF Shared!Create, Living, Former, Users
    <3> QED
      BY <3>3 DEF Shared!Next
  <2>5. CASE m_desktop # NoClient
    <3>1. UNCHANGED <<m_desktop, desk>> /\ deskOf' = [deskOf EXCEPT ![c] = m_desktop]
      BY <1>29, <2>5 DEF onClientAuthAccepts
    <3>2. Living' = Living /\ Former' = Former \cup {c}
      BY <2>5, <3>1 DEF Living, Former, TypeOK
    <3>3. Shared!Share(c)
      BY <2>1, <2>2, <2>3, <2>5, <3>1, <3>2 DEF Shared!Share, Living, Former, Users
    <3> QED
      BY <3>3 DEF Shared!Next
  <2> QED
    BY <2>4, <2>5
<1>30. ASSUME NEW c \in Clients, DeleteParts(c) PROVE [Shared!Next]_(Shared!desktopVars)
  <2>1. /\ pc[c] = "deleteParts" /\ pc' = [pc EXCEPT ![c] = "validate"]
        /\ parts' = [parts EXCEPT ![c] = IF @ = "alive" THEN "deleted" ELSE @]
        /\ UNCHANGED <<m_desktop, desk, deskOf, dusing>>
    BY <1>30 DEF DeleteParts, Goto, deskVars
  <2>2. \A d \in Clients : dusing[d] # c
    BY <2>1 DEF IInv, CallInv, TypeOK
  <2>3. CASE parts[c] = "alive"
    <3>1. c \in Users /\ Users' = Users \ {c}
      BY <2>1, <2>3 DEF Users, TypeOK
    <3>2. Living' = Living /\ Former' = Former
      BY <2>1 DEF Living, Former
    <3>3. Shared!Leave(c)
      BY <2>1, <2>2, <3>1, <3>2 DEF Shared!Leave, Living, Former, Users
    <3> QED
      BY <3>3 DEF Shared!Next
  <2>4. CASE parts[c] # "alive"
    <3>1. Users' = Users
      BY <2>1, <2>4 DEF Users, TypeOK
    <3> QED
      BY <2>1, <3>1, NoDesktopShared
  <2> QED
    BY <2>3, <2>4
<1>31. ASSUME NEW c \in Clients, Validate(c) PROVE [Shared!Next]_(Shared!desktopVars)
  <2>1. pc[c] = "validating" /\ UNCHANGED <<parts, desk, deskOf, dusing>>
    BY <1>31 DEF Validate, deskVars
  <2>2. Users' = Users
    BY <1>31, <2>1 DEF Validate, TakeDesktop, Users, TypeOK
  <2>3. Living' = Living /\ Former' = Former
    BY <2>1 DEF Living, Former
  <2>4. CASE m_desktop # NoClient /\ m_clientList' = {}
    <3>1. m_desktop' = NoClient
      BY <1>31, <2>4 DEF Validate, TakeDesktop
    <3>2. \A k \in m_clientList : m_clientState[k] = "IN_READY_TO_REMOVE"
      BY <1>31, <2>4 DEF Validate, Removable
    <3>3. Users = {}
      BY <3>2 DEF Users, IInv, PlaceInv, PhaseInv
    <3>4. Shared!TakeAway
      BY <2>1, <2>2, <2>3, <2>4, <3>1, <3>3 DEF Shared!TakeAway, Living, Former, Users
    <3> QED
      BY <3>4 DEF Shared!Next
  <2>5. CASE ~(m_desktop # NoClient /\ m_clientList' = {})
    <3>1. UNCHANGED m_desktop
      BY <1>31, <2>5 DEF Validate
    <3> QED
      BY <2>1, <2>2, <3>1, NoDesktopShared
  <2> QED
    BY <2>4, <2>5
<1>32. ASSUME NEW d \in Clients, NEW k \in Clients, CheckClient(d, k) PROVE [Shared!Next]_(Shared!desktopVars)
  <2>1. /\ dpc[d] = "scan" /\ dusing[d] = NoClient /\ k \in m_clientList
        /\ UNCHANGED <<m_desktop, desk, deskOf, pc, parts>>
    BY <1>32 DEF CheckClient, otherVars, IInv, CallInv
  <2>2. Users' = Users /\ Living' = Living /\ Former' = Former
    BY <2>1 DEF Users, Living, Former
  <2>3. CASE IsServed(k)
    <3>1. dusing' = [dusing EXCEPT ![d] = k]
      BY <1>32, <2>3 DEF CheckClient
    <3>2. k \in Users
      BY <2>3 DEF IsServed, Users, IInv, PhaseInv
    <3>3. d \in Living
      BY <2>1 DEF Living, IInv, DeskInv, TypeOK
    <3>4. Shared!Serve(d, k)
      BY <2>1, <2>2, <3>1, <3>2, <3>3 DEF Shared!Serve, Living, Former, Users
    <3> QED
      BY <3>4 DEF Shared!Next
  <2>4. CASE ~IsServed(k)
    <3>1. UNCHANGED dusing
      BY <1>32, <2>1, <2>4 DEF CheckClient, TypeOK
    <3> QED
      BY <2>1, <2>2, <3>1, NoDesktopShared
  <2> QED
    BY <2>3, <2>4
<1>33. ASSUME NEW d \in Clients, UseClient(d) PROVE [Shared!Next]_(Shared!desktopVars)
  <2>1. /\ dusing[d] # NoClient /\ dusing' = [dusing EXCEPT ![d] = NoClient]
        /\ UNCHANGED <<m_desktop, desk, deskOf, pc, parts>>
    BY <1>33 DEF UseClient, otherVars
  <2>2. Users' = Users /\ Living' = Living /\ Former' = Former
    BY <2>1 DEF Users, Living, Former
  <2>3. Shared!Served(d)
    BY <2>1, <2>2 DEF Shared!Served, Living, Former, Users
  <2> QED
    BY <2>3 DEF Shared!Next
<1> QED
  BY <1>1, <1>2, <1>3, <1>4, <1>5, <1>6, <1>7, <1>8, <1>9, <1>10, <1>11,
     <1>12, <1>13, <1>14, <1>15, <1>16, <1>17, <1>18, <1>19, <1>20, <1>21,
     <1>22, <1>23, <1>24, <1>25, <1>26, <1>27, <1>28, <1>29, <1>30, <1>31,
     <1>32, <1>33
  DEF Next, ManagerNext, ClientNegotiates, ClientLocks, ClientRuns,
      DesktopRuns, AllDone

\* The manager, its clients and the threads of their desktops do what
\* SharedDesktop promises, for any number of clients: the desktop that
\* onClientAuth() gives is taken away by validateClientList() only when nobody
\* uses it, and its thread serves only clients that do.
THEOREM ImplementsSharedDesktop == SafetySpec => SharesOneDesktop
<1>1. Init => Shared!Init
  BY NoClientAssumption DEF NoClientAssumption, Init, Shared!Init, Users
<1>2. TypeOK /\ IInv /\ [Next]_vars => [Shared!Next]_(Shared!desktopVars)
  BY SharedStep
<1> QED
  BY <1>1, <1>2, Inductive, PTL DEF SafetySpec, SharesOneDesktop, Shared!Spec
--------------------------------------------------------------------------------
(* The manager while the service ends: ~TvnServer() kills the zombies under  *)
(* the manager's feet.  The invariant of the manager survives it, because    *)
(* only clients whose thread is over leave the ZombieKiller.                 *)

\* A step of the destructor before it deletes the manager, as the manager and
\* its desktop see it.
LEMMA KillZombiesStep ==
  ASSUME TypeOK, IInv, KillZombiesEnter \/ KillZombiesLeave
  PROVE  TypeOK' /\ IInv' /\ UNCHANGED Shared!desktopVars
<1>1. sockOpen' \in [Clients -> BOOLEAN]
  BY DisconnectedType DEF KillZombiesEnter, KillZombiesLeave, TypeOK
<1>2. UNCHANGED <<restVars, listVars, mpc>>
  BY DEF KillZombiesEnter, KillZombiesLeave
<1>3. \/ m_zombies' = m_zombies /\ freed' = freed
      \/ /\ m_zombies' = {} /\ freed' = freed \cup m_zombies
         /\ \A z \in m_zombies : pc[z] = "done"
  BY DEF KillZombiesEnter, KillZombiesLeave, ZombiesAreOver, IsOver, zombieVars
<1>4. m_lockObj' \in {Free, MainThread} /\ UNCHANGED m_listUnderflowingEvent
  BY DEF KillZombiesEnter, KillZombiesLeave
<1>5. TypeOK'
  BY <1>1, <1>2, <1>3, <1>4
  DEF TypeOK, ClientPC, ClientState, Threads, restVars, listVars, deskVars
<1>6. PlaceInv'
  <2>1. ExactlyOneOwner'
    BY <1>2, <1>3 DEF IInv, PlaceInv, ExactlyOneOwner, restVars, listVars
  <2>2. m_zombies' \cup freed' = m_zombies \cup freed
    BY <1>3
  <2> QED BY <1>2, <2>1, <2>2 DEF IInv, PlaceInv, restVars, listVars
<1>7. PhaseInv' /\ LockInv' /\ CallInv' /\ DeskInv'
  BY <1>2 DEF IInv, PhaseInv, LockInv, CallInv, DeskInv, restVars, listVars,
              deskVars
<1>8. MainInv'
  BY <1>2, <1>3 DEF IInv, MainInv, restVars, listVars
<1>9. NeverSharedIsExclusive'
  <2>1. \A c \in Clients : sockOpen'[c] => sockOpen[c]
    BY DEF KillZombiesEnter, KillZombiesLeave, Disconnected, TypeOK
  <2>2. m_clientList \subseteq Clients
    BY DEF TypeOK
  <2> QED
    BY <1>2, <2>1, <2>2 DEF IInv, NeverSharedIsExclusive, restVars, listVars
<1>10. UNCHANGED Shared!desktopVars
  BY <1>2 DEF Shared!desktopVars, Users, restVars, listVars, deskVars
<1> QED
  BY <1>5, <1>6, <1>7, <1>8, <1>9, <1>10 DEF IInv

\* Every other step of the service is one of the manager.
LEMMA ShutdownStep ==
  ASSUME [ShutdownNext]_allVars
  PROVE  KillZombiesEnter \/ KillZombiesLeave \/ [Next]_vars
BY DEF ShutdownNext, DeleteManager, ManagerRuns, Next, allVars, AllDone

\* The invariant of the manager holds while the server kills its zombies and
\* deletes it, beside clients that come and go.
THEOREM ShutdownInductive ==
  ShutdownSafety => [](TypeOK /\ IInv /\ ShutdownTypeOK)
<1> DEFINE All == TypeOK /\ IInv /\ ShutdownTypeOK
<1>1. ShutdownInit => All
  BY TypeInit, InvariantInit DEF ShutdownInit, ShutdownTypeOK
<1>2. All /\ [ShutdownNext]_allVars => All'
  <2> SUFFICES ASSUME TypeOK, IInv, ShutdownTypeOK, [ShutdownNext]_allVars
               PROVE  All'
    OBVIOUS
  <2>1. TypeOK' /\ IInv'
    <3>1. CASE KillZombiesEnter \/ KillZombiesLeave
      BY <3>1, KillZombiesStep
    <3>2. CASE [Next]_vars
      <4>1. TypeOK'
        BY <3>2, TypeStep
      <4> QED
        BY <3>2, <4>1, InvariantStep
    <3> QED BY <3>1, <3>2, ShutdownStep
  <2>2. ShutdownTypeOK'
    BY <2>1 DEF ShutdownTypeOK, ShutdownNext, KillZombiesEnter, KillZombiesLeave,
                DeleteManager, ManagerRuns, allVars
  <2> QED BY <2>1, <2>2
<1> QED
  BY <1>1, <1>2, PTL DEF ShutdownSafety

\* When ~TvnServer() has deleted the manager no client, no desktop thread and
\* no lock is left, although clients came and went all the time.
THEOREM ServiceLeavesNothing == ShutdownSafety => []NothingOutlivesTheManager
BY NothingLeft, ShutdownInductive, PTL

\* No callback reaches a handler that is gone, no desktop goes before its
\* users, and no client is lost, while the service ends.
THEOREM ServiceEndsSafely ==
  ShutdownSafety => [](CallsReachLivingHandlers /\ DesktopOutlivesItsUsers
                       /\ ExactlyOneOwner /\ NeverSharedIsExclusive)
<1>1. TypeOK /\ IInv => CallsReachLivingHandlers
  BY DEF TypeOK, IInv, CallInv, PlaceInv, ExactlyOneOwner, CallsReachLivingHandlers
<1>2. TypeOK /\ IInv => DesktopOutlivesItsUsers
  BY DEF TypeOK, IInv, DeskInv, DesktopOutlivesItsUsers
<1>3. IInv => ExactlyOneOwner /\ NeverSharedIsExclusive
  BY DEF IInv, PlaceInv
<1> QED
  BY <1>1, <1>2, <1>3, ShutdownInductive, PTL

\* Until its end the service does with the desktop what SharedDesktop promises.
THEOREM ServiceImplementsSharedDesktop == ShutdownSafety => SharesOneDesktop
<1>1. ShutdownInit => Shared!Init
  BY NoClientAssumption
  DEF NoClientAssumption, ShutdownInit, Init, Shared!Init, Users
<1>2. TypeOK /\ IInv /\ [ShutdownNext]_allVars
        => [Shared!Next]_(Shared!desktopVars)
  BY ShutdownStep, KillZombiesStep, SharedStep
<1> QED
  BY <1>1, <1>2, ShutdownInductive, PTL
  DEF ShutdownSafety, SharesOneDesktop, Shared!Spec
================================================================================
