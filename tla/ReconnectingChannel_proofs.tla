---------------------- MODULE ReconnectingChannel_proofs -----------------------
(***************************************************************************)
(* What holds of the reconnecting channel whatever the number of desktop   *)
(* server processes that come and go.  PointersAreAlive is not among it:   *)
(* m_oldChannel may dangle, and the invariant below is about what the code *)
(* keeps all the same: m_channel and the user's channel exist.             *)
(***************************************************************************)
EXTENDS ReconnectingChannel, TLAPS

USE MaxChannelsAssumption DEF MaxChannelsAssumption

\* The channel offered to the users exists; the old one is another; the one
\* not handed over yet is the newest and nobody has it.
PointersInv ==
  /\ m_channel \in alive \cup {0} /\ m_oldChannel \in 0..created
  /\ m_channel # 0 => m_oldChannel # m_channel
  /\ handed \in {0, created}
  /\ handed # 0 => handed # m_channel /\ handed # m_oldChannel

\* The user's channel exists, and is deleted by nobody: as long as it is
\* m_channel there is no old channel, so that replaceChannel() spares it.
UserInv ==
  upc = "use" /\ channel # 0 =>
    /\ channel \in alive /\ channel # handed
    /\ m_channel = channel => m_oldChannel = 0
    /\ m_channel = channel \/ m_chanWasChanged
    /\ channel = created => m_channel = channel

\* A process is started when the last one has ended.
OlderAreBroken == \A c \in alive : c # created => c \in broken

\* The first part of a message went to the channel that is used now, or to
\* the one offered next, or the user is about to be told.
StreamInv ==
  stream # 0 =>
    IF upc \in {"idle", "get"} THEN m_channel = stream \/ m_chanWasChanged
                               ELSE channel = stream

IInv == TypeOK /\ PointersInv /\ UserInv /\ OlderAreBroken /\ StreamInv
--------------------------------------------------------------------------------
LEMMA InitInv == Init => IInv
<1> SUFFICES ASSUME Init PROVE IInv
  OBVIOUS
<1>0. m_chanWasChanged \in BOOLEAN /\ m_isClosed \in BOOLEAN /\ m_timer \in BOOLEAN
  BY DEF Init
<1>1. TypeOK
  BY <1>0 DEF Init, TypeOK, Pointers
<1>2. PointersInv /\ UserInv /\ OlderAreBroken /\ StreamInv
  BY DEF Init, PointersInv, UserInv, OlderAreBroken, StreamInv
<1> QED BY <1>1, <1>2 DEF IInv

\* Each step keeps the invariant.
LEMMA StepInv == IInv /\ [Next]_vars => IInv'
<1> SUFFICES ASSUME IInv, [Next]_vars PROVE IInv'
  OBVIOUS
<1> USE DEF IInv, TypeOK, Pointers, pointers, userVars, serverVars, NotNull
<1>1. CASE NewChannel
  <2>1. created' \in Nat /\ created' = created + 1 /\ created' \in Pointers
    BY <1>1 DEF NewChannel
  <2>2. TypeOK'
    BY <1>1, <2>1 DEF NewChannel
  <2>3. PointersInv'
    BY <1>1, <2>1 DEF NewChannel, PointersInv
  <2>4. UserInv' /\ StreamInv'
    BY <1>1, <2>1 DEF NewChannel, UserInv, StreamInv
  <2>5. OlderAreBroken'
    BY <1>1, <2>1 DEF NewChannel, OlderAreBroken
  <2> QED BY <2>2, <2>3, <2>4, <2>5
<1>2. CASE InitFails
  BY <1>2 DEF InitFails, PointersInv, UserInv, OlderAreBroken, StreamInv
<1>3. CASE replaceChannel
  <2>1. alive' \subseteq alive /\ handed \in alive'
    BY <1>3 DEF replaceChannel, DeletedOnReplace, PointersInv
  <2>2. TypeOK'
    BY <1>3, <2>1 DEF replaceChannel, PointersInv
  <2>3. PointersInv'
    BY <1>3, <2>1 DEF replaceChannel, PointersInv
  <2>4. UserInv'
    BY <1>3, <2>1 DEF replaceChannel, DeletedOnReplace, PointersInv, UserInv
  <2>5. OlderAreBroken' /\ StreamInv'
    BY <1>3, <2>1 DEF replaceChannel, OlderAreBroken, StreamInv
  <2> QED BY <2>2, <2>3, <2>4, <2>5
<1>4. CASE ProcessEnds
  BY <1>4 DEF ProcessEnds, PointersInv, UserInv, OlderAreBroken, StreamInv
<1>5. CASE Call
  BY <1>5 DEF Call, PointersInv, UserInv, OlderAreBroken, StreamInv
<1>6. CASE getChannel
  <2>1. alive' \subseteq alive /\ m_channel \in alive' \cup {0} /\ handed \in alive' \cup {0}
    BY <1>6 DEF getChannel, PointersInv
  <2>0. m_chanWasChanged' \in BOOLEAN
    BY <1>6 DEF getChannel
  <2>2. TypeOK'
    BY <1>6, <2>0, <2>1 DEF getChannel, Abort
  <2>3. PointersInv' /\ OlderAreBroken'
    BY <1>6, <2>1 DEF getChannel, PointersInv, OlderAreBroken
  <2>4. UserInv' /\ StreamInv'
    BY <1>6, <2>1 DEF getChannel, Abort, PointersInv, UserInv, StreamInv
  <2> QED BY <2>2, <2>3, <2>4
<1>7. CASE Succeed
  BY <1>7 DEF Succeed, PointersInv, UserInv, OlderAreBroken, StreamInv
<1>8. CASE Fail
  BY <1>8 DEF Fail, PointersInv, UserInv, OlderAreBroken, StreamInv
<1>9. CASE LoopHead
  BY <1>9 DEF LoopHead, Abort, PointersInv, UserInv, OlderAreBroken, StreamInv
<1>10. CASE Woken
  BY <1>10 DEF Woken, PointersInv, UserInv, OlderAreBroken, StreamInv
<1>11. CASE TimeOut
  BY <1>11 DEF TimeOut, PointersInv, UserInv, OlderAreBroken, StreamInv
<1>12. CASE CheckReplaced
  <2>0. m_chanWasChanged' \in BOOLEAN
    BY <1>12 DEF CheckReplaced
  <2>1. TypeOK'
    BY <1>12, <2>0 DEF CheckReplaced, AfterReconnect, Abort
  <2>2. PointersInv' /\ OlderAreBroken'
    BY <1>12 DEF CheckReplaced, PointersInv, OlderAreBroken
  <2>3. UserInv' /\ StreamInv'
    BY <1>12 DEF CheckReplaced, AfterReconnect, Abort, UserInv, StreamInv
  <2> QED BY <2>1, <2>2, <2>3
<1>13. CASE close
  BY <1>13 DEF close, ToClose, TimerOnClose, PointersInv, UserInv,
     OlderAreBroken, StreamInv
<1>14. CASE UNCHANGED vars
  BY <1>14 DEF vars, PointersInv, UserInv, OlderAreBroken, StreamInv
<1> QED
  BY <1>1, <1>2, <1>3, <1>4, <1>5, <1>6, <1>7, <1>8, <1>9, <1>10, <1>11, <1>12,
     <1>13, <1>14 DEF Next, WatcherRuns, UserRuns

LEMMA Inductive == SafetySpec => []IInv
BY InitInv, StepInv, PTL DEF SafetySpec
--------------------------------------------------------------------------------
\* The variables have their types, and the pointer on its way to the service
\* is null or that of an existing channel.
THEOREM TypeCorrect == SafetySpec => []TypeOK
<1>1. IInv => TypeOK
  BY DEF IInv
<1> QED BY <1>1, Inductive, PTL

\* read() and write() never work on a deleted channel, although
\* replaceChannel() deletes one without asking its user.
THEOREM UserIsSafe == SafetySpec => []InUseIsAlive
<1>1. IInv => InUseIsAlive
  BY DEF IInv, UserInv, InUseIsAlive
<1> QED BY <1>1, Inductive, PTL

\* A message begun on one pipe is never continued on another.
THEOREM MessagesAreWhole == SafetySpec => []MessagesStayWhole
<1>1. IInv => MessagesStayWhole
  BY DEF IInv, StreamInv, MessagesStayWhole
<1> QED BY <1>1, Inductive, PTL

\* close() breaks the operation in progress, whichever channel it is on.
THEOREM CloseIsFelt == SafetySpec => CloseReachesTheUser
<1>1. IInv /\ [Next]_vars =>
        [m_isClosed' /\ ~m_isClosed /\ upc = "use" => channel \in broken' \cup {0}]_vars
  <2> SUFFICES ASSUME IInv, Next, m_isClosed', ~m_isClosed, upc = "use", channel # 0
               PROVE channel \in broken'
    BY DEF IInv, TypeOK
  <2>1. close
    BY DEF Next, WatcherRuns, UserRuns, NewChannel, InitFails, replaceChannel,
       ProcessEnds, Call, getChannel, Succeed, Fail, LoopHead, Woken, TimeOut,
       CheckReplaced
  <2>2. channel \in broken \/ channel = m_channel
    BY DEF IInv, UserInv, OlderAreBroken
  <2> QED BY <2>1, <2>2 DEF close, ToClose, NotNull
<1> QED BY <1>1, Inductive, PTL DEF SafetySpec, CloseReachesTheUser
================================================================================
