------------------------- MODULE ControlServer_proofs --------------------------
(***************************************************************************)
(* Theorems about ControlServer, for any sessions, passwords, configura-   *)
(* tions and bounds.  The ban of wrong passwords needs only what the       *)
(* sessions do with the authenticator; so the steps of the whole server    *)
(* are first reduced to those of ControlAuthenticator.                     *)
(***************************************************************************)
EXTENDS ControlServer, Integers, SequenceTheorems, TLAPS

\* authenticate() is called, with whatever passwords.
AuthCalled(c) ==
  /\ apc[c] = "out"
  /\ apc' = [apc EXCEPT ![c] = "lock"]
  /\ UNCHANGED <<now, trackerVars, m_authMutex, m_banDelay, m_isBreaked>>

\* A step of the authenticator.
AuthNext ==
  \/ Tick \/ Break \/ WakeBanned
  \/ \E c \in Callers : AuthStep(c) \/ Return(c) \/ AuthCalled(c)

\* What is known of the counters and of the threads inside.
TrackerInv ==
  /\ now \in Nat /\ now <= failureTimeInterval + MaxTime
  /\ m_firstFailureTime \in Nat /\ m_firstFailureTime <= now
  /\ m_failureCount \in Nat
  /\ apc \in [Callers -> AuthPC]
  /\ \A c \in Callers : apc[c] \in Inside => m_authMutex = c

\* The interval since the first failure is over.
WindowOver == now >= m_firstFailureTime + failureTimeInterval

\* A thread that is about to compare a password was let in, before the maximum
\* was reached or after the interval, unless the server is being destroyed.
VerifyInv ==
  \A c \in Callers : apc[c] = "verify" /\ ~m_isBreaked =>
    m_failureCount < failureMaxCount \/ WindowOver

BanInv == TrackerInv /\ BanHolds /\ VerifyInv

--------------------------------------------------------------------------------
\* A wait of no time means that the interval is over exactly now: the
\* difference is too small to be a whole multiple of the range.
LEMMA NoBanTime ==
  ASSUME NEW D \in Nat, NEW x \in Int, 0 < x, x < 2 * D, x % D = 0
  PROVE  x = D
<1>1. D > 0
  OBVIOUS
<1>2. x < D => x % D = x
  BY <1>1
<1>3. x > D => x % D = x - D
  BY <1>1
<1> QED
  BY <1>1, <1>2, <1>3

LEMMA NoBanMeansOver ==
  ASSUME TrackerInv, banTime = 0
  PROVE  m_failureCount < failureMaxCount \/ WindowOver
<1> SUFFICES ASSUME ~(m_failureCount < failureMaxCount) PROVE WindowOver
  OBVIOUS
<1> DEFINE x == failureTimeInterval + DwordRange - (now - m_firstFailureTime)
<1>1. x % DwordRange = 0
  BY DEF banTime
<1>2. x \in Int /\ 0 < x /\ x < 2 * DwordRange /\ DwordRange \in Nat
  BY AuthAssumption DEF AuthAssumption, TrackerInv
<1>3. x = DwordRange
  <2> HIDE DEF x
  <2> QED
    BY <1>1, <1>2, NoBanTime
<1> QED
  BY <1>3, AuthAssumption DEF AuthAssumption, TrackerInv, WindowOver

--------------------------------------------------------------------------------
(* The server reaches the authenticator by its operations only.            *)

LEMMA OnlyAuthSteps ==
  ASSUME [Next]_vars
  PROVE  [AuthNext]_authVars
<1>1. ASSUME NEW c \in Callers, PeerStep(c) PROVE [AuthNext]_authVars
  BY <1>1 DEF PeerStep, SendCommand, CommandOk, AuthNeeded, PeerContinues,
           AuthCancelled, SendAuth, SendResponse, AuthRejected, SendAgain,
           PeerLeaves
<1>2. ASSUME NEW c \in Callers, StartSession(c) \/ ReadHeader(c) \/ ReadFails(c) PROVE [AuthNext]_authVars
  BY <1>2 DEF StartSession, ReadHeader, ReadFails
<1>3. ASSUME NEW c \in Callers, Refuse(c) \/ Handle(c) \/ ReadBody(c) \/ ThreadEnds(c) PROVE [AuthNext]_authVars
  BY <1>3 DEF Refuse, Handle, ReadBody, ThreadEnds
<1>4. ASSUME NEW c \in Callers, ReadResponse(c) PROVE [AuthNext]_authVars
  BY <1>4 DEF ReadResponse, Authenticate, AuthCalled, AuthNext
<1>5. ASSUME NEW c \in Callers, AuthenticateStep(c) PROVE [AuthNext]_authVars
  BY <1>5 DEF AuthenticateStep, AuthNext
<1>6. ASSUME NEW c \in Callers, AuthReturns(c) PROVE [AuthNext]_authVars
  BY <1>6 DEF AuthReturns, AuthNext
<1>7. ASSUME NEW c \in Callers, Accept(c) \/ AddThread(c) \/ DeleteDead(c) PROVE [AuthNext]_authVars
  BY <1>7 DEF Accept, AddThread, DeleteDead
<1>8. ASSUME Terminate \/ WaitAcceptor \/ TerminateClients \/ WaitClients PROVE [AuthNext]_authVars
  BY <1>8 DEF Terminate, WaitAcceptor, TerminateClients, WaitClients
<1>9. ASSUME BreakAuthentications \/ WakeAuthentications PROVE [AuthNext]_authVars
  BY <1>9 DEF BreakAuthentications, WakeAuthentications, AuthNext
<1>10. ASSUME ClockTicks PROVE [AuthNext]_authVars
  BY <1>10 DEF ClockTicks, AuthNext
<1>11. ASSUME UNCHANGED vars PROVE [AuthNext]_authVars
  BY <1>11 DEF vars, authVars
<1> QED
  BY <1>1, <1>2, <1>3, <1>4, <1>5, <1>6, <1>7, <1>8, <1>9, <1>10, <1>11
  DEF Next, SessionStep, DestructorStep

--------------------------------------------------------------------------------
(* The steps of the authenticator keep the invariant.                      *)

LEMMA TrackerStep ==
  ASSUME TrackerInv, [AuthNext]_authVars
  PROVE  TrackerInv'
<1> USE AuthAssumption DEF AuthAssumption, TrackerInv, Inside, AuthPC
<1>1. ASSUME Tick \/ Break \/ WakeBanned PROVE TrackerInv'
  BY <1>1 DEF Tick, Break, WakeBanned, trackerVars, callVars
<1>2. ASSUME NEW c \in Callers, EnterAuthenticate(c) PROVE TrackerInv'
  BY <1>2 DEF EnterAuthenticate, CanEnter, trackerVars
<1>3. ASSUME NEW c \in Callers, Refresh(c) \/ ComputeBan(c) \/ BanEnds(c)
      PROVE  TrackerInv'
  BY <1>3 DEF Refresh, ComputeBan, BanEnds, trackerVars
<1>4. ASSUME NEW c \in Callers, Verify(c) PROVE TrackerInv'
  BY <1>4 DEF Verify, NotifyAbAuthFailed, trackerVars
<1>5. ASSUME NEW c \in Callers, Return(c) \/ AuthCalled(c) PROVE TrackerInv'
  BY <1>5 DEF Return, AuthCalled, trackerVars
<1>6. ASSUME UNCHANGED authVars PROVE TrackerInv'
  BY <1>6 DEF authVars, trackerVars, callVars
<1> QED
  BY <1>1, <1>2, <1>3, <1>4, <1>5, <1>6 DEF AuthNext, AuthStep

LEMMA BanStep ==
  ASSUME BanInv, [AuthNext]_authVars
  PROVE  BanHolds' /\ VerifyInv'
<1> USE AuthAssumption
    DEF AuthAssumption, BanInv, TrackerInv, VerifyInv, BanHolds, WindowOver,
        Inside
<1>1. ASSUME Tick \/ Break \/ WakeBanned PROVE BanHolds' /\ VerifyInv'
  BY <1>1 DEF Tick, Break, WakeBanned, trackerVars, callVars
<1>2. ASSUME NEW c \in Callers, EnterAuthenticate(c)
      PROVE  BanHolds' /\ VerifyInv'
  BY <1>2 DEF EnterAuthenticate, trackerVars
<1>3. ASSUME NEW c \in Callers, Refresh(c) PROVE BanHolds' /\ VerifyInv'
  BY <1>3 DEF Refresh
<1>4. ASSUME NEW c \in Callers, ComputeBan(c) PROVE BanHolds' /\ VerifyInv'
  <2>1. banTime = 0 => m_failureCount < failureMaxCount \/ WindowOver
    BY NoBanMeansOver
  <2>2. apc' = [apc EXCEPT ![c] = IF banTime = 0 THEN "verify" ELSE "banned"]
    BY <1>4 DEF ComputeBan
  <2>3. UNCHANGED <<now, m_firstFailureTime, m_failureCount, m_isBreaked>>
    BY <1>4 DEF ComputeBan, trackerVars
  <2> QED
    BY <2>1, <2>2, <2>3
<1>5. ASSUME NEW c \in Callers, BanEnds(c) PROVE BanHolds' /\ VerifyInv'
  BY <1>5 DEF BanEnds, trackerVars
<1>6. ASSUME NEW c \in Callers, Verify(c) PROVE BanHolds' /\ VerifyInv'
  <2>1. \A d \in Callers : apc'[d] # "verify"
    BY <1>6 DEF Verify, AuthPC
  <2>2. UNCHANGED <<now, m_isBreaked>>
    BY <1>6 DEF Verify
  <2>3. CASE UNCHANGED trackerVars
    BY <2>1, <2>2, <2>3 DEF trackerVars
  <2>4. CASE ~m_isBreaked /\ NotifyAbAuthFailed
    <3>1. m_failureCount < failureMaxCount \/ WindowOver
      BY <1>6, <2>4 DEF Verify
    <3> QED
      BY <2>1, <2>2, <2>4, <3>1 DEF NotifyAbAuthFailed
  <2> QED
    BY <1>6, <2>3, <2>4 DEF Verify
<1>7. ASSUME NEW c \in Callers, Return(c) \/ AuthCalled(c)
      PROVE  BanHolds' /\ VerifyInv'
  BY <1>7 DEF Return, AuthCalled, trackerVars
<1>8. ASSUME UNCHANGED authVars PROVE BanHolds' /\ VerifyInv'
  BY <1>8 DEF authVars, trackerVars, callVars
<1> QED
  BY <1>1, <1>2, <1>3, <1>4, <1>5, <1>6, <1>7, <1>8 DEF AuthNext, AuthStep

LEMMA InitBan == Init => BanInv
<1> SUFFICES ASSUME AuthInit PROVE BanInv
  BY DEF Init
<1>1. TrackerInv
  BY AuthAssumption DEF AuthAssumption, AuthInit, TrackerInv, Inside, AuthPC
<1>2. BanHolds
  BY AuthAssumption DEF AuthAssumption, AuthInit, BanHolds
<1>3. VerifyInv
  BY DEF AuthInit, VerifyInv
<1> QED
  BY <1>1, <1>2, <1>3 DEF BanInv

\* However many sessions try passwords at once, and whenever the clock goes on
\* between the statements of authenticate(): more than the maximum of wrong
\* passwords is counted only when the interval since the first is over.
THEOREM BanIsKept == Spec => []BanHolds
<1>1. BanInv /\ [Next]_vars => BanInv'
  BY OnlyAuthSteps, TrackerStep, BanStep DEF BanInv
<1>2. BanInv => BanHolds
  BY DEF BanInv
<1> QED
  BY InitBan, <1>1, <1>2, PTL DEF Spec
--------------------------------------------------------------------------------
(* The threads of the sessions and the collector that deletes them.        *)

\* A collected thread that does not count as active is over, whichever of
\* resume() and the end of the thread came first; nobody is left out of the
\* collector once connections are accepted no more.
SessionsInv ==
  /\ cpc \in [Callers -> ClientPC]
  /\ m_active \in [Callers -> BOOLEAN]
  /\ collected \subseteq {c \in Callers : cpc[c] # "unborn"}
  /\ \A c \in collected : ~m_active[c] => cpc[c] \in {"ended", "deleted"}
  /\ spc \notin {"running", "terminated"} =>
       \A c \in Callers : cpc[c] # "unborn" => c \in collected
  /\ spc = "destroyed" =>
       \A c \in Callers : cpc[c] \in {"unborn", "ended", "deleted"}

\* A thread is deleted only when it is over.
DeletesWhatIsOver ==
  \A c \in Callers : cpc'[c] = "deleted" => cpc[c] \in {"ended", "deleted"}

LEMMA SessionsStep ==
  ASSUME SessionsInv, [Next]_vars
  PROVE  SessionsInv' /\ DeletesWhatIsOver
<1> USE DEF SessionsInv, DeletesWhatIsOver, ClientPC
<1>1. ASSUME NEW c \in Callers, PeerStep(c) PROVE SessionsInv' /\ DeletesWhatIsOver
  BY <1>1 DEF PeerStep, SendCommand, CommandOk, AuthNeeded, PeerContinues,
           AuthCancelled, SendAuth, SendResponse, AuthRejected, SendAgain,
           PeerLeaves, sessionVars
<1>2. ASSUME NEW c \in Callers, ThreadEnds(c) PROVE SessionsInv' /\ DeletesWhatIsOver
  BY <1>2 DEF ThreadEnds, peerVars
\* The other steps of a running thread leave it running.
<1>3. ASSUME NEW c \in Callers,
             cpc[c] \notin {"unborn", "ended", "deleted"},
             NEW next \in ClientPC \ {"unborn", "ended", "deleted"},
             cpc' = [cpc EXCEPT ![c] = next],
             UNCHANGED <<m_active, collected, spc>>
      PROVE  SessionsInv' /\ DeletesWhatIsOver
  BY <1>3
<1>4. ASSUME NEW c \in Callers, StartSession(c) PROVE SessionsInv' /\ DeletesWhatIsOver
  BY <1>4, <1>3 DEF StartSession, OnlySession
<1>5. ASSUME NEW c \in Callers, ReadHeader(c) PROVE SessionsInv' /\ DeletesWhatIsOver
  BY <1>5, <1>3 DEF ReadHeader, OnlySession
<1>6. ASSUME NEW c \in Callers, ReadFails(c) PROVE SessionsInv' /\ DeletesWhatIsOver
  BY <1>6, <1>3 DEF ReadFails, OnlySession
<1>7. ASSUME NEW c \in Callers, Refuse(c) PROVE SessionsInv' /\ DeletesWhatIsOver
  BY <1>7, <1>3 DEF Refuse, WriteReply, OnlySession
<1>8. ASSUME NEW c \in Callers, Handle(c) PROVE SessionsInv' /\ DeletesWhatIsOver
  BY <1>8, <1>3 DEF Handle, WriteReply, OnlySession
<1>9. ASSUME NEW c \in Callers, ReadBody(c) PROVE SessionsInv' /\ DeletesWhatIsOver
  BY <1>9, <1>3 DEF ReadBody, OnlySession
<1>10. ASSUME NEW c \in Callers, ReadResponse(c) PROVE SessionsInv' /\ DeletesWhatIsOver
  BY <1>10, <1>3 DEF ReadResponse, OnlySession
<1>11. ASSUME NEW c \in Callers, AuthReturns(c) PROVE SessionsInv' /\ DeletesWhatIsOver
  BY <1>11, <1>3 DEF AuthReturns, WriteReply, OnlySession
<1>12. ASSUME NEW c \in Callers, AuthenticateStep(c) PROVE SessionsInv' /\ DeletesWhatIsOver
  BY <1>12 DEF AuthenticateStep, sessionVars
<1>13. ASSUME NEW c \in Callers, Accept(c) PROVE SessionsInv' /\ DeletesWhatIsOver
  BY <1>13 DEF Accept
<1>14. ASSUME NEW c \in Callers, AddThread(c) PROVE SessionsInv' /\ DeletesWhatIsOver
  BY <1>14 DEF AddThread
<1>15. ASSUME NEW c \in Callers, DeleteDead(c) PROVE SessionsInv' /\ DeletesWhatIsOver
  BY <1>15 DEF DeleteDead, Removable
<1>16. ASSUME Terminate \/ WaitAcceptor \/ TerminateClients PROVE SessionsInv' /\ DeletesWhatIsOver
  BY <1>16 DEF Terminate, WaitAcceptor, TerminateClients, sessionVars
<1>17. ASSUME BreakAuthentications \/ WakeAuthentications PROVE SessionsInv' /\ DeletesWhatIsOver
  BY <1>17 DEF BreakAuthentications, WakeAuthentications, sessionVars
<1>18. ASSUME WaitClients PROVE SessionsInv' /\ DeletesWhatIsOver
  BY <1>18 DEF WaitClients, Waited, Removable
<1>19. ASSUME ClockTicks \/ UNCHANGED vars PROVE SessionsInv' /\ DeletesWhatIsOver
  BY <1>19 DEF ClockTicks, vars, sessionVars
<1> QED
  BY <1>1, <1>2, <1>4, <1>5, <1>6, <1>7, <1>8, <1>9, <1>10, <1>11,
     <1>12, <1>13, <1>14, <1>15, <1>16, <1>17, <1>18, <1>19
  DEF Next, SessionStep, DestructorStep

\* No ControlClient is deleted while its thread runs, and none runs once the
\* server is destroyed, though the flag that the collector looks at is set by
\* resume() after the thread has started, and perhaps after it has ended.
THEOREM SessionsAreOver == Spec => SessionsEndFirst
<1>1. Init => SessionsInv
  BY DEF Init, SessionsInv, ClientPC
<1>2. SessionsInv /\ [Next]_vars => SessionsInv' /\ DeletesWhatIsOver
  BY SessionsStep
<1>3. SessionsInv => (spc = "destroyed" =>
         \A c \in Callers : cpc[c] \in {"unborn", "ended", "deleted"})
  BY DEF SessionsInv
<1> QED
  BY <1>1, <1>2, <1>3, PTL DEF Spec, SessionsEndFirst, DeletesWhatIsOver
--------------------------------------------------------------------------------
(* What is in the pipes.                                                   *)

\* Lists of the items of a message: all of it, and what follows its header.
Whole(s, m) ==
  \E b \in ControlConfigs :
    s = IF HasBody(m) THEN <<Header(m), Body(b)>> ELSE <<Header(m)>>

Rest(s, m) ==
  \E b \in ControlConfigs : s = IF HasBody(m) THEN <<Body(b)>> ELSE <<>>

\* A body that is still to be read, and the next message behind it.
BodyAndWhole(s, m) ==
  \E a, b \in ControlConfigs :
    s = IF HasBody(m) THEN <<Body(a), Header(m), Body(b)>>
                      ELSE <<Body(a), Header(m)>>

\* The peer is there, with these items on their way to it, or has left.
PeerAt(c, stage, items) ==
  \/ ppc[c] = stage /\ toClient[c] = items
  \/ ppc[c] = "gone" /\ toClient[c] = <<>>

InNeed(c) == command[c] \in Commands \cap REQUIRES_AUTH

\* Nobody has anything to do for the other.
Rests(c) ==
  /\ cpc[c] \in {"unborn", "start", "read"} /\ toServer[c] = <<>>
  /\ \/ PeerAt(c, "idle", <<>>)
     \/ PeerAt(c, "askPassword", <<>>) /\ InNeed(c)

\* The message is over, but the peer has to read how it ended.
Answered(c) ==
  /\ cpc[c] = "read" /\ toServer[c] = <<>>
  /\ \/ PeerAt(c, "waitReply", <<Reply("REPLY_OK")>>)
     \/ PeerAt(c, "waitReply", <<Reply("REPLY_AUTH_NEEDED")>>) /\ InNeed(c)
     \/ PeerAt(c, "waitResult", <<Reply("REPLY_OK")>>) /\ InNeed(c)
     \/ PeerAt(c, "waitResult", <<Reply("REPLY_ERROR")>>)

\* A message is on its way.
Sent(c) ==
  /\ cpc[c] \in {"start", "read"}
  /\ \/ /\ command[c] \in Commands /\ Whole(toServer[c], command[c])
        /\ PeerAt(c, "waitReply", <<>>)
     \/ /\ toServer[c] = <<Header("AUTH")>> /\ InNeed(c)
        /\ PeerAt(c, "waitChallenge", <<>>)

\* Its header has been read.
InHand(c) ==
  \/ /\ cpc[c] \in {"refuse", "handle"} /\ serving[c] = command[c]
     /\ command[c] \in Commands /\ Rest(toServer[c], command[c])
     /\ cpc[c] = "refuse" => InNeed(c)
     /\ PeerAt(c, "waitReply", <<>>)
  \/ /\ cpc[c] = "handle" /\ serving[c] = "AUTH"
     /\ toServer[c] = <<>> /\ InNeed(c)
     /\ PeerAt(c, "waitChallenge", <<>>)

\* It has been answered before its body was read; the peer may already have
\* sent the next one.
BodyLeft(c) ==
  /\ cpc[c] = "readBody" /\ HasBody(serving[c])
  /\ \/ /\ Rest(toServer[c], serving[c])
        /\ \/ PeerAt(c, "waitReply", <<Reply("REPLY_OK")>>)
           \/ PeerAt(c, "idle", <<>>)
     \/ /\ command[c] \in Commands /\ BodyAndWhole(toServer[c], command[c])
        /\ PeerAt(c, "waitReply", <<>>)

\* The authentication.
Challenged(c) ==
  /\ InNeed(c)
  /\ \/ /\ cpc[c] = "readResponse" /\ toServer[c] = <<>>
        /\ PeerAt(c, "waitChallenge", <<Reply("CHALLENGE")>>)
     \/ /\ cpc[c] = "readResponse"
        /\ \E p \in Passwords : toServer[c] = <<Response(p)>>
        /\ PeerAt(c, "waitResult", <<>>)
     \/ /\ cpc[c] = "auth" /\ toServer[c] = <<>>
        /\ PeerAt(c, "waitResult", <<>>)

Agree(c) ==
  /\ ppc[c] = "gone" => ~pipeOpen[c]
  /\ cpc[c] = "unborn" => ~pipeOpen[c] /\ ppc[c] = "idle"
  /\ \/ Rests(c) \/ Answered(c) \/ Sent(c) \/ InHand(c) \/ BodyLeft(c)
     \/ Challenged(c)
     \/ cpc[c] \in {"over", "ended", "deleted"}

\* The mark of an authentication stays until the command it was made for is
\* sent again and read.
Paid(c) ==
  m_repeatAuthPassed[c] =>
    \/ cpc[c] \in {"over", "ended", "deleted"}
    \/ /\ cpc[c] = "read" /\ toServer[c] = <<>>
       /\ PeerAt(c, "waitResult", <<Reply("REPLY_OK")>>)
    \/ /\ cpc[c] = "read" /\ Whole(toServer[c], command[c])
       /\ authDone[c] /\ InNeed(c)
       /\ PeerAt(c, "waitReply", <<>>)

OnCallers(f) == f = [c \in Callers |-> f[c]]

PipesInv ==
  /\ conf \in ControlConfigs
  /\ OnCallers(cpc) /\ OnCallers(serving) /\ OnCallers(m_repeatAuthPassed)
  /\ OnCallers(pipeOpen) /\ OnCallers(toServer) /\ OnCallers(toClient)
  /\ OnCallers(ppc) /\ OnCallers(command) /\ OnCallers(authDone)
  /\ \A c \in Callers : Agree(c)
  /\ AuthAlwaysEnabled => \A c \in Callers : Paid(c)


--------------------------------------------------------------------------------
(* Short lists.                                                            *)

LEMMA Pairs ==
  ASSUME NEW x, NEW y
  PROVE  <<x>> \o <<y>> = <<x, y>>
<1> DEFINE T == {x, y}
<1>1. <<x>> \in Seq(T) /\ <<y>> \in Seq(T) /\ <<x, y>> \in Seq(T)
  OBVIOUS
<1>2. Len(<<x>>) = 1 /\ Len(<<y>>) = 1 /\ Len(<<x, y>>) = 2
  OBVIOUS
<1>3. <<x>> \o <<y>> \in Seq(T) /\ Len(<<x>> \o <<y>>) = 2
      /\ \A i \in 1 .. 2 : (<<x>> \o <<y>>)[i] = <<x, y>>[i]
  BY <1>1, <1>2, ConcatProperties
<1> QED
  BY <1>1, <1>2, <1>3, SeqEqual

LEMMA Triples ==
  ASSUME NEW x, NEW y, NEW z
  PROVE  <<x, y>> \o <<z>> = <<x, y, z>>
<1> DEFINE T == {x, y, z}
<1>1. <<x, y>> \in Seq(T) /\ <<z>> \in Seq(T) /\ <<x, y, z>> \in Seq(T)
  OBVIOUS
<1>2. Len(<<x, y>>) = 2 /\ Len(<<z>>) = 1 /\ Len(<<x, y, z>>) = 3
  OBVIOUS
<1>3. <<x, y>> \o <<z>> \in Seq(T) /\ Len(<<x, y>> \o <<z>>) = 3
      /\ \A i \in 1 .. 3 : (<<x, y>> \o <<z>>)[i] = <<x, y, z>>[i]
  BY <1>1, <1>2, ConcatProperties
<1> QED
  BY <1>1, <1>2, <1>3, SeqEqual

\* What a read takes.
LEMMA Taken ==
  ASSUME NEW x, NEW y, NEW z
  PROVE  /\ <<x>> # <<>> /\ Head(<<x>>) = x /\ Tail(<<x>>) = <<>>
         /\ <<x, y>> # <<>> /\ Head(<<x, y>>) = x /\ Tail(<<x, y>>) = <<y>>
         /\ <<x, y, z>> # <<>> /\ Head(<<x, y, z>>) = x
         /\ Tail(<<x, y, z>>) = <<y, z>>
OBVIOUS

\* What a message leaves in a pipe that holds nothing, or one item.
LEMMA Written ==
  ASSUME NEW x, NEW y, NEW z
  PROVE  /\ Append(<<>>, x) = <<x>>
         /\ <<>> \o <<x>> \o <<>> = <<x>> /\ <<>> \o <<x>> \o <<y>> = <<x, y>>
         /\ <<z>> \o <<x>> \o <<>> = <<z, x>>
         /\ <<z>> \o <<x>> \o <<y>> = <<z, x, y>>
<1>1. /\ Append(<<>>, x) = <<x>> /\ <<>> \o <<x>> = <<x>>
      /\ <<x>> \o <<>> = <<x>> /\ <<z, x>> \o <<>> = <<z, x>>
  OBVIOUS
<1> QED
  BY <1>1, Pairs, Triples

LEMMA SentWhole ==
  ASSUME NEW c \in Callers, NEW m, OnCallers(toServer), SendData(c, m)
  PROVE  /\ OnCallers(toServer')
         /\ \A d \in Callers \ {c} : toServer'[d] = toServer[d]
         /\ toServer[c] = <<>> => Whole(toServer'[c], m)
         /\ \A a \in ControlConfigs :
              toServer[c] = <<Body(a)>> => BodyAndWhole(toServer'[c], m)
<1>1. PICK b \in ControlConfigs :
        toServer' = [toServer EXCEPT ![c] =
                       @ \o <<Header(m)>> \o (IF HasBody(m) THEN <<Body(b)>>
                                              ELSE <<>>)]
  BY DEF SendData
<1>2. /\ OnCallers(toServer')
      /\ \A d \in Callers \ {c} : toServer'[d] = toServer[d]
      /\ toServer'[c] = IF HasBody(m) THEN toServer[c] \o <<Header(m)>> \o <<Body(b)>>
                        ELSE toServer[c] \o <<Header(m)>> \o <<>>
  BY <1>1 DEF OnCallers
<1>3. ASSUME toServer[c] = <<>>
      PROVE  Whole(toServer'[c], m)
  <2>1. /\ <<>> \o <<Header(m)>> \o <<Body(b)>> = <<Header(m), Body(b)>>
        /\ <<>> \o <<Header(m)>> \o <<>> = <<Header(m)>>
    BY Written
  <2>2. toServer'[c] = IF HasBody(m) THEN <<Header(m), Body(b)>> ELSE <<Header(m)>>
    BY <1>2, <1>3, <2>1, Zenon
  <2> QED
    BY <2>2, Zenon DEF Whole
<1>4. ASSUME NEW a \in ControlConfigs, toServer[c] = <<Body(a)>>
      PROVE  BodyAndWhole(toServer'[c], m)
  <2>1. /\ <<Body(a)>> \o <<Header(m)>> \o <<Body(b)>>
              = <<Body(a), Header(m), Body(b)>>
        /\ <<Body(a)>> \o <<Header(m)>> \o <<>> = <<Body(a), Header(m)>>
    BY Written
  <2> QED
    BY <1>2, <1>4, <2>1 DEF BodyAndWhole
<1> QED
  BY <1>2, <1>3, <1>4

--------------------------------------------------------------------------------
(* The steps of one connection.                                            *)

OnAllCallers ==
  /\ OnCallers(cpc) /\ OnCallers(serving) /\ OnCallers(m_repeatAuthPassed)
  /\ OnCallers(pipeOpen) /\ OnCallers(toServer) /\ OnCallers(toClient)
  /\ OnCallers(ppc) /\ OnCallers(command) /\ OnCallers(authDone)

\* Nothing that the invariant says of a connection changes.
Same(c) ==
  /\ cpc'[c] = cpc[c] /\ serving'[c] = serving[c]
  /\ m_repeatAuthPassed'[c] = m_repeatAuthPassed[c]
  /\ pipeOpen'[c] = pipeOpen[c] /\ toServer'[c] = toServer[c]
  /\ toClient'[c] = toClient[c] /\ ppc'[c] = ppc[c]
  /\ command'[c] = command[c] /\ authDone'[c] = authDone[c]

LEMMA SameState ==
  ASSUME NEW c \in Callers, Agree(c), AuthAlwaysEnabled => Paid(c), Same(c)
  PROVE  Agree(c)' /\ (AuthAlwaysEnabled => Paid(c)')
<1>1. Agree(c)'
  BY DEF Same, Agree, Rests, Answered, Sent, InHand, BodyLeft, Challenged,
         PeerAt, InNeed, Whole, Rest, BodyAndWhole
<1>2. Paid(c) => Paid(c)'
  BY DEF Same, Paid, PeerAt, InNeed, Whole
<1> QED
  BY <1>1, <1>2

\* A step of one connection.
LEMMA OneState ==
  ASSUME PipesInv, NEW c \in Callers,
         conf' \in ControlConfigs, OnAllCallers',
         \A d \in Callers \ {c} : Same(d),
         Agree(c)', AuthAlwaysEnabled => Paid(c)'
  PROVE  PipesInv'
<1>1. ASSUME NEW d \in Callers PROVE Agree(d)' /\ (AuthAlwaysEnabled => Paid(d)')
  <2>1. CASE d = c
    BY <2>1
  <2>2. CASE d # c
    BY <2>2, SameState DEF PipesInv
  <2> QED
    BY <2>1, <2>2
<1> QED
  BY <1>1 DEF PipesInv, OnAllCallers, AuthAlwaysEnabled

LEMMA PipesSendCommand ==
  ASSUME PipesInv, NEW c \in Callers, SendCommand(c)
  PROVE  PipesInv'
<1>1. OnAllCallers /\ Agree(c) /\ (AuthAlwaysEnabled => Paid(c)) /\ conf \in ControlConfigs
  BY DEF PipesInv, OnAllCallers
<1>2. PICK m \in Commands : command' = [command EXCEPT ![c] = m] /\ SendData(c, m)
  BY DEF SendCommand
<1>3. UNCHANGED <<conf, cpc, serving, m_repeatAuthPassed, pipeOpen, toClient, authDone>>
        /\ ppc' = [ppc EXCEPT ![c] = "waitReply"] /\ ppc[c] = "idle" /\ pipeOpen[c]
  BY DEF SendCommand, sessionVars
<1>4. /\ OnCallers(toServer')
      /\ \A d \in Callers \ {c} : toServer'[d] = toServer[d]
      /\ toServer[c] = <<>> => Whole(toServer'[c], m)
      /\ \A a \in ControlConfigs :
              toServer[c] = <<Body(a)>> => BodyAndWhole(toServer'[c], m)
  BY <1>1, <1>2, SentWhole DEF OnAllCallers
<1>5. OnAllCallers' /\ (\A d \in Callers \ {c} : Same(d))
      /\ ppc'[c] = "waitReply" /\ command'[c] = m
  BY <1>1, <1>2, <1>3, <1>4 DEF OnAllCallers, OnCallers, Same
<1>6. Agree(c)'
  <2>1. CASE Rests(c)
    <3>1. Sent(c)'
      BY <1>3, <1>4, <1>5, <1>1, <2>1 DEF Rests, PeerAt, Agree, Sent
    <3> QED
      BY <1>3, <1>5, <3>1 DEF Agree, Sent
  <2>2. CASE BodyLeft(c)
    <3>1. PICK a \in ControlConfigs : toServer[c] = <<Body(a)>>
      BY <1>3, <2>2 DEF BodyLeft, PeerAt, Rest
    <3>2. BodyLeft(c)'
      BY <1>3, <1>4, <1>5, <2>2, <3>1 DEF BodyLeft, PeerAt
    <3> QED
      BY <1>3, <1>5, <3>2 DEF Agree, BodyLeft
  <2>3. CASE cpc[c] \in {"over", "ended", "deleted"}
    BY <1>3, <1>5, <2>3 DEF Agree
  <2> QED
    BY <1>1, <1>3, <2>1, <2>2, <2>3 DEF Agree, Answered, Sent, InHand, Challenged, PeerAt
<1>7. Paid(c) => Paid(c)'
    BY <1>1, <1>3, <1>5 DEF Paid, PeerAt, InNeed, Agree
<1> QED
  BY <1>1, <1>3, <1>5, <1>6, <1>7, OneState

\* The peer reads a reply and goes on.
LEMMA PeerContinued ==
  ASSUME PipesInv, NEW c \in Callers, NEW from, NEW reply, NEW to,
         PeerContinues(c, from, reply, to)
  PROVE  /\ conf' \in ControlConfigs /\ OnAllCallers'
         /\ \A d \in Callers \ {c} : Same(d)
         /\ ppc[c] = from /\ ppc'[c] = to
         /\ toClient[c] # <<>> /\ Head(toClient[c]) = Reply(reply)
         /\ toClient'[c] = Tail(toClient[c])
         /\ command'[c] = IF to = "idle" THEN None ELSE command[c]
         /\ UNCHANGED <<cpc, serving, m_repeatAuthPassed, pipeOpen, toServer>>
<1>1. OnAllCallers /\ conf \in ControlConfigs
  BY DEF PipesInv, OnAllCallers
<1> QED
  BY <1>1 DEF PeerContinues, PeerReads, OnAllCallers, OnCallers, Same,
              sessionVars

LEMMA PipesCommandOk ==
  ASSUME PipesInv, NEW c \in Callers, CommandOk(c)
  PROVE  PipesInv'
<1>1. Agree(c) /\ (AuthAlwaysEnabled => Paid(c))
  BY DEF PipesInv
<1>2. /\ conf' \in ControlConfigs /\ OnAllCallers'
      /\ \A d \in Callers \ {c} : Same(d)
      /\ ppc[c] = "waitReply" /\ ppc'[c] = "idle"
      /\ toClient[c] # <<>> /\ Head(toClient[c]) = Reply("REPLY_OK")
      /\ toClient'[c] = Tail(toClient[c])
      /\ UNCHANGED <<cpc, serving, m_repeatAuthPassed, pipeOpen, toServer>>
  BY PeerContinued DEF CommandOk
<1>3. Agree(c)'
  <2>1. CASE toClient[c] = <<Reply("REPLY_OK")>>
    <3>1. toClient'[c] = <<>>
      BY <1>2, <2>1
    <3> QED
      BY <1>1, <1>2, <2>1, <3>1
      DEF Agree, Rests, Answered, Sent, InHand, BodyLeft, Challenged, PeerAt,
          Rest
  <2>2. CASE toClient[c] # <<Reply("REPLY_OK")>>
    <3>1. toClient[c] # <<Reply("REPLY_AUTH_NEEDED")>>
      BY <1>2 DEF Reply
    <3> QED
      BY <1>1, <1>2, <2>2, <3>1
      DEF Agree, Rests, Answered, Sent, InHand, BodyLeft, Challenged, PeerAt
  <2> QED
    BY <2>1, <2>2
<1>4. Paid(c) => Paid(c)'
  BY <1>2 DEF Paid, PeerAt
<1> QED
  BY <1>1, <1>2, <1>3, <1>4, OneState

LEMMA PipesAuthNeeded ==
  ASSUME PipesInv, NEW c \in Callers, AuthNeeded(c)
  PROVE  PipesInv'
<1>1. Agree(c) /\ (AuthAlwaysEnabled => Paid(c))
  BY DEF PipesInv
<1>2. /\ conf' \in ControlConfigs /\ OnAllCallers'
      /\ \A d \in Callers \ {c} : Same(d)
      /\ ppc[c] = "waitReply" /\ ppc'[c] = "askPassword"
      /\ toClient[c] # <<>> /\ Head(toClient[c]) = Reply("REPLY_AUTH_NEEDED")
      /\ toClient'[c] = Tail(toClient[c]) /\ command'[c] = command[c]
      /\ UNCHANGED <<cpc, serving, m_repeatAuthPassed, pipeOpen, toServer>>
  BY PeerContinued DEF AuthNeeded
<1>3. Agree(c)'
  <2>1. CASE toClient[c] = <<Reply("REPLY_AUTH_NEEDED")>>
    <3>1. toClient'[c] = <<>>
      BY <1>2, <2>1
    <3>2. toClient[c] # <<Reply("REPLY_OK")>>
      BY <1>2 DEF Reply
    <3> QED
      BY <1>1, <1>2, <2>1, <3>1, <3>2
      DEF Agree, Rests, Answered, Sent, InHand, BodyLeft, Challenged, PeerAt,
          InNeed
  <2>2. CASE toClient[c] # <<Reply("REPLY_AUTH_NEEDED")>>
    <3>1. toClient[c] # <<Reply("REPLY_OK")>>
      BY <1>2 DEF Reply
    <3> QED
      BY <1>1, <1>2, <2>2, <3>1
      DEF Agree, Rests, Answered, Sent, InHand, BodyLeft, Challenged, PeerAt
  <2> QED
    BY <2>1, <2>2
<1>4. Paid(c) => Paid(c)'
  BY <1>2 DEF Paid, PeerAt
<1> QED
  BY <1>1, <1>2, <1>3, <1>4, OneState

LEMMA PipesAuthRejected ==
  ASSUME PipesInv, NEW c \in Callers, AuthRejected(c)
  PROVE  PipesInv'
<1>1. Agree(c) /\ (AuthAlwaysEnabled => Paid(c))
  BY DEF PipesInv
<1>2. /\ conf' \in ControlConfigs /\ OnAllCallers'
      /\ \A d \in Callers \ {c} : Same(d)
      /\ ppc[c] = "waitResult" /\ ppc'[c] = "idle"
      /\ toClient[c] # <<>> /\ Head(toClient[c]) = Reply("REPLY_ERROR")
      /\ toClient'[c] = Tail(toClient[c])
      /\ UNCHANGED <<cpc, serving, m_repeatAuthPassed, pipeOpen, toServer>>
  BY PeerContinued DEF AuthRejected
<1>3. toClient[c] # <<Reply("REPLY_OK")>>
  BY <1>2 DEF Reply
<1>4. Agree(c)'
  <2>1. CASE toClient[c] = <<Reply("REPLY_ERROR")>>
    <3>1. toClient'[c] = <<>>
      BY <1>2, <2>1
    <3> QED
      BY <1>1, <1>2, <1>3, <2>1, <3>1
      DEF Agree, Rests, Answered, Sent, InHand, BodyLeft, Challenged, PeerAt
  <2>2. CASE toClient[c] # <<Reply("REPLY_ERROR")>>
    BY <1>1, <1>2, <1>3, <2>2
    DEF Agree, Rests, Answered, Sent, InHand, BodyLeft, Challenged, PeerAt
  <2> QED
    BY <2>1, <2>2
<1>5. Paid(c) => Paid(c)'
  BY <1>2, <1>3 DEF Paid, PeerAt
<1> QED
  BY <1>1, <1>2, <1>4, <1>5, OneState

LEMMA PipesAuthCancelled ==
  ASSUME PipesInv, NEW c \in Callers, AuthCancelled(c)
  PROVE  PipesInv'
<1>1. /\ OnAllCallers /\ conf \in ControlConfigs
      /\ Agree(c) /\ (AuthAlwaysEnabled => Paid(c))
  BY DEF PipesInv, OnAllCallers
<1>2. /\ conf' \in ControlConfigs /\ OnAllCallers'
      /\ \A d \in Callers \ {c} : Same(d)
      /\ ppc[c] = "askPassword" /\ ppc'[c] = "idle"
      /\ UNCHANGED <<cpc, serving, m_repeatAuthPassed, pipeOpen, toServer,
                     toClient>>
  BY <1>1 DEF AuthCancelled, OnAllCallers, OnCallers, Same, sessionVars,
              pipeVars
<1>3. Agree(c)'
  BY <1>1, <1>2
  DEF Agree, Rests, Answered, Sent, InHand, BodyLeft, Challenged, PeerAt
<1>4. Paid(c) => Paid(c)'
  BY <1>2 DEF Paid, PeerAt
<1> QED
  BY <1>1, <1>2, <1>3, <1>4, OneState

LEMMA PipesSendAuth ==
  ASSUME PipesInv, NEW c \in Callers, SendAuth(c)
  PROVE  PipesInv'
<1>1. /\ OnAllCallers /\ conf \in ControlConfigs
      /\ Agree(c) /\ (AuthAlwaysEnabled => Paid(c))
  BY DEF PipesInv, OnAllCallers
<1>2. /\ conf' \in ControlConfigs /\ OnAllCallers'
      /\ \A d \in Callers \ {c} : Same(d)
      /\ ppc[c] = "askPassword" /\ ppc'[c] = "waitChallenge"
      /\ toServer'[c] = Append(toServer[c], Header("AUTH"))
      /\ UNCHANGED <<cpc, serving, m_repeatAuthPassed, pipeOpen, toClient,
                     command>>
  BY <1>1 DEF SendAuth, OnAllCallers, OnCallers, Same, sessionVars
<1>3. Agree(c)'
  <2>1. CASE Rests(c)
    <3>1. toServer'[c] = <<Header("AUTH")>>
      BY <1>2, <2>1, Written DEF Rests
    <3>2. cpc[c] # "unborn"
      BY <1>1, <1>2 DEF Agree
    <3> QED
      BY <1>1, <1>2, <2>1, <3>1, <3>2 DEF Agree, Rests, Sent, PeerAt, InNeed
  <2> QED
    BY <1>1, <1>2, <2>1
    DEF Agree, Answered, Sent, InHand, BodyLeft, Challenged, PeerAt
<1>4. Paid(c) => Paid(c)'
  BY <1>2 DEF Paid, PeerAt
<1> QED
  BY <1>1, <1>2, <1>3, <1>4, OneState

LEMMA PipesSendResponse ==
  ASSUME PipesInv, NEW c \in Callers, SendResponse(c)
  PROVE  PipesInv'
<1>1. /\ OnAllCallers /\ conf \in ControlConfigs
      /\ Agree(c) /\ (AuthAlwaysEnabled => Paid(c))
  BY DEF PipesInv, OnAllCallers
<1>2. PICK p \in Passwords :
        toServer' = [toServer EXCEPT ![c] = Append(@, Response(p))]
  BY DEF SendResponse
<1>3. /\ conf' \in ControlConfigs /\ OnAllCallers'
      /\ \A d \in Callers \ {c} : Same(d)
      /\ ppc[c] = "waitChallenge" /\ ppc'[c] = "waitResult"
      /\ toClient[c] # <<>> /\ toClient'[c] = Tail(toClient[c])
      /\ toServer'[c] = Append(toServer[c], Response(p))
      /\ UNCHANGED <<cpc, serving, m_repeatAuthPassed, pipeOpen, command>>
  BY <1>1, <1>2 DEF SendResponse, PeerReads, OnAllCallers, OnCallers, Same,
                    sessionVars
<1>4. Agree(c)'
  <2>1. CASE Challenged(c)
    <3>1. /\ cpc[c] = "readResponse" /\ toServer[c] = <<>> /\ InNeed(c)
          /\ toClient[c] = <<Reply("CHALLENGE")>>
      BY <1>3, <2>1 DEF Challenged, PeerAt
    <3>2. toServer'[c] = <<Response(p)>> /\ toClient'[c] = <<>>
      BY <1>3, <3>1, Written
    <3> QED
      BY <1>1, <1>3, <3>1, <3>2 DEF Agree, Challenged, PeerAt, InNeed
  <2> QED
    BY <1>1, <1>3, <2>1
    DEF Agree, Rests, Answered, Sent, InHand, BodyLeft, PeerAt
<1>5. Paid(c) => Paid(c)'
  BY <1>3 DEF Paid, PeerAt
<1> QED
  BY <1>1, <1>3, <1>4, <1>5, OneState

LEMMA PipesSendAgain ==
  ASSUME PipesInv, NEW c \in Callers, SendAgain(c)
  PROVE  PipesInv'
<1>1. /\ OnAllCallers /\ conf \in ControlConfigs
      /\ Agree(c) /\ (AuthAlwaysEnabled => Paid(c))
  BY DEF PipesInv, OnAllCallers
<1>2. /\ OnCallers(toServer')
      /\ \A d \in Callers \ {c} : toServer'[d] = toServer[d]
      /\ toServer[c] = <<>> => Whole(toServer'[c], command[c])
  BY <1>1, SentWhole DEF SendAgain, OnAllCallers
<1>3. /\ conf' \in ControlConfigs /\ OnAllCallers'
      /\ \A d \in Callers \ {c} : Same(d)
      /\ ppc[c] = "waitResult" /\ ppc'[c] = "waitReply"
      /\ toClient[c] # <<>> /\ Head(toClient[c]) = Reply("REPLY_OK")
      /\ toClient'[c] = Tail(toClient[c]) /\ authDone'[c] = TRUE
      /\ UNCHANGED <<cpc, serving, m_repeatAuthPassed, pipeOpen, command>>
  BY <1>1, <1>2 DEF SendAgain, PeerReads, OnAllCallers, OnCallers, Same,
                    sessionVars
<1>4. toClient[c] # <<Reply("REPLY_ERROR")>>
  BY <1>3 DEF Reply
<1>5. Agree(c) /\ cpc[c] \notin {"over", "ended", "deleted"} =>
         /\ cpc[c] = "read" /\ toServer[c] = <<>> /\ InNeed(c)
         /\ toClient[c] = <<Reply("REPLY_OK")>>
  BY <1>3, <1>4
  DEF Agree, Rests, Answered, Sent, InHand, BodyLeft, Challenged, PeerAt
<1>6. CASE cpc[c] \in {"over", "ended", "deleted"}
  <2>1. Agree(c)' /\ Paid(c)'
    BY <1>1, <1>3, <1>6 DEF Agree, Paid
  <2> QED
    BY <1>1, <1>3, <2>1, OneState
<1>7. CASE cpc[c] \notin {"over", "ended", "deleted"}
  <2>1. toClient'[c] = <<>> /\ Whole(toServer'[c], command[c])
    <3>1. toServer[c] = <<>> /\ toClient[c] = <<Reply("REPLY_OK")>>
      BY <1>1, <1>5, <1>7
    <3> QED
      BY <1>2, <1>3, <3>1
  <2>2. InNeed(c)' /\ Sent(c)'
    BY <1>1, <1>3, <1>5, <1>7, <2>1 DEF Sent, InNeed, PeerAt
  <2>3. Paid(c)'
    BY <1>1, <1>3, <1>5, <1>7, <2>1, <2>2 DEF Paid, PeerAt
  <2>4. Agree(c)'
    BY <1>1, <1>3, <1>5, <1>7, <2>1, <2>2 DEF Agree, Sent
  <2> QED
    BY <1>1, <1>3, <2>3, <2>4, OneState
<1> QED
  BY <1>6, <1>7

LEMMA PipesPeerLeaves ==
  ASSUME PipesInv, NEW c \in Callers, PeerLeaves(c)
  PROVE  PipesInv'
<1>1. /\ OnAllCallers /\ conf \in ControlConfigs
      /\ Agree(c) /\ (AuthAlwaysEnabled => Paid(c))
  BY DEF PipesInv, OnAllCallers
<1>2. /\ conf' \in ControlConfigs /\ OnAllCallers'
      /\ \A d \in Callers \ {c} : Same(d)
      /\ ppc'[c] = "gone" /\ toClient'[c] = <<>> /\ pipeOpen'[c] = FALSE
      /\ cpc[c] # "unborn"
      /\ UNCHANGED <<cpc, serving, m_repeatAuthPassed, toServer, command,
                     authDone>>
  BY <1>1 DEF PeerLeaves, OnAllCallers, OnCallers, Same, sessionVars
<1>3. Agree(c)'
  BY <1>1, <1>2
  DEF Agree, Rests, Answered, Sent, InHand, BodyLeft, Challenged, PeerAt,
      InNeed, Whole, Rest, BodyAndWhole
<1>4. Paid(c) => Paid(c)'
  BY <1>2 DEF Paid, PeerAt, InNeed, Whole
<1> QED
  BY <1>1, <1>2, <1>3, <1>4, OneState

--------------------------------------------------------------------------------
(* The steps of a session.                                                 *)

\* A reply reaches a peer that is there; without a pipe the session is over.
LEMMA ReplyWritten ==
  ASSUME PipesInv, NEW c \in Callers, NEW r, NEW next, WriteReply(c, r, next)
  PROVE  /\ OnCallers(toClient') /\ OnCallers(cpc') /\ UNCHANGED pipeOpen
         /\ \A d \in Callers \ {c} :
              toClient'[d] = toClient[d] /\ cpc'[d] = cpc[d]
         /\ ~pipeOpen[c] => cpc'[c] = "over"
         /\ pipeOpen[c] =>
              /\ cpc'[c] = next /\ ppc[c] # "gone"
              /\ toClient[c] = <<>> => toClient'[c] = <<Reply(r)>>
<1>1. OnAllCallers /\ Agree(c)
  BY DEF PipesInv, OnAllCallers
<1>2. Append(<<>>, Reply(r)) = <<Reply(r)>>
  BY Written
<1> QED
  BY <1>1, <1>2 DEF WriteReply, OnAllCallers, OnCallers, Agree

LEMMA PipesStartSession ==
  ASSUME PipesInv, NEW c \in Callers, StartSession(c)
  PROVE  PipesInv'
<1>1. /\ OnAllCallers /\ conf \in ControlConfigs
      /\ Agree(c) /\ (AuthAlwaysEnabled => Paid(c))
  BY DEF PipesInv, OnAllCallers
<1>2. /\ conf' \in ControlConfigs /\ OnAllCallers'
      /\ \A d \in Callers \ {c} : Same(d)
      /\ cpc[c] = "start" /\ cpc'[c] = "read"
      /\ UNCHANGED <<ppc, serving, m_repeatAuthPassed, pipeOpen, toServer,
                     toClient, command>>
  BY <1>1 DEF StartSession, OnlySession, OnAllCallers, OnCallers, Same,
              peerVars, pipeVars
<1>3. Agree(c)'
  BY <1>1, <1>2
  DEF Agree, Rests, Answered, Sent, InHand, BodyLeft, Challenged, PeerAt,
      InNeed, Whole
<1>4. Paid(c) => Paid(c)'
  BY <1>2 DEF Paid
<1> QED
  BY <1>1, <1>2, <1>3, <1>4, OneState

\* What a header is when the session reads one.
LEMMA HeaderRead ==
  ASSUME PipesInv, NEW c \in Callers, ReadHeader(c)
  PROVE  /\ Sent(c)
         /\ \/ /\ command[c] \in Commands /\ Whole(toServer[c], command[c])
               /\ Head(toServer[c]).id = command[c]
               /\ Rest(Tail(toServer[c]), command[c])
            \/ /\ toServer[c] = <<Header("AUTH")>>
               /\ Head(toServer[c]).id = "AUTH" /\ Tail(toServer[c]) = <<>>
               /\ InNeed(c) /\ ~Whole(toServer[c], command[c])
<1>1. Agree(c) /\ cpc[c] = "read" /\ toServer[c] # <<>>
  BY DEF ReadHeader, NextItem, PipesInv
<1>2. Sent(c)
  BY <1>1
  DEF Agree, Rests, Answered, InHand, BodyLeft, Challenged
<1>3. ASSUME Whole(toServer[c], command[c])
      PROVE  /\ Head(toServer[c]).id = command[c]
             /\ Rest(Tail(toServer[c]), command[c])
  <2>1. PICK b \in ControlConfigs :
          toServer[c] = IF HasBody(command[c])
                        THEN <<Header(command[c]), Body(b)>>
                        ELSE <<Header(command[c])>>
    BY <1>3 DEF Whole
  <2>2. /\ Head(toServer[c]) = Header(command[c])
        /\ Tail(toServer[c]) = IF HasBody(command[c]) THEN <<Body(b)>> ELSE <<>>
    BY <2>1
  <2> QED
    BY <2>2 DEF Header, Rest
<1>4. ASSUME toServer[c] = <<Header("AUTH")>>, InNeed(c)
      PROVE  /\ Head(toServer[c]).id = "AUTH" /\ Tail(toServer[c]) = <<>>
             /\ ~Whole(toServer[c], command[c])
  <2>1. Head(toServer[c]) = Header("AUTH") /\ Tail(toServer[c]) = <<>>
    BY <1>4
  <2>2. Head(toServer[c]).id = "AUTH"
    BY <2>1 DEF Header
  <2>3. command[c] # "AUTH"
    BY <1>4 DEF InNeed, REQUIRES_AUTH
  <2> QED
    BY <1>3, <2>1, <2>2, <2>3
<1> QED
  BY <1>2, <1>3, <1>4 DEF Sent

LEMMA PipesReadHeader ==
  ASSUME PipesInv, NEW c \in Callers, ReadHeader(c)
  PROVE  PipesInv'
<1> DEFINE m == Head(toServer[c]).id
<1>1. /\ OnAllCallers /\ conf \in ControlConfigs
      /\ Agree(c) /\ (AuthAlwaysEnabled => Paid(c))
  BY DEF PipesInv, OnAllCallers
<1>2. /\ conf' \in ControlConfigs /\ OnAllCallers'
      /\ \A d \in Callers \ {c} : Same(d)
      /\ cpc[c] = "read"
      /\ cpc'[c] = IF RequiresAuth(m) /\ ~AuthPassed(c, m)
                   THEN "refuse" ELSE "handle"
      /\ serving'[c] = m /\ toServer'[c] = Tail(toServer[c])
      /\ m_repeatAuthPassed'[c] = RepeatAuthAfter(c, m)
      /\ UNCHANGED <<ppc, pipeOpen, toClient, command>>
  BY <1>1 DEF ReadHeader, TakeItem, OnlySession, OnAllCallers, OnCallers,
              Same, peerVars
<1>3. Sent(c)
      /\ \/ /\ command[c] \in Commands /\ Whole(toServer[c], command[c])
            /\ m = command[c] /\ Rest(Tail(toServer[c]), command[c])
         \/ /\ toServer[c] = <<Header("AUTH")>>
            /\ m = "AUTH" /\ Tail(toServer[c]) = <<>>
            /\ InNeed(c) /\ ~Whole(toServer[c], command[c])
  BY HeaderRead
<1> HIDE DEF m
<1>4. command[c] # "AUTH" \/ ~(command[c] \in Commands)
  BY ControlServerAssumption DEF ControlServerAssumption
<1>5. CASE m = "AUTH"
  <2>1. /\ toServer[c] = <<Header("AUTH")>> /\ Tail(toServer[c]) = <<>>
        /\ InNeed(c) /\ ~Whole(toServer[c], command[c])
    BY <1>3, <1>4, <1>5
  <2>2. cpc'[c] = "handle"
    BY <1>2, <1>5 DEF RequiresAuth, REQUIRES_AUTH
  <2>3. PeerAt(c, "waitChallenge", <<>>)
    <3>1. Whole(toServer[c], command[c]) \/ PeerAt(c, "waitChallenge", <<>>)
      BY <1>3 DEF Sent
    <3> QED
      BY <2>1, <3>1
  <2>4. Agree(c)'
    BY <1>1, <1>2, <1>5, <2>1, <2>2, <2>3 DEF Agree, InHand, PeerAt, InNeed
  <2>5. Paid(c) => Paid(c)'
    <3> SUFFICES ASSUME Paid(c), m_repeatAuthPassed'[c] PROVE FALSE
      BY DEF Paid
    <3>1. m_repeatAuthPassed[c]
      BY <1>2 DEF RepeatAuthAfter
    <3>2. toServer[c] # <<>>
      BY <2>1
    <3> QED
      BY <1>2, <2>1, <3>1, <3>2 DEF Paid
  <2> QED
    BY <1>1, <1>2, <2>4, <2>5, OneState
<1>6. CASE m # "AUTH"
  <2>1. /\ command[c] \in Commands /\ m = command[c]
        /\ Rest(Tail(toServer[c]), command[c])
    BY <1>3, <1>6
  <2>2. PeerAt(c, "waitReply", <<>>)
    <3>1. toServer[c] # <<Header("AUTH")>>
      BY <1>6 DEF m, Header
    <3> QED
      BY <1>3, <3>1 DEF Sent
  <2>3. cpc'[c] \in {"refuse", "handle"}
        /\ (cpc'[c] = "refuse" => m \in REQUIRES_AUTH)
    BY <1>2 DEF RequiresAuth
  <2>4. Agree(c)'
    BY <1>1, <1>2, <2>1, <2>2, <2>3
    DEF Agree, InHand, PeerAt, InNeed, Rest
  <2>5. AuthAlwaysEnabled => Paid(c)'
    <3> SUFFICES ASSUME AuthAlwaysEnabled, m_repeatAuthPassed'[c] PROVE FALSE
      BY DEF Paid
    <3>1. m_repeatAuthPassed[c] /\ ~RequiresAuth(m)
      BY <1>2 DEF RepeatAuthAfter
    <3>2. m \notin REQUIRES_AUTH
      BY <1>1, <3>1 DEF RequiresAuth, AuthAlwaysEnabled
    <3>3. ~InNeed(c) /\ toServer[c] # <<>>
      BY <2>1, <3>2 DEF InNeed, ReadHeader, NextItem
    <3> QED
      BY <1>1, <1>2, <3>1, <3>3 DEF Paid
  <2> QED
    BY <1>1, <1>2, <2>4, <2>5, OneState
<1> QED
  BY <1>5, <1>6

LEMMA PipesRefuse ==
  ASSUME PipesInv, NEW c \in Callers, Refuse(c)
  PROVE  PipesInv'
<1>1. /\ OnAllCallers /\ conf \in ControlConfigs
      /\ Agree(c) /\ (AuthAlwaysEnabled => Paid(c))
  BY DEF PipesInv, OnAllCallers
<1>2. /\ OnCallers(toClient') /\ OnCallers(cpc') /\ UNCHANGED pipeOpen
      /\ \A d \in Callers \ {c} :
           toClient'[d] = toClient[d] /\ cpc'[d] = cpc[d]
      /\ ~pipeOpen[c] => cpc'[c] = "over"
      /\ pipeOpen[c] =>
           /\ cpc'[c] = "read" /\ ppc[c] # "gone"
           /\ toClient[c] = <<>> =>
                toClient'[c] = <<Reply("REPLY_AUTH_NEEDED")>>
  BY ReplyWritten DEF Refuse
<1>3. /\ cpc[c] = "refuse" /\ serving[c] = command[c] /\ InNeed(c)
      /\ Rest(toServer[c], command[c]) /\ PeerAt(c, "waitReply", <<>>)
  BY <1>1
  DEF Refuse, Agree, Rests, Answered, Sent, InHand, BodyLeft, Challenged
<1>4. OnCallers(toServer') /\ toServer'[c] = <<>>
      /\ \A d \in Callers \ {c} : toServer'[d] = toServer[d]
  <2>1. CASE HasBody(command[c])
    <3>1. PICK b \in ControlConfigs : toServer[c] = <<Body(b)>>
      BY <1>3, <2>1 DEF Rest
    <3>2. Tail(toServer[c]) = <<>>
      BY <3>1
    <3> QED
      BY <1>1, <1>3, <2>1, <3>2
      DEF Refuse, Skipped, TakeItem, OnAllCallers, OnCallers
  <2>2. CASE ~HasBody(command[c])
    BY <1>1, <1>3, <2>2 DEF Refuse, Skipped, Rest, OnAllCallers, OnCallers
  <2> QED
    BY <2>1, <2>2
<1>5. /\ conf' \in ControlConfigs /\ OnAllCallers'
      /\ \A d \in Callers \ {c} : Same(d)
      /\ UNCHANGED <<serving, m_repeatAuthPassed, pipeOpen, ppc, command>>
  BY <1>1, <1>2, <1>4
  DEF Refuse, OnlySession, OnAllCallers, OnCallers, Same, peerVars
<1>6. Agree(c)'
  <2>1. CASE pipeOpen[c]
    BY <1>1, <1>2, <1>3, <1>4, <1>5, <2>1
    DEF Agree, Answered, PeerAt, InNeed
  <2>2. CASE ~pipeOpen[c]
    BY <1>2, <1>5, <2>2 DEF Agree
  <2> QED
    BY <2>1, <2>2
<1>7. Paid(c) => Paid(c)'
  BY <1>3, <1>5 DEF Paid
<1> QED
  BY <1>1, <1>5, <1>6, <1>7, OneState

LEMMA PipesHandle ==
  ASSUME PipesInv, NEW c \in Callers, Handle(c)
  PROVE  PipesInv'
<1>1. /\ OnAllCallers /\ conf \in ControlConfigs
      /\ Agree(c) /\ (AuthAlwaysEnabled => Paid(c))
  BY DEF PipesInv, OnAllCallers
<1>2. PICK reply, next :
        /\ WriteReply(c, reply, next)
        /\ \/ /\ HasBody(serving[c])
              /\ reply = "REPLY_OK" /\ next = "readBody"
           \/ /\ serving[c] \in {"RELOAD_CONFIG", "DISCONNECT_ALL"}
              /\ reply = "REPLY_OK" /\ next = "read"
           \/ /\ serving[c] = "AUTH"
              /\ reply = "CHALLENGE" /\ next = "readResponse"
  BY DEF Handle
<1>3. /\ OnCallers(toClient') /\ OnCallers(cpc') /\ UNCHANGED pipeOpen
      /\ \A d \in Callers \ {c} :
           toClient'[d] = toClient[d] /\ cpc'[d] = cpc[d]
      /\ ~pipeOpen[c] => cpc'[c] = "over"
      /\ pipeOpen[c] =>
           /\ cpc'[c] = next /\ ppc[c] # "gone"
           /\ toClient[c] = <<>> => toClient'[c] = <<Reply(reply)>>
  BY <1>2, ReplyWritten
<1>4. /\ conf' \in ControlConfigs /\ OnAllCallers'
      /\ \A d \in Callers \ {c} : Same(d)
      /\ UNCHANGED <<serving, m_repeatAuthPassed, pipeOpen, ppc, command,
                     toServer>>
  BY <1>1, <1>3
  DEF Handle, OnlySession, OnAllCallers, OnCallers, Same, peerVars
<1>5. cpc[c] = "handle" /\ InHand(c)
  BY <1>1
  DEF Handle, Agree, Rests, Answered, Sent, BodyLeft, Challenged
<1>6. command[c] # "AUTH" \/ ~(command[c] \in Commands)
  BY ControlServerAssumption DEF ControlServerAssumption
<1>7. Agree(c)'
  <2>1. CASE ~pipeOpen[c]
    BY <1>3, <1>4, <2>1 DEF Agree
  <2>2. CASE pipeOpen[c] /\ serving[c] = "AUTH"
    <3>1. /\ toServer[c] = <<>> /\ InNeed(c)
          /\ PeerAt(c, "waitChallenge", <<>>)
      BY <1>5, <1>6, <2>2 DEF InHand
    <3> QED
      BY <1>1, <1>2, <1>3, <1>4, <2>2, <3>1
      DEF Agree, Challenged, PeerAt, InNeed, HasBody
  <2>3. CASE pipeOpen[c] /\ serving[c] # "AUTH"
    <3>1. Rest(toServer[c], serving[c]) /\ PeerAt(c, "waitReply", <<>>)
      BY <1>5, <2>3 DEF InHand
    <3>2. CASE HasBody(serving[c])
      BY <1>1, <1>2, <1>3, <1>4, <2>3, <3>1, <3>2
      DEF Agree, BodyLeft, PeerAt, HasBody, Rest
    <3>3. CASE ~HasBody(serving[c])
      BY <1>1, <1>2, <1>3, <1>4, <2>3, <3>1, <3>3
      DEF Agree, Answered, PeerAt, Rest
    <3> QED
      BY <3>2, <3>3
  <2> QED
    BY <2>1, <2>2, <2>3
<1>8. Paid(c) => Paid(c)'
  BY <1>4, <1>5 DEF Paid
<1> QED
  BY <1>1, <1>4, <1>7, <1>8, OneState

LEMMA PipesReadBody ==
  ASSUME PipesInv, NEW c \in Callers, ReadBody(c)
  PROVE  PipesInv'
<1>1. /\ OnAllCallers /\ conf \in ControlConfigs
      /\ Agree(c) /\ (AuthAlwaysEnabled => Paid(c))
  BY DEF PipesInv, OnAllCallers
<1>2. /\ OnAllCallers'
      /\ \A d \in Callers \ {c} : Same(d)
      /\ cpc[c] = "readBody" /\ cpc'[c] = "read"
      /\ toServer'[c] = Tail(toServer[c])
      /\ UNCHANGED <<ppc, m_repeatAuthPassed, pipeOpen, toClient, command>>
  BY <1>1 DEF ReadBody, TakeItem, OnlySession, OnAllCallers, OnCallers,
              Same, peerVars
<1>3. BodyLeft(c)
  BY <1>1, <1>2
  DEF Agree, Rests, Answered, Sent, InHand, Challenged
<1>4. conf' = Head(toServer[c]).of
  BY DEF ReadBody
<1>5. CASE Rest(toServer[c], serving[c])
           /\ \/ PeerAt(c, "waitReply", <<Reply("REPLY_OK")>>)
              \/ PeerAt(c, "idle", <<>>)
  <2>1. PICK b \in ControlConfigs : toServer[c] = <<Body(b)>>
    BY <1>3, <1>5 DEF Rest, BodyLeft
  <2>2. Head(toServer[c]) = Body(b) /\ toServer'[c] = <<>>
    BY <1>2, <2>1
  <2>3. conf' \in ControlConfigs
    BY <1>4, <2>2 DEF Body
  <2>4. Agree(c)'
    BY <1>1, <1>2, <1>5, <2>2 DEF Agree, Answered, Rests, PeerAt
  <2>5. Paid(c) => Paid(c)'
    BY <1>2 DEF Paid
  <2> QED
    BY <1>1, <1>2, <2>3, <2>4, <2>5, OneState
<1>6. CASE /\ command[c] \in Commands /\ BodyAndWhole(toServer[c], command[c])
           /\ PeerAt(c, "waitReply", <<>>)
  <2>1. PICK a, b \in ControlConfigs :
          toServer[c] = IF HasBody(command[c])
                        THEN <<Body(a), Header(command[c]), Body(b)>>
                        ELSE <<Body(a), Header(command[c])>>
    BY <1>6 DEF BodyAndWhole
  <2>2. /\ Head(toServer[c]) = Body(a)
        /\ toServer'[c] = IF HasBody(command[c])
                          THEN <<Header(command[c]), Body(b)>>
                          ELSE <<Header(command[c])>>
    BY <1>2, <2>1
  <2>3. conf' \in ControlConfigs
    BY <1>4, <2>2 DEF Body
  <2>4. Agree(c)'
    BY <1>1, <1>2, <1>6, <2>2 DEF Agree, Sent, PeerAt, Whole
  <2>5. Paid(c) => Paid(c)'
    BY <1>2 DEF Paid
  <2> QED
    BY <1>1, <1>2, <2>3, <2>4, <2>5, OneState
<1> QED
  BY <1>3, <1>5, <1>6 DEF BodyLeft

LEMMA PipesReadResponse ==
  ASSUME PipesInv, NEW c \in Callers, ReadResponse(c)
  PROVE  PipesInv'
<1>1. /\ OnAllCallers /\ conf \in ControlConfigs
      /\ Agree(c) /\ (AuthAlwaysEnabled => Paid(c))
  BY DEF PipesInv, OnAllCallers
<1>2. /\ conf' \in ControlConfigs /\ OnAllCallers'
      /\ \A d \in Callers \ {c} : Same(d)
      /\ cpc[c] = "readResponse" /\ cpc'[c] = "auth" /\ toServer[c] # <<>>
      /\ toServer'[c] = Tail(toServer[c])
      /\ UNCHANGED <<ppc, m_repeatAuthPassed, pipeOpen, toClient, command>>
  BY <1>1 DEF ReadResponse, NextItem, TakeItem, OnlySession, OnAllCallers,
              OnCallers, Same, peerVars
<1>3. /\ InNeed(c) /\ PeerAt(c, "waitResult", <<>>)
      /\ \E p \in Passwords : toServer[c] = <<Response(p)>>
  BY <1>1, <1>2
  DEF Agree, Rests, Answered, Sent, InHand, BodyLeft, Challenged
<1>4. toServer'[c] = <<>>
  BY <1>2, <1>3
<1>5. Agree(c)'
  BY <1>1, <1>2, <1>3, <1>4 DEF Agree, Challenged, PeerAt, InNeed
<1>6. Paid(c) => Paid(c)'
  BY <1>2 DEF Paid
<1> QED
  BY <1>1, <1>2, <1>5, <1>6, OneState

LEMMA PipesAuthReturns ==
  ASSUME PipesInv, NEW c \in Callers, AuthReturns(c)
  PROVE  PipesInv'
<1>1. /\ OnAllCallers /\ conf \in ControlConfigs
      /\ Agree(c) /\ (AuthAlwaysEnabled => Paid(c))
  BY DEF PipesInv, OnAllCallers
<1> DEFINE good == apc[c] = "succeeded"
           reply == IF good THEN "REPLY_OK" ELSE "REPLY_ERROR"
<1>2. /\ OnCallers(toClient') /\ OnCallers(cpc') /\ UNCHANGED pipeOpen
      /\ \A d \in Callers \ {c} :
           toClient'[d] = toClient[d] /\ cpc'[d] = cpc[d]
      /\ ~pipeOpen[c] => cpc'[c] = "over"
      /\ pipeOpen[c] =>
           /\ cpc'[c] = "read" /\ ppc[c] # "gone"
           /\ toClient[c] = <<>> => toClient'[c] = <<Reply(reply)>>
  <2>1. WriteReply(c, reply, "read")
    BY DEF AuthReturns
  <2> HIDE DEF reply
  <2> QED
    BY <2>1, ReplyWritten
<1>3. /\ conf' \in ControlConfigs /\ OnAllCallers'
      /\ \A d \in Callers \ {c} : Same(d)
      /\ cpc[c] = "auth"
      /\ m_repeatAuthPassed'[c] =
           (m_repeatAuthPassed[c] \/ (good /\ pipeOpen[c]))
      /\ UNCHANGED <<ppc, pipeOpen, command, toServer>>
  BY <1>1, <1>2 DEF AuthReturns, OnlySession, OnAllCallers, OnCallers,
                    Same, peerVars
<1>4. InNeed(c) /\ PeerAt(c, "waitResult", <<>>) /\ toServer[c] = <<>>
  BY <1>1, <1>3
  DEF Agree, Rests, Answered, Sent, InHand, BodyLeft, Challenged
<1>5. CASE ~pipeOpen[c]
  <2>1. Agree(c)' /\ Paid(c)'
    BY <1>2, <1>3, <1>5 DEF Agree, Paid
  <2> QED
    BY <1>1, <1>3, <2>1, OneState
<1>6. CASE pipeOpen[c]
  <2>1. /\ cpc'[c] = "read" /\ ppc'[c] = "waitResult"
        /\ toClient'[c] = <<Reply(reply)>> /\ toServer'[c] = <<>>
    BY <1>2, <1>3, <1>4, <1>6 DEF PeerAt
  <2>2. Agree(c)'
    BY <1>1, <1>3, <1>4, <1>6, <2>1 DEF Agree, Answered, PeerAt, InNeed
  <2>3. Paid(c) => Paid(c)'
    BY <1>3, <2>1 DEF Paid, PeerAt
  <2> QED
    BY <1>1, <1>3, <2>2, <2>3, OneState
<1> QED
  BY <1>5, <1>6

\* A thread that reads no more.
LEMMA PipesOver ==
  ASSUME PipesInv, NEW c \in Callers,
         ReadFails(c) \/ ThreadEnds(c) \/ DeleteDead(c)
  PROVE  PipesInv'
<1>1. /\ OnAllCallers /\ conf \in ControlConfigs
      /\ Agree(c) /\ (AuthAlwaysEnabled => Paid(c))
  BY DEF PipesInv, OnAllCallers
<1>2. /\ conf' \in ControlConfigs /\ OnAllCallers'
      /\ \A d \in Callers \ {c} : Same(d)
      /\ cpc'[c] \in {"over", "ended", "deleted"}
      /\ ppc'[c] = ppc[c] /\ (pipeOpen'[c] = pipeOpen[c] \/ ~pipeOpen'[c])
  BY <1>1 DEF ReadFails, ThreadEnds, DeleteDead, OnlySession, OnAllCallers,
              OnCallers, Same, peerVars, pipeVars
<1>3. Agree(c)' /\ Paid(c)'
  BY <1>1, <1>2 DEF Agree, Paid
<1> QED
  BY <1>2, <1>3, OneState

LEMMA PipesAccept ==
  ASSUME PipesInv, NEW c \in Callers, Accept(c)
  PROVE  PipesInv'
<1>1. /\ OnAllCallers /\ conf \in ControlConfigs
      /\ Agree(c) /\ (AuthAlwaysEnabled => Paid(c))
  BY DEF PipesInv, OnAllCallers
<1>2. /\ conf' \in ControlConfigs /\ OnAllCallers'
      /\ \A d \in Callers \ {c} : Same(d)
      /\ cpc[c] = "unborn" /\ cpc'[c] = "start"
      /\ UNCHANGED <<ppc, serving, m_repeatAuthPassed, toServer, toClient,
                     command>>
  BY <1>1 DEF Accept, OnAllCallers, OnCallers, Same, peerVars
<1>3. Agree(c)'
  BY <1>1, <1>2
  DEF Agree, Rests, Answered, Sent, InHand, BodyLeft, Challenged, PeerAt
<1>4. Paid(c) => Paid(c)'
  BY <1>2 DEF Paid
<1> QED
  BY <1>1, <1>2, <1>3, <1>4, OneState

--------------------------------------------------------------------------------
(* Both ends agree, and no authentication serves two commands.             *)

LEMMA PipesDestructorStep ==
  ASSUME PipesInv, TerminateClients \/ WaitClients
  PROVE  PipesInv'
<1>1. OnAllCallers /\ conf \in ControlConfigs
  BY DEF PipesInv, OnAllCallers
<1>2. CASE TerminateClients
  <2>1. /\ conf' \in ControlConfigs /\ OnAllCallers'
        /\ UNCHANGED <<cpc, serving, m_repeatAuthPassed, toServer, toClient,
                       ppc, command, authDone>>
        /\ \A c \in Callers : pipeOpen'[c] = FALSE
    BY <1>1, <1>2 DEF TerminateClients, ClosedByTerminate, OnAllCallers,
                      OnCallers, sessionVars, peerVars
  <2>2. ASSUME NEW c \in Callers PROVE Agree(c)' /\ (Paid(c) => Paid(c)')
    <3>1. Agree(c)
      BY DEF PipesInv
    <3>2. Agree(c)'
      BY <2>1, <3>1
      DEF Agree, Rests, Answered, Sent, InHand, BodyLeft, Challenged, PeerAt,
          InNeed, Whole, Rest, BodyAndWhole
    <3>3. Paid(c) => Paid(c)'
      BY <2>1 DEF Paid, PeerAt, InNeed, Whole
    <3> QED
      BY <3>2, <3>3
  <2> QED
    BY <2>1, <2>2 DEF PipesInv, OnAllCallers, AuthAlwaysEnabled
<1>3. CASE WaitClients
  <2>1. /\ conf' \in ControlConfigs /\ OnAllCallers'
        /\ UNCHANGED <<serving, m_repeatAuthPassed, toServer, toClient,
                       ppc, command, authDone, pipeOpen>>
        /\ \A c \in Callers : cpc'[c] = cpc[c] \/ cpc'[c] = "deleted"
    BY <1>1, <1>3 DEF WaitClients, OnAllCallers, OnCallers, pipeVars, peerVars
  <2>2. ASSUME NEW c \in Callers PROVE Agree(c)' /\ (AuthAlwaysEnabled => Paid(c)')
    <3>1. Agree(c) /\ (AuthAlwaysEnabled => Paid(c))
      BY DEF PipesInv
    <3>2. CASE cpc'[c] = cpc[c]
      BY <2>1, <3>1, <3>2, SameState DEF Same
    <3>3. CASE cpc'[c] = "deleted"
      BY <2>1, <3>1, <3>3 DEF Agree, Paid
    <3> QED
      BY <2>1, <3>2, <3>3
  <2> QED
    BY <2>1, <2>2 DEF PipesInv, OnAllCallers, AuthAlwaysEnabled
<1> QED
  BY <1>2, <1>3

\* Steps that the pipes and the sessions do not see.
LEMMA PipesUntouched ==
  ASSUME PipesInv,
         UNCHANGED <<conf, cpc, serving, m_repeatAuthPassed, pipeOpen, toServer,
                     toClient, ppc, command, authDone>>
  PROVE  PipesInv'
<1>1. ASSUME NEW c \in Callers PROVE Agree(c)' /\ (AuthAlwaysEnabled => Paid(c)')
  BY SameState DEF Same, PipesInv
<1> QED
  BY <1>1 DEF PipesInv, OnCallers, AuthAlwaysEnabled

LEMMA PipesStep ==
  ASSUME PipesInv, [Next]_vars
  PROVE  PipesInv'
<1>1. ASSUME NEW c \in Callers, PeerStep(c) PROVE PipesInv'
  BY <1>1, PipesSendCommand, PipesCommandOk, PipesAuthNeeded,
     PipesAuthCancelled, PipesSendAuth, PipesSendResponse, PipesAuthRejected,
     PipesSendAgain, PipesPeerLeaves
  DEF PeerStep
<1>2. ASSUME NEW c \in Callers, AuthenticateStep(c) PROVE PipesInv'
  BY <1>2, PipesUntouched
  DEF AuthenticateStep, sessionVars, pipeVars, peerVars
<1>3. ASSUME NEW c \in Callers, SessionStep(c) PROVE PipesInv'
  BY <1>2, <1>3, PipesStartSession, PipesReadHeader, PipesOver, PipesRefuse,
     PipesHandle, PipesReadBody, PipesReadResponse, PipesAuthReturns
  DEF SessionStep
<1>4. ASSUME NEW c \in Callers, AddThread(c) PROVE PipesInv'
  BY <1>4, PipesUntouched DEF AddThread, pipeVars, peerVars
<1>5. ASSUME Terminate \/ WaitAcceptor \/ BreakAuthentications
             \/ WakeAuthentications \/ ClockTicks \/ UNCHANGED vars
      PROVE  PipesInv'
  BY <1>5, PipesUntouched
  DEF Terminate, WaitAcceptor, BreakAuthentications, WakeAuthentications,
      ClockTicks, vars, sessionVars, pipeVars, peerVars
<1> QED
  BY <1>1, <1>3, <1>4, <1>5, PipesAccept, PipesOver, PipesDestructorStep
  DEF Next, DestructorStep

LEMMA PipesInit == Init => PipesInv
<1> SUFFICES ASSUME Init PROVE PipesInv
  OBVIOUS
<1>1. conf \in ControlConfigs /\ OnAllCallers
  BY DEF Init, OnAllCallers, OnCallers
<1>2. ASSUME NEW c \in Callers PROVE Agree(c) /\ Paid(c)
  BY DEF Init, Agree, Rests, PeerAt, Paid
<1> QED
  BY <1>1, <1>2 DEF PipesInv, OnAllCallers

\* Both ends of every pipe agree on what is in it.
LEMMA AgreementIsInStep == PipesInv => InStep
<1> SUFFICES ASSUME PipesInv, NEW c \in Callers, toServer[c] # <<>>
             PROVE  /\ cpc[c] = "read" => NextItem(c, "header")
                    /\ cpc[c] \in {"refuse", "readBody"} /\ HasBody(serving[c])
                         => NextItem(c, "body")
                    /\ cpc[c] = "readResponse" => NextItem(c, "response")
  BY DEF InStep
<1>1. Agree(c)
  BY DEF PipesInv
<1>2. ASSUME cpc[c] = "read" PROVE NextItem(c, "header")
  <2>1. Sent(c)
    BY <1>1, <1>2 DEF Agree, Rests, Answered, InHand, BodyLeft, Challenged
  <2>2. CASE toServer[c] = <<Header("AUTH")>>
    BY <2>2 DEF NextItem, Header
  <2>3. CASE Whole(toServer[c], command[c])
    <3>1. PICK b \in ControlConfigs :
            toServer[c] = IF HasBody(command[c])
                          THEN <<Header(command[c]), Body(b)>>
                          ELSE <<Header(command[c])>>
      BY <2>3 DEF Whole
    <3>2. Head(toServer[c]) = Header(command[c])
      BY <3>1
    <3> QED
      BY <3>2 DEF NextItem, Header
  <2> QED
    BY <2>1, <2>2, <2>3 DEF Sent
<1>3. ASSUME cpc[c] = "refuse", HasBody(serving[c]) PROVE NextItem(c, "body")
  <2>1. Rest(toServer[c], serving[c])
    BY <1>1, <1>3
    DEF Agree, Rests, Answered, Sent, InHand, BodyLeft, Challenged
  <2>2. \E b : Head(toServer[c]) = Body(b)
    BY <1>3, <2>1 DEF Rest
  <2> QED
    BY <2>2 DEF NextItem, Body
<1>4. ASSUME cpc[c] = "readBody", HasBody(serving[c]) PROVE NextItem(c, "body")
  <2>1. \/ Rest(toServer[c], serving[c])
        \/ BodyAndWhole(toServer[c], command[c])
    BY <1>1, <1>4
    DEF Agree, Rests, Answered, Sent, InHand, BodyLeft, Challenged
  <2>2. CASE Rest(toServer[c], serving[c])
    BY <1>4, <2>2 DEF Rest, NextItem, Body
  <2>3. CASE BodyAndWhole(toServer[c], command[c])
    <3>1. PICK a, b \in ControlConfigs :
            toServer[c] = IF HasBody(command[c])
                          THEN <<Body(a), Header(command[c]), Body(b)>>
                          ELSE <<Body(a), Header(command[c])>>
      BY <2>3 DEF BodyAndWhole
    <3>2. Head(toServer[c]) = Body(a)
      BY <3>1
    <3> QED
      BY <3>2 DEF NextItem, Body
  <2> QED
    BY <2>1, <2>2, <2>3
<1>5. ASSUME cpc[c] = "readResponse" PROVE NextItem(c, "response")
  <2>1. \E p \in Passwords : toServer[c] = <<Response(p)>>
    BY <1>1, <1>5
    DEF Agree, Rests, Answered, Sent, InHand, BodyLeft, Challenged
  <2>2. \E p : Head(toServer[c]) = Response(p)
    BY <2>1
  <2> QED
    BY <2>2 DEF NextItem, Response
<1> QED
  BY <1>2, <1>3, <1>4, <1>5

\* Whatever is refused, authenticated for and repeated, and whoever closes the
\* pipe in between: a session never takes a body for a header, or a header for
\* a response.
THEOREM BothEndsInStep == Spec => []InStep
BY PipesInit, PipesStep, AgreementIsInStep, PTL DEF Spec

\* The header that lets a message through is the second one of its command,
\* and the mark that lets it through was set for that command.
PaysForIt ==
  \A c \in Callers :
    cpc[c] = "read" /\ cpc'[c] = "handle" /\ RequiresAuth(serving'[c])
      /\ conf.alwaysChecking /\ AuthAlwaysEnabled
    => authDone[c] /\ serving'[c] = command[c]

LEMMA HandledIsPaid ==
  ASSUME PipesInv, [Next]_vars
  PROVE  PaysForIt
<1> SUFFICES ASSUME NEW c \in Callers, cpc[c] = "read", cpc'[c] = "handle",
                    RequiresAuth(serving'[c]), conf.alwaysChecking,
                    AuthAlwaysEnabled
             PROVE  authDone[c] /\ serving'[c] = command[c]
  BY DEF PaysForIt
<1>1. OnAllCallers /\ Paid(c)
  BY DEF PipesInv, OnAllCallers
<1>2. ReadHeader(c)
  <2>1. ASSUME NEW d \in Callers, PeerStep(d) PROVE cpc' = cpc
    BY <2>1 DEF PeerStep, SendCommand, CommandOk, AuthNeeded, PeerContinues,
             AuthCancelled, SendAuth, SendResponse, AuthRejected, SendAgain,
             PeerLeaves, sessionVars
  <2>2. ASSUME NEW d \in Callers,
               Accept(d) \/ AddThread(d) \/ DeleteDead(d) \/ ThreadEnds(d)
               \/ StartSession(d) \/ ReadFails(d) \/ ReadBody(d)
               \/ ReadResponse(d) \/ AuthenticateStep(d)
        PROVE  FALSE
    BY <1>1, <2>2
    DEF Accept, AddThread, DeleteDead, ThreadEnds, StartSession, ReadFails,
        ReadBody, ReadResponse, AuthenticateStep, sessionVars, OnAllCallers,
        OnCallers
  <2>3. ASSUME NEW d \in Callers, Refuse(d) \/ Handle(d) \/ AuthReturns(d)
        PROVE  FALSE
    BY <1>1, <2>3
    DEF Refuse, Handle, AuthReturns, WriteReply, OnAllCallers, OnCallers
  <2>4. ASSUME Terminate \/ DestructorStep \/ ClockTicks \/ UNCHANGED vars
        PROVE  FALSE
    BY <1>1, <2>4
    DEF Terminate, DestructorStep, WaitAcceptor, BreakAuthentications,
        WakeAuthentications, TerminateClients, WaitClients, ClockTicks, vars,
        sessionVars, OnAllCallers, OnCallers
  <2>5. ASSUME NEW d \in Callers, ReadHeader(d) PROVE ReadHeader(c)
    BY <1>1, <2>5 DEF ReadHeader, OnAllCallers, OnCallers
  <2> QED
    BY <2>1, <2>2, <2>3, <2>4, <2>5 DEF Next, SessionStep
<1> DEFINE m == Head(toServer[c]).id
<1>3. serving'[c] = m /\ toServer[c] # <<>>
  BY <1>1, <1>2 DEF ReadHeader, NextItem, OnAllCallers, OnCallers
<1>4. cpc'[c] = IF RequiresAuth(m) /\ ~AuthPassed(c, m)
                THEN "refuse" ELSE "handle"
  BY <1>1, <1>2 DEF ReadHeader, OnAllCallers, OnCallers
<1>5. RequiresAuth(m)
  <2>1. serving'[c] = m
    BY <1>3
  <2> QED
    BY <2>1
<1>6. m_repeatAuthPassed[c]
  BY <1>4, <1>5 DEF AuthPassed
<1>7. Whole(toServer[c], command[c]) /\ authDone[c]
  BY <1>1, <1>3, <1>6 DEF Paid
<1>8. m = command[c]
  BY <1>2, <1>7, HeaderRead
<1> QED
  BY <1>3, <1>7, <1>8

\* When every message is to be authenticated, each command that needs it is
\* handled only for a peer that has authenticated for this very command,
\* however many sessions share the authenticator.
THEOREM EveryCommandIsPaid == Spec => PaidByCommand
<1>1. PipesInv /\ [Next]_vars => PaysForIt
  BY HandledIsPaid
<1>2. PipesInv /\ [Next]_vars => PipesInv'
  BY PipesStep
<1> QED
  BY <1>1, <1>2, PipesInit, PTL DEF Spec, PaidByCommand, PaysForIt
================================================================================
