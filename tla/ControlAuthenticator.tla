------------------------- MODULE ControlAuthenticator -------------------------
(***************************************************************************)
(* The authentication that all control connections share.                  *)
(*                                                                         *)
(* ControlAppAuthenticator lets one caller in at a time (m_authMutex) and  *)
(* makes it wait while the AuthTracker reports a ban: m_failureMaxCount    *)
(* wrong passwords since m_firstFailureTime, until m_failureTimeInterval   *)
(* has passed.  refresh() and the rest of checkBan() read the clock in     *)
(* two sections, so that the time may pass between them.                   *)
(*                                                                         *)
(* Times are numbers of ticks.  The difference of two times is unsigned    *)
(* and cut to a DWORD of DwordRange values, the largest of which is        *)
(* INFINITE for WaitForSingleObject().                                     *)
(***************************************************************************)
EXTENDS Naturals

CONSTANTS Callers,               \* the threads that authenticate
          NoCaller,              \* the mutex is free
          Passwords,             \* passwords and the responses they give
          failureTimeInterval, failureMaxCount,
          DwordRange,            \* 2^32
          MaxTime                \* bound: the clock stops here

ASSUME AuthAssumption ==
  /\ NoCaller \notin Callers
  /\ failureTimeInterval \in Nat \ {0}
  /\ failureMaxCount \in Nat \ {0}
  /\ DwordRange \in Nat
  /\ MaxTime \in Nat
  /\ failureTimeInterval + MaxTime < DwordRange

VARIABLES
  now,                                  \* DateTime::now()
  m_firstFailureTime, m_failureCount,   \* AuthTracker
  m_authMutex, m_banDelay, m_isBreaked, \* ControlAppAuthenticator
  apc,                  \* [Callers -> where the thread is in authenticate()]
  until,                \* [Callers -> when its wait for m_banDelay ends]
  cryptPassword,        \* [Callers -> the password it compares with]
  response              \* [Callers -> the response it was given]

trackerVars == <<m_firstFailureTime, m_failureCount>>
callVars == <<apc, until, cryptPassword, response>>
authVars == <<now, trackerVars, m_authMutex, m_banDelay, m_isBreaked, callVars>>

INFINITE == DwordRange - 1

AuthPC == {"out", "lock", "refresh", "compute", "banned", "verify",
           "succeeded", "failed"}

Inside == {"refresh", "compute", "banned", "verify"}  \* m_authMutex is held

NoPassword == "none"  \* outside authenticate()

AuthTypeOK ==
  /\ now \in failureTimeInterval .. failureTimeInterval + MaxTime
  /\ m_firstFailureTime \in Nat /\ m_firstFailureTime <= now
  /\ m_failureCount \in Nat
  /\ m_authMutex \in Callers \cup {NoCaller}
  /\ \A c \in Callers : apc[c] \in Inside => m_authMutex = c
  /\ m_banDelay \in BOOLEAN
  /\ m_isBreaked \in BOOLEAN
  /\ apc \in [Callers -> AuthPC]
  /\ until \in [Callers -> Nat]
  /\ cryptPassword \in [Callers -> Passwords \cup {NoPassword}]
  /\ response \in [Callers -> Passwords \cup {NoPassword}]

AuthInit ==
  /\ now = failureTimeInterval
  /\ m_firstFailureTime = 0 /\ m_failureCount = 0
  /\ m_authMutex = NoCaller /\ m_banDelay = FALSE /\ m_isBreaked = FALSE
  /\ apc = [c \in Callers |-> "out"]
  /\ until = [c \in Callers |-> 0]
  /\ cryptPassword = [c \in Callers |-> NoPassword]
  /\ response = [c \in Callers |-> NoPassword]

--------------------------------------------------------------------------------
(* The clock.                                                              *)

Tick ==
  /\ now < failureTimeInterval + MaxTime
  /\ now' = now + 1
  /\ UNCHANGED <<trackerVars, m_authMutex, m_banDelay, m_isBreaked, callVars>>

--------------------------------------------------------------------------------
(* authenticate().                                                         *)

\* The call, with the password that the caller has read from the
\* configuration and the response of its peer.
Authenticate(c, password, answer) ==
  /\ apc[c] = "out"
  /\ apc' = [apc EXCEPT ![c] = "lock"]
  /\ cryptPassword' = [cryptPassword EXCEPT ![c] = password]
  /\ response' = [response EXCEPT ![c] = answer]
  /\ UNCHANGED <<now, trackerVars, m_authMutex, m_banDelay, m_isBreaked, until>>

CanEnterUnlocked(c) == TRUE \* (mutant) without m_authMutex

CanEnter(c) == m_authMutex = NoCaller

EnterAuthenticate(c) ==
  /\ apc[c] = "lock"
  /\ CanEnter(c)
  /\ m_authMutex' = c
  /\ apc' = [apc EXCEPT ![c] = IF m_isBreaked THEN "verify" ELSE "refresh"]
  /\ UNCHANGED <<now, trackerVars, m_banDelay, m_isBreaked, until,
                 cryptPassword, response>>

\* AuthTracker::refresh()
Refresh(c) ==
  /\ apc[c] = "refresh"
  /\ m_failureCount' = IF now - m_firstFailureTime >= failureTimeInterval
                         THEN 0 ELSE m_failureCount
  /\ apc' = [apc EXCEPT ![c] = "compute"]
  /\ UNCHANGED <<now, m_firstFailureTime, m_authMutex, m_banDelay, m_isBreaked,
                 until, cryptPassword, response>>

banTimeTooMany == \* (mutant) the count may exceed the maximum
  IF m_failureCount <= failureMaxCount THEN 0
  ELSE (failureTimeInterval + DwordRange - (now - m_firstFailureTime))
         % DwordRange

\* The rest of checkBan(): the difference is unsigned, and becomes a DWORD.
banTime ==
  IF m_failureCount < failureMaxCount THEN 0
  ELSE (failureTimeInterval + DwordRange - (now - m_firstFailureTime))
         % DwordRange

\* With a ban time, waitForEvent(); without one, the loop ends.
ComputeBan(c) ==
  /\ apc[c] = "compute"
  /\ until' = [until EXCEPT ![c] = IF banTime = 0 THEN 0
                                   ELSE IF banTime = INFINITE THEN INFINITE
                                   ELSE now + banTime]
  /\ apc' = [apc EXCEPT ![c] = IF banTime = 0 THEN "verify" ELSE "banned"]
  /\ UNCHANGED <<now, trackerVars, m_authMutex, m_banDelay, m_isBreaked,
                 cryptPassword, response>>

\* The wait ends, by the event or by the time; the loop goes on unless
\* m_isBreaked.
BanEnds(c) ==
  /\ apc[c] = "banned"
  /\ m_banDelay \/ now >= until[c]
  /\ m_banDelay' = FALSE
  /\ apc' = [apc EXCEPT ![c] = IF m_isBreaked THEN "verify" ELSE "refresh"]
  /\ until' = [until EXCEPT ![c] = 0]
  /\ UNCHANGED <<now, trackerVars, m_authMutex, m_isBreaked, cryptPassword,
                 response>>

\* AuthTracker::notifyAbAuthFailed()
NotifyAbAuthFailed ==
  /\ m_firstFailureTime' = IF m_failureCount = 0 THEN now
                           ELSE m_firstFailureTime
  /\ m_failureCount' = m_failureCount + 1

\* challengeAndResponseIsValid(), after a last look at m_isBreaked.
Verify(c) ==
  /\ apc[c] = "verify"
  /\ m_authMutex' = NoCaller
  /\ \/ /\ m_isBreaked
        /\ apc' = [apc EXCEPT ![c] = "failed"]
        /\ UNCHANGED trackerVars
     \/ /\ ~m_isBreaked /\ response[c] = cryptPassword[c]
        /\ apc' = [apc EXCEPT ![c] = "succeeded"]
        /\ UNCHANGED trackerVars
     \/ /\ ~m_isBreaked /\ response[c] # cryptPassword[c]
        /\ apc' = [apc EXCEPT ![c] = "failed"]
        /\ NotifyAbAuthFailed
  /\ cryptPassword' = [cryptPassword EXCEPT ![c] = NoPassword]
  /\ response' = [response EXCEPT ![c] = NoPassword]
  /\ UNCHANGED <<now, m_banDelay, m_isBreaked, until>>

\* The caller goes on with the result.
Return(c) ==
  /\ apc[c] \in {"succeeded", "failed"}
  /\ apc' = [apc EXCEPT ![c] = "out"]
  /\ UNCHANGED <<now, trackerVars, m_authMutex, m_banDelay, m_isBreaked,
                 until, cryptPassword, response>>

--------------------------------------------------------------------------------
(* breakAndDisableAuthentications(), in two steps: a waiting thread may    *)
(* see the flag without the event.                                         *)

Break ==
  /\ m_isBreaked' = TRUE
  /\ UNCHANGED <<now, trackerVars, m_authMutex, m_banDelay, callVars>>

WakeBanned ==
  /\ m_banDelay' = TRUE
  /\ UNCHANGED <<now, trackerVars, m_authMutex, m_isBreaked, callVars>>

AuthStep(c) == \/ EnterAuthenticate(c) \/ Refresh(c) \/ ComputeBan(c)
               \/ BanEnds(c) \/ Verify(c)
================================================================================
