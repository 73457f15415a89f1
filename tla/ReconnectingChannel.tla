-------------------------- MODULE ReconnectingChannel --------------------------
(***************************************************************************)
(* The service's end of the pipe to the desktop server process.            *)
(*                                                                         *)
(* When that process ends, the DesktopServerWatcher starts another one and *)
(* hands a new pipe to replaceChannel(); whoever is reading or writing     *)
(* goes on using the old one, which therefore lives until the next call    *)
(* of getChannel().  The user learns of the exchange by a                  *)
(* ReconnectException and begins its message anew.  close() ends it all.   *)
(*                                                                         *)
(* Channels are numbered in the order they are created; 0 is the null      *)
(* pointer.  There is one user at a time: every user of a gate holds the   *)
(* gate's mutex from the first byte of a message to the last, and catches  *)
(* every exception there.  A section under m_chanMut is one step.          *)
(***************************************************************************)
EXTENDS Naturals

CONSTANT MaxChannels  \* bound on the desktop server processes started

ASSUME MaxChannelsAssumption == MaxChannels \in Nat

VARIABLES
  m_channel, m_oldChannel, m_chanWasChanged, m_isClosed,
  m_timer,   \* auto-reset event: a channel was replaced, or closed
  created,   \* how many channels there have been
  alive,     \* the channels not deleted yet
  broken,    \* the channels whose process has ended, or which are closed
  handed,    \* the channel the watcher has just created, or 0
  upc,       \* the user: in getChannel(), using the channel, or in
             \* waitForReconnect(): at the loop's head, waiting, checking
  channel,   \* its local variable
  stream     \* the channel that holds the first part of its message, or 0

pointers == <<m_channel, m_oldChannel, m_chanWasChanged>>
userVars == <<upc, channel, stream>>
vars == <<pointers, m_isClosed, m_timer, created, alive, broken, handed, userVars>>

Pointers == 0..MaxChannels
NotNull(p) == {p} \ {0}

TypeOK ==
  /\ m_channel \in Pointers /\ m_oldChannel \in Pointers
  /\ m_chanWasChanged \in BOOLEAN /\ m_isClosed \in BOOLEAN
  /\ m_timer \in BOOLEAN
  /\ created \in Pointers /\ alive \subseteq 1..created
  /\ broken \subseteq 1..created /\ handed \in alive \cup {0}
  /\ upc \in {"idle", "get", "use", "loop", "wait", "check"}
  /\ channel \in Pointers /\ stream \in Pointers

Init ==
  /\ m_channel = 0 /\ m_oldChannel = 0 /\ m_chanWasChanged = FALSE
  /\ m_isClosed = FALSE /\ m_timer = FALSE
  /\ created = 0 /\ alive = {} /\ broken = {} /\ handed = 0
  /\ upc = "idle" /\ channel = 0 /\ stream = 0

--------------------------------------------------------------------------------
(* The DesktopServerWatcher.                                               *)

\* A process is started when there is none, that is, when the last channel
\* is broken.
NewChannel ==
  /\ handed = 0 /\ created < MaxChannels
  /\ created \in alive => created \in broken
  /\ created' = created + 1
  /\ handed' = created'
  /\ alive' = alive \cup {created'}
  /\ UNCHANGED <<pointers, m_isClosed, m_timer, broken, userVars>>

\* (mutant) The pipe is deleted, and its pointer stays.
InitFailsDangling ==
  /\ handed # 0
  /\ alive' = alive \ {handed}
  /\ UNCHANGED <<pointers, m_isClosed, m_timer, created, broken, handed, userVars>>

\* The first messages to the new process fail.
InitFails ==
  /\ handed # 0
  /\ alive' = alive \ {handed} /\ handed' = 0
  /\ UNCHANGED <<pointers, m_isClosed, m_timer, created, broken, userVars>>

\* (mutant) The channel in use is deleted in place of the one not in use.
DeletedOnReplaceOld == NotNull(m_oldChannel)

\* "This channel in this case is guaranted doesn't use."
DeletedOnReplace == IF m_oldChannel # 0 THEN NotNull(m_channel) ELSE {}

replaceChannel ==
  /\ handed # 0 /\ handed' = 0
  /\ m_chanWasChanged' = (m_chanWasChanged \/ m_channel # 0)
  /\ alive' = alive \ DeletedOnReplace
  /\ m_oldChannel' = m_channel
  /\ m_channel' = handed
  /\ m_timer' = TRUE
  /\ UNCHANGED <<m_isClosed, created, broken, userVars>>

ProcessEnds ==
  /\ \E c \in alive \ broken : broken' = broken \cup {c}
  /\ UNCHANGED <<pointers, m_isClosed, m_timer, created, alive, handed, userVars>>

--------------------------------------------------------------------------------
(* The user: read() and write().                                           *)

serverVars == <<created, broken, handed>>

Call ==
  /\ upc = "idle" /\ ~m_isClosed
  /\ upc' = "get"
  /\ UNCHANGED <<pointers, m_isClosed, m_timer, alive, serverVars, channel, stream>>

\* An IOException or a ReconnectException: the message is given up.
Abort == upc' = "idle" /\ channel' = 0 /\ stream' = 0

getChannel ==
  /\ upc = "get"
  /\ alive' = alive \ NotNull(m_oldChannel)
  /\ m_oldChannel' = 0
  /\ \/ /\ m_chanWasChanged /\ m_chanWasChanged' = FALSE
        /\ Abort
     \/ /\ ~m_chanWasChanged /\ UNCHANGED m_chanWasChanged
        /\ channel' = m_channel /\ upc' = "use"
        /\ UNCHANGED stream
  /\ UNCHANGED <<m_channel, m_isClosed, m_timer, serverVars>>

\* Bytes are still delivered after the process has ended.  A message has
\* several parts.
Succeed ==
  /\ upc = "use" /\ channel # 0
  /\ ~(channel \in broken /\ m_isClosed)
  /\ upc' = "idle" /\ channel' = 0
  /\ stream' \in {channel, 0}
  /\ UNCHANGED <<pointers, m_isClosed, m_timer, alive, serverVars>>

\* There is no channel, or it fails: waitForReconnect() is called.
Fail ==
  /\ upc = "use" /\ (channel = 0 \/ channel \in broken)
  /\ upc' = "loop"
  /\ UNCHANGED <<pointers, m_isClosed, m_timer, alive, serverVars, channel, stream>>

\* The loop's head: the time is over or the channel closed, or one more round.
LoopHead ==
  /\ upc = "loop"
  /\ \/ Abort
     \/ ~m_isClosed /\ upc' = "wait" /\ UNCHANGED <<channel, stream>>
  /\ UNCHANGED <<pointers, m_isClosed, m_timer, alive, serverVars>>

Woken ==
  /\ upc = "wait" /\ m_timer
  /\ m_timer' = FALSE /\ upc' = "check"
  /\ UNCHANGED <<pointers, m_isClosed, alive, serverVars, channel, stream>>

TimeOut ==
  /\ upc = "wait" /\ ~m_timer
  /\ upc' = "check"
  /\ UNCHANGED <<pointers, m_isClosed, m_timer, alive, serverVars, channel, stream>>

\* (mutant) The reconnect is not told to the user who waited for it.
AfterReconnectQuiet == upc' = "idle" /\ channel' = 0 /\ UNCHANGED stream

\* A ReconnectException, but for the first initialization: then 0 is
\* returned, and the message goes on.
AfterReconnect ==
  IF channel # 0 THEN Abort ELSE upc' = "idle" /\ UNCHANGED <<channel, stream>>

CheckReplaced ==
  /\ upc = "check"
  /\ \/ /\ m_channel # channel
        /\ m_chanWasChanged' = FALSE
        /\ AfterReconnect
     \/ /\ m_channel = channel
        /\ upc' = "loop" /\ UNCHANGED <<m_chanWasChanged, channel, stream>>
  /\ UNCHANGED <<m_channel, m_oldChannel, m_isClosed, m_timer, alive, serverVars>>

--------------------------------------------------------------------------------
\* (mutant) Only the channel that was replaced is closed.
ToCloseOld == NotNull(m_oldChannel)

ToClose == NotNull(m_channel) \cup NotNull(m_oldChannel)

\* (mutant) The waiting user is not woken.
TimerOnCloseForgotten == m_timer

\* m_timer.notify()
TimerOnClose == TRUE

\* An error of the dispatcher, or the end of the desktop.
close ==
  /\ ~m_isClosed /\ m_isClosed' = TRUE
  /\ broken' = broken \cup ToClose
  /\ m_timer' = TimerOnClose
  /\ UNCHANGED <<pointers, created, alive, handed, userVars>>

--------------------------------------------------------------------------------
WatcherRuns == NewChannel \/ InitFails \/ replaceChannel
UserRuns ==
  \/ Call \/ getChannel \/ Succeed \/ Fail
  \/ LoopHead \/ Woken \/ TimeOut \/ CheckReplaced

Next == WatcherRuns \/ UserRuns \/ ProcessEnds \/ close

SafetySpec == Init /\ [][Next]_vars

(* The user's thread is scheduled, a broken channel fails, a set event ends *)
(* the wait for it.  A healthy channel may block for ever, and nothing is   *)
(* said of when the time-out comes.                                         *)
Fairness ==
  /\ WF_vars(getChannel) /\ WF_vars(Fail)
  /\ WF_vars(LoopHead) /\ WF_vars(Woken) /\ WF_vars(CheckReplaced)
Spec == SafetySpec /\ Fairness
--------------------------------------------------------------------------------
\* The user never works on a channel that has been deleted: the old channel
\* lives until the next call of getChannel(), and what replaceChannel()
\* deletes has never been handed out.
InUseIsAlive == upc = "use" /\ channel # 0 => channel \in alive

\* No message is begun on one channel and continued on another: "At the next
\* the read()/write() function call read()/write() generates the
\* ReconnectException if this is not the first initialization".
MessagesStayWhole == upc = "use" /\ stream # 0 => channel = stream

\* close() reaches whoever is using a channel at that moment, also when the
\* channel has been replaced under him, once or several times.
CloseReachesTheUser ==
  [][m_isClosed' /\ ~m_isClosed /\ upc = "use" => channel \in broken' \cup {0}]_vars

\* Once the channel is closed, a user whose channel fails, or who waits for a
\* reconnect, comes back, without the help of the time-out: the wake-up of
\* close() is not lost, whatever replaceChannel() signals before or after it.
CloseReleasesTheWaiting ==
  (m_isClosed /\ upc # "get" /\ (upc = "use" => channel \in broken \cup {0}))
    ~> upc = "idle"

\* "Now we are the owner": the channels the object points to exist.
PointersAreAlive == NotNull(m_channel) \cup NotNull(m_oldChannel) \subseteq alive
================================================================================
