---------------------------- MODULE ViewerSession ----------------------------
(***************************************************************************)
(* One session of the viewer: the thread of the RemoteViewerCore, the      *)
(* thread of its FbUpdateNotifier, the thread of the user interface, and   *)
(* the server at the other end.                                            *)
(*                                                                         *)
(* The desktop is a set of parts: its dimension is the set of the parts it *)
(* has, a picture gives every part a version, 0 where it is black.  A      *)
(* critical section of the code is one action, and what a thread has read  *)
(* in one is kept in its locals until it uses it.                          *)
(*                                                                         *)
(* Messages that change nothing kept here (encodings, keys, clipboard, the *)
(* bell) are left out, and so are a server that breaks the connection, and *)
(* the cursor, which is in the frame buffer only while that is locked.     *)
(***************************************************************************)
EXTENDS Naturals, Sequences, FiniteSets

CONSTANTS Parts,        \* of the desktop
          Dimensions,    \* the sets of parts a desktop may have
          Formats,       \* pixel formats
          ServerFormat, ServerDimension,   \* what the server starts with
          ConfigFormat,  \* what the user has configured
          MaxUiActions,  \* bound: what the user does
          MaxChanges     \* bound: changes of the server's desktop

ASSUME ViewerAssumption ==
  /\ Dimensions \subseteq SUBSET Parts /\ {} \notin Dimensions
  /\ {ServerFormat, ConfigFormat} \subseteq Formats
  /\ ServerDimension \in Dimensions
  /\ MaxUiActions \in Nat /\ MaxChanges \in Nat

VARIABLES
  pc,                    \* [{"core", "ui", "notifier"} -> where the thread is]
  loc,                   \* [{"core", "ui"} -> locals of sendFbUpdateRequest()]
  m_isNeedRequestUpdate, m_isFreeze, m_isRefreshing,
  m_isNewPixelFormat, m_viewerPixelFormat, m_wasConnected,
  m_frameBuffer,         \* [dim, format, pixels]
  reading,               \* what is left of the update the core reads
  rect,                  \* the rectangle it has copied, or {}
  m_update, m_isNewSize, m_eventUpdate,
  taken,                 \* what the notifier has moved to its locals
  window,                \* what the DesktopWindow shows
  m_socketStream,        \* "none", "open" or "closed"
  m_terminated,          \* [{"core", "notifier"} -> BOOLEAN], of the threads
  toServer, toViewer,    \* messages under way, in order
  server,                \* the other end
  uiActions, changes

formatVars == <<m_isNewPixelFormat, m_viewerPixelFormat>>
updateVars == <<m_isFreeze, m_wasConnected, formatVars>>
coreVars == <<m_isNeedRequestUpdate, m_isRefreshing, updateVars>>
readVars == <<reading, rect>>
notifierVars == <<m_update, m_isNewSize, m_eventUpdate>>
paintVars == <<taken, window>>
stopVars == <<m_socketStream, m_terminated>>
net == <<toServer, toViewer, server>>
bounds == <<uiActions, changes>>
world == <<stopVars, net, bounds>>
vars == <<pc, loc, coreVars, m_frameBuffer, readVars, notifierVars, paintVars,
          world>>

--------------------------------------------------------------------------------
Threads == {"core", "ui", "notifier"}
Senders == {"core", "ui"}
Black == [p \in Parts |-> 0]
Pixels == [Parts -> 0 .. MaxChanges + 1]
FrameBuffer == [dim : SUBSET Parts, format : Formats, pixels : Pixels]
NothingToRead == [type |-> "none"]
NothingTaken == [isNewSize |-> FALSE, update |-> {}]

Goto(t, label) == pc' = [pc EXCEPT ![t] = label]

\* The pictures of a full answer or of an incremental one.
Rectangles(update) == [type |-> "rects", format |-> server.format,
                       parts |-> update, pixels |-> server.pixels]

InitialLocals == [incremental |-> TRUE, format |-> ServerFormat,
                  isUpdateFbProperties |-> FALSE]

Init ==
  /\ pc = [t \in Threads |-> CASE t = "core" -> "connecting"
                               [] t = "ui" -> "idle"
                               [] t = "notifier" -> "adapter"]
  /\ loc = [t \in Senders |-> InitialLocals]
  /\ m_isNeedRequestUpdate = TRUE /\ m_isFreeze = FALSE
  /\ m_isRefreshing = FALSE /\ m_isNewPixelFormat = FALSE
  /\ m_viewerPixelFormat = ServerFormat /\ m_wasConnected = FALSE
  /\ m_frameBuffer = [dim |-> {}, format |-> ServerFormat, pixels |-> Black]
  /\ reading = NothingToRead /\ rect = {}
  /\ m_update = {} /\ m_isNewSize = FALSE
  /\ m_eventUpdate = TRUE                     \* by setAdapter() of start()
  /\ taken = NothingTaken
  /\ window = m_frameBuffer
  /\ m_socketStream = "none"
  /\ m_terminated = [t \in {"core", "notifier"} |-> FALSE]
  /\ toServer = <<>> /\ toViewer = <<>>
  /\ server = [dim |-> ServerDimension, format |-> ServerFormat,
               pixels |-> [p \in Parts |-> 1], greeted |-> FALSE,
               dirty |-> {}, resized |-> FALSE, request |-> "none"]
  /\ uiActions = 0 /\ changes = 0

--------------------------------------------------------------------------------
(* RemoteViewerCore::setFbProperties(), called with m_fbLock: the buffers  *)
(* are new and black, all is to be asked for again, and the notifier       *)
(* forgets the rectangles of the old ones.                                 *)
SetFbProperties(dim, format) ==
  /\ m_frameBuffer' = [dim |-> dim, format |-> format, pixels |-> Black]
  /\ m_isRefreshing' = TRUE
  /\ m_update' = {} /\ m_isNewSize' = TRUE /\ m_eventUpdate' = TRUE

(* sendFbUpdateRequest(), by the core after an update and by the user      *)
(* interface when the pause is over.  Its locals are dead when it returns. *)
Returned(t) == IF t = "core" THEN "receive" ELSE "idle"

\* Mutant: the right to ask is looked at, not taken.
TakeNeedKept(t) ==
  /\ pc[t] = "need"
  /\ IF m_isNeedRequestUpdate
     THEN Goto(t, "format") /\ UNCHANGED loc
     ELSE Goto(t, Returned(t)) /\ loc' = [loc EXCEPT ![t] = InitialLocals]
  /\ UNCHANGED <<coreVars, m_frameBuffer, readVars, notifierVars, paintVars,
                 world>>

TakeNeed(t) ==
  /\ pc[t] = "need"
  /\ m_isNeedRequestUpdate' = FALSE
  /\ IF m_isNeedRequestUpdate
     THEN Goto(t, "format") /\ UNCHANGED loc
     ELSE Goto(t, Returned(t)) /\ loc' = [loc EXCEPT ![t] = InitialLocals]
  /\ UNCHANGED <<m_isRefreshing, updateVars, m_frameBuffer, readVars,
                 notifierVars, paintVars, world>>

\* updatePixelFormat(), with m_pixelFormatLock.
TakeFormat(t) ==
  /\ pc[t] = "format"
  /\ m_isNewPixelFormat' = FALSE
  /\ loc' = [loc EXCEPT ![t].format = m_viewerPixelFormat]
  /\ Goto(t, IF m_isNewPixelFormat THEN "apply" ELSE "refresh")
  /\ UNCHANGED <<m_isNeedRequestUpdate, m_isRefreshing, m_isFreeze,
                 m_wasConnected, m_viewerPixelFormat, m_frameBuffer, readVars,
                 notifierVars, paintVars, world>>

\* updatePixelFormat(), with m_fbLock.
ApplyFormat(t) ==
  /\ pc[t] = "apply"
  /\ IF loc[t].format = m_frameBuffer.format
     THEN /\ Goto(t, "refresh")
          /\ UNCHANGED <<m_isRefreshing, m_frameBuffer, notifierVars>>
     ELSE /\ Goto(t, "sendFormat")
          /\ SetFbProperties(m_frameBuffer.dim, loc[t].format)
  /\ UNCHANGED <<loc, m_isNeedRequestUpdate, updateVars, readVars, paintVars,
                 world>>

(* A message is written and flushed with the output locked.  On a closed   *)
(* stream the write fails, which ends the thread of the core.              *)
Send(t, message, next) ==
  /\ IF m_socketStream = "open"
     THEN toServer' = Append(toServer, message) /\ Goto(t, next)
     ELSE UNCHANGED toServer /\ Goto(t, "ended")
  /\ UNCHANGED <<coreVars, m_frameBuffer, readVars, notifierVars, paintVars,
                 stopVars, toViewer, server, bounds>>

SendFormat(t) ==
  /\ pc[t] = "sendFormat"
  /\ loc' = [loc EXCEPT ![t].isUpdateFbProperties = TRUE]
  /\ Send(t, [type |-> "format", format |-> loc[t].format], "refresh")

\* With m_refreshingLock.
TakeRefreshing(t) ==
  /\ pc[t] = "refresh"
  /\ m_isRefreshing' = FALSE
  /\ loc' = [loc EXCEPT ![t] = [InitialLocals EXCEPT !.incremental =
                /\ loc[t].incremental /\ ~m_isRefreshing
                /\ ~loc[t].isUpdateFbProperties]]
  /\ Goto(t, "sendRequest")
  /\ UNCHANGED <<m_isNeedRequestUpdate, updateVars, m_frameBuffer, readVars,
                 notifierVars, paintVars, world>>

\* Only the thread that may ask changes the dimension it asks for.
SendRequest(t) ==
  /\ pc[t] = "sendRequest"
  /\ Send(t, [type |-> "request", incremental |-> loc[t].incremental,
              dim |-> m_frameBuffer.dim], Returned(t))
  /\ loc' = [loc EXCEPT ![t] = InitialLocals]

SendFbUpdateRequest(t) ==
  \/ TakeNeed(t) \/ TakeFormat(t) \/ ApplyFormat(t) \/ SendFormat(t)
  \/ TakeRefreshing(t) \/ SendRequest(t)

--------------------------------------------------------------------------------
(* RemoteViewerCore::execute()                                             *)

\* connectToHost(): the stream, which close() closes, exists at its end.
Connect ==
  /\ pc["core"] = "connecting"
  /\ m_socketStream' = "open"
  /\ Goto("core", "handshake")
  /\ UNCHANGED <<loc, coreVars, m_frameBuffer, readVars, notifierVars,
                 paintVars, m_terminated, net, bounds>>

\* A read from a closed stream throws, and the thread ends.
ReadFails ==
  /\ pc["core"] \in {"handshake", "receive", "rect"}
  /\ m_socketStream = "closed"
  /\ Goto("core", "ended")
  /\ UNCHANGED <<loc, coreVars, m_frameBuffer, readVars, notifierVars,
                 paintVars, world>>

\* handshake(), authenticate() and clientAndServerInit().
Handshake ==
  /\ pc["core"] = "handshake" /\ m_socketStream = "open"
  /\ toViewer # <<>>
  /\ toViewer' = Tail(toViewer)
  /\ SetFbProperties(Head(toViewer).dim, Head(toViewer).format)
  /\ Goto("core", "onConnected")
  /\ UNCHANGED <<loc, m_isNeedRequestUpdate, updateVars, readVars, paintVars,
                 stopVars, toServer, server, bounds>>

\* ViewerWindow::viewerCoreSettings() wakes the notifier for the cursor, and
\* sets the pixel format.
ApplySettings(format) ==
  /\ m_eventUpdate' = TRUE
  /\ m_isNewPixelFormat' = TRUE /\ m_viewerPixelFormat' = format
  /\ UNCHANGED <<m_isNeedRequestUpdate, m_isRefreshing, m_isFreeze,
                 m_wasConnected, m_update, m_isNewSize>>

\* onConnected() shows the window: from here on the user can act.
OnConnected ==
  /\ pc["core"] = "onConnected"
  /\ ApplySettings(ConfigFormat)
  /\ Goto("core", "wasConnected")
  /\ UNCHANGED <<loc, m_frameBuffer, readVars, paintVars, world>>

\* sendEncodings() follows, and sendFbUpdateRequest(false).
SetConnected ==
  /\ pc["core"] = "wasConnected"
  /\ m_wasConnected' = TRUE
  /\ loc' = [loc EXCEPT !["core"].incremental = FALSE]
  /\ Goto("core", "need")
  /\ UNCHANGED <<m_isNeedRequestUpdate, m_isRefreshing, m_isFreeze, formatVars,
                 m_frameBuffer, readVars, notifierVars, paintVars, world>>

\* The loop over the messages of the server ends when stop() was called.
LoopEnds ==
  /\ pc["core"] = "receive" /\ m_terminated["core"]
  /\ Goto("core", "ended")
  /\ UNCHANGED <<loc, coreVars, m_frameBuffer, readVars, notifierVars,
                 paintVars, world>>

\* receiveServerMessageType() and the head of receiveFbUpdate().
ReceiveFbUpdate ==
  /\ pc["core"] = "receive" /\ ~m_terminated["core"]
  /\ m_socketStream = "open" /\ toViewer # <<>>
  /\ reading' = Head(toViewer) /\ toViewer' = Tail(toViewer)
  /\ Goto("core", "rect")
  /\ UNCHANGED <<loc, coreVars, m_frameBuffer, rect, notifierVars, paintVars,
                 stopVars, toServer, server, bounds>>

\* A rectangle is decoded and copied to the frame buffer with m_fbLock.
ReceiveRectangle(p) ==
  /\ pc["core"] = "rect" /\ m_socketStream = "open"
  /\ reading.type = "rects" /\ p \in reading.parts
  /\ m_frameBuffer' = [m_frameBuffer EXCEPT !.pixels[p] = reading.pixels[p]]
  /\ reading' = [reading EXCEPT !.parts = @ \ {p}]
  /\ rect' = {p}
  /\ Goto("core", "onUpdate")
  /\ UNCHANGED <<loc, coreVars, notifierVars, paintVars, world>>

\* FbUpdateNotifier::onUpdate() adds the rectangle, then it notifies.
OnUpdate ==
  /\ pc["core"] = "onUpdate"
  /\ m_update' = m_update \cup rect
  /\ rect' = {}
  /\ Goto("core", "notify")
  /\ UNCHANGED <<loc, coreVars, m_frameBuffer, reading, m_isNewSize,
                 m_eventUpdate, paintVars, world>>

Notify ==
  /\ pc["core"] = "notify"
  /\ m_eventUpdate' = TRUE
  /\ Goto("core", "rect")
  /\ UNCHANGED <<loc, coreVars, m_frameBuffer, readVars, m_update, m_isNewSize,
                 paintVars, world>>

\* Mutant: the new buffer has the format the user wants, not the agreed one.
ReceiveDesktopSizeAsWanted ==
  /\ pc["core"] = "rect" /\ m_socketStream = "open"
  /\ reading.type = "size"
  /\ SetFbProperties(reading.dim, m_viewerPixelFormat)
  /\ reading' = [type |-> "rects", format |-> m_viewerPixelFormat,
                 parts |-> {}, pixels |-> Black]
  /\ UNCHANGED <<pc, loc, m_isNeedRequestUpdate, updateVars, rect, paintVars,
                 world>>

\* processPseudoEncoding(): the desktop has a new size.
ReceiveDesktopSize ==
  /\ pc["core"] = "rect" /\ m_socketStream = "open"
  /\ reading.type = "size"
  /\ SetFbProperties(reading.dim, m_frameBuffer.format)
  /\ reading' = [type |-> "rects", format |-> m_frameBuffer.format,
                 parts |-> {}, pixels |-> Black]
  /\ UNCHANGED <<pc, loc, m_isNeedRequestUpdate, updateVars, rect, paintVars,
                 world>>

\* Mutant: while paused, the need of an update is not noted.
UpdateIsReadUnlessPaused ==
  /\ pc["core"] = "rect"
  /\ reading.type = "rects" /\ reading.parts = {}
  /\ reading' = NothingToRead
  /\ m_isNeedRequestUpdate' = ~m_isFreeze
  /\ Goto("core", "freeze")
  /\ UNCHANGED <<loc, m_isRefreshing, updateVars, m_frameBuffer, rect,
                 notifierVars, paintVars, world>>

\* The end of receiveFbUpdate(): the next request is needed from now on.
UpdateIsRead ==
  /\ pc["core"] = "rect"
  /\ reading.type = "rects" /\ reading.parts = {}
  /\ reading' = NothingToRead
  /\ m_isNeedRequestUpdate' = TRUE
  /\ Goto("core", "freeze")
  /\ UNCHANGED <<loc, m_isRefreshing, updateVars, m_frameBuffer, rect,
                 notifierVars, paintVars, world>>

CheckFreeze ==
  /\ pc["core"] = "freeze"
  /\ Goto("core", IF m_isFreeze THEN "receive" ELSE "need")
  /\ UNCHANGED <<loc, coreVars, m_frameBuffer, readVars, notifierVars,
                 paintVars, world>>

Core ==
  \/ Connect \/ ReadFails \/ Handshake \/ OnConnected \/ SetConnected
  \/ LoopEnds
  \/ ReceiveFbUpdate \/ OnUpdate \/ Notify \/ ReceiveDesktopSize
  \/ \E p \in Parts : ReceiveRectangle(p)
  \/ UpdateIsRead \/ CheckFreeze
  \/ SendFbUpdateRequest("core")

--------------------------------------------------------------------------------
(* FbUpdateNotifier::execute()                                             *)

\* Nothing is told before the adapter is set, which start() has done.
WaitAdapter ==
  /\ pc["notifier"] = "adapter" /\ m_eventUpdate
  /\ m_eventUpdate' = FALSE
  /\ Goto("notifier", "loop")
  /\ UNCHANGED <<loc, coreVars, m_frameBuffer, readVars, m_update, m_isNewSize,
                 paintVars, world>>

NotifierEnds ==
  /\ pc["notifier"] = "loop" /\ m_terminated["notifier"]
  /\ Goto("notifier", "ended")
  /\ UNCHANGED <<loc, coreVars, m_frameBuffer, readVars, notifierVars,
                 paintVars, world>>

\* What is to be told is moved to locals with m_updateLock.
TakeUpdate ==
  /\ pc["notifier"] = "loop" /\ ~m_terminated["notifier"]
  /\ taken' = [isNewSize |-> m_isNewSize, update |-> m_update]
  /\ m_isNewSize' = FALSE /\ m_update' = {}
  /\ Goto("notifier", CASE m_isNewSize -> "newSize"
                        [] ~m_isNewSize /\ m_update # {} -> "update"
                        [] OTHER -> "wait")
  /\ UNCHANGED <<loc, coreVars, m_frameBuffer, readVars, m_eventUpdate, window,
                 world>>

\* With m_fbLock: the window takes the properties, then the whole picture.
TellNewSize ==
  /\ pc["notifier"] = "newSize"
  /\ window' = m_frameBuffer
  /\ taken' = [taken EXCEPT !.isNewSize = FALSE]
  /\ Goto("notifier", IF taken.update # {} THEN "update" ELSE "loop")
  /\ UNCHANGED <<loc, coreVars, m_frameBuffer, readVars, notifierVars, world>>

\* Mutant: the rectangles are cleared when they have been told, not when they
\* are taken.
TellUpdateAndClear ==
  /\ pc["notifier"] = "update"
  /\ window' = IF window.format = m_frameBuffer.format
               THEN [window EXCEPT !.pixels =
                       [p \in Parts |-> IF p \in taken.update
                                        THEN m_frameBuffer.pixels[p] ELSE @[p]]]
               ELSE window
  /\ taken' = NothingTaken /\ m_update' = {}
  /\ Goto("notifier", "loop")
  /\ UNCHANGED <<loc, coreVars, m_frameBuffer, readVars, m_isNewSize,
                 m_eventUpdate, world>>

(* With m_fbLock: the window is told the rectangles.  It copies them only  *)
(* from a frame buffer of its own format.                                  *)
TellUpdate ==
  /\ pc["notifier"] = "update"
  /\ window' = IF window.format = m_frameBuffer.format
               THEN [window EXCEPT !.pixels =
                       [p \in Parts |-> IF p \in taken.update
                                        THEN m_frameBuffer.pixels[p] ELSE @[p]]]
               ELSE window
  /\ taken' = NothingTaken
  /\ Goto("notifier", "loop")
  /\ UNCHANGED <<loc, coreVars, m_frameBuffer, readVars, notifierVars, world>>

WaitForEvent ==
  /\ pc["notifier"] = "wait" /\ m_eventUpdate
  /\ m_eventUpdate' = FALSE
  /\ Goto("notifier", "loop")
  /\ UNCHANGED <<loc, coreVars, m_frameBuffer, readVars, m_update, m_isNewSize,
                 paintVars, world>>

Notifier == WaitAdapter \/ NotifierEnds \/ TakeUpdate \/ TellNewSize
            \/ TellUpdate \/ WaitForEvent

--------------------------------------------------------------------------------
(* The user interface                                                      *)

\* Mutant: the buttons work before the connection is there.
WindowShownAtOnce == TRUE

WindowIsShown == pc["core"] \notin {"connecting", "handshake", "onConnected"}

UiMayAct == /\ pc["ui"] = "idle" /\ uiActions < MaxUiActions
            /\ uiActions' = uiActions + 1

\* commandPause() toggles: stopUpdating() asks for an update when it is over.
StopUpdating ==
  /\ UiMayAct /\ WindowIsShown
  /\ m_isFreeze' = ~m_isFreeze
  /\ Goto("ui", IF m_isFreeze THEN "need" ELSE "idle")
  /\ UNCHANGED <<loc, m_isNeedRequestUpdate, m_isRefreshing, m_wasConnected,
                 formatVars, m_frameBuffer, readVars, notifierVars, paintVars,
                 stopVars, net, changes>>

RefreshFrameBuffer ==
  /\ UiMayAct /\ WindowIsShown
  /\ m_isRefreshing' = TRUE
  /\ UNCHANGED <<pc, loc, m_isNeedRequestUpdate, updateVars, m_frameBuffer,
                 readVars, notifierVars, paintVars, stopVars, net, changes>>

ChangeSettings(format) ==
  /\ UiMayAct /\ WindowIsShown
  /\ format # m_viewerPixelFormat
  /\ ApplySettings(format)
  /\ UNCHANGED <<pc, loc, m_frameBuffer, readVars, paintVars, stopVars, net,
                 changes>>

(* stop(), by the destructor of the ViewerInstance in the thread of the    *)
(* user interface: the stream is closed if there is one already, then the  *)
(* notifier is terminated, then the core.                                  *)
CloseConnection ==
  /\ pc["ui"] = "idle"
  /\ m_socketStream' = IF m_socketStream = "none" THEN "none" ELSE "closed"
  /\ toServer' = <<>> /\ toViewer' = <<>>
  /\ Goto("ui", "terminate")
  /\ UNCHANGED <<loc, coreVars, m_frameBuffer, readVars, notifierVars,
                 paintVars, m_terminated, server, bounds>>

\* Mutant: the notifier is not woken to see the flag.
OnTerminateSilent ==
  /\ pc["ui"] = "onTerminate"
  /\ m_terminated' = [m_terminated EXCEPT !["core"] = TRUE]
  /\ Goto("ui", "stopped")
  /\ UNCHANGED <<loc, coreVars, m_frameBuffer, readVars, notifierVars,
                 paintVars, m_socketStream, net, bounds>>

\* Thread::terminate() sets the flag and calls onTerminate().
TerminateNotifier ==
  /\ pc["ui"] = "terminate"
  /\ m_terminated' = [m_terminated EXCEPT !["notifier"] = TRUE]
  /\ Goto("ui", "onTerminate")
  /\ UNCHANGED <<loc, coreVars, m_frameBuffer, readVars, notifierVars,
                 paintVars, m_socketStream, net, bounds>>

OnTerminate ==
  /\ pc["ui"] = "onTerminate"
  /\ m_eventUpdate' = TRUE
  /\ m_terminated' = [m_terminated EXCEPT !["core"] = TRUE]
  /\ Goto("ui", "stopped")
  /\ UNCHANGED <<loc, coreVars, m_frameBuffer, readVars, m_update, m_isNewSize,
                 paintVars, m_socketStream, net, bounds>>

\* The rest of a call, as opposed to a call the user may make or not.
UiGoesOn == TerminateNotifier \/ OnTerminate
            \/ SendFbUpdateRequest("ui")
Ui == \/ StopUpdating \/ RefreshFrameBuffer
      \/ \E f \in Formats : ChangeSettings(f)
      \/ CloseConnection \/ UiGoesOn

--------------------------------------------------------------------------------
(* The server (external): it works through the messages in order, answers  *)
(* every request with one update, an incremental one when something has    *)
(* changed, and encodes in the format it was last told.  What it does      *)
(* after the end of the connection is of no interest.                      *)
viewerVars == <<pc, loc, coreVars, m_frameBuffer, readVars, notifierVars,
                paintVars, stopVars, uiActions>>

ServerGreets ==
  /\ ~server.greeted /\ m_socketStream = "open"
  /\ server' = [server EXCEPT !.greeted = TRUE]
  /\ toViewer' = Append(toViewer, [type |-> "init", dim |-> server.dim,
                                   format |-> server.format])
  /\ UNCHANGED <<viewerVars, toServer, changes>>

ServerChanges(p) ==
  /\ m_socketStream = "open"
  /\ changes < MaxChanges /\ changes' = changes + 1
  /\ p \in server.dim
  /\ server' = [server EXCEPT !.pixels[p] = changes + 2, !.dirty = @ \cup {p}]
  /\ UNCHANGED <<viewerVars, toServer, toViewer>>

ServerResizes(dim) ==
  /\ m_socketStream = "open"
  /\ changes < MaxChanges /\ changes' = changes + 1
  /\ server.greeted /\ dim # server.dim
  /\ server' = [server EXCEPT !.dim = dim, !.dirty = dim, !.resized = TRUE,
                              !.pixels = [p \in Parts |-> changes + 2]]
  /\ UNCHANGED <<viewerVars, toServer, toViewer>>

ServerReads ==
  /\ m_socketStream = "open"
  /\ toServer # <<>>
  /\ toServer' = Tail(toServer)
  /\ server' = IF Head(toServer).type = "format"
               THEN [server EXCEPT !.format = Head(toServer).format]
               ELSE [server EXCEPT !.request = IF Head(toServer).incremental
                                               THEN "incremental" ELSE "full"]
  /\ UNCHANGED <<viewerVars, toViewer, changes>>

ServerAnswers ==
  /\ m_socketStream = "open"
  /\ \/ server.request = "full"
     \/ server.request = "incremental" /\ (server.dirty # {} \/ server.resized)
  /\ IF server.resized
     THEN /\ toViewer' = Append(toViewer, [type |-> "size", dim |-> server.dim])
          /\ server' = [server EXCEPT !.request = "none", !.resized = FALSE]
     ELSE /\ toViewer' = Append(toViewer, Rectangles(
                IF server.request = "full" THEN server.dim ELSE server.dirty))
          /\ server' = [server EXCEPT !.request = "none", !.dirty = {}]
  /\ UNCHANGED <<viewerVars, toServer, changes>>

Server == \/ ServerGreets \/ ServerReads \/ ServerAnswers
          \/ \E p \in Parts : ServerChanges(p)
          \/ \E dim \in Dimensions : ServerResizes(dim)

--------------------------------------------------------------------------------
Next == Core \/ Notifier \/ Ui \/ Server

(* Every thread of the viewer goes on when it can.  The server answers     *)
(* what it is asked; that it greets is assumed nowhere, and neither that   *)
(* its desktop changes or that the user does anything.                     *)
Fairness == /\ WF_vars(Core) /\ WF_vars(Notifier) /\ WF_vars(UiGoesOn)
            /\ WF_vars(ServerReads) /\ WF_vars(ServerAnswers)

Spec == Init /\ [][Next]_vars
LiveSpec == Spec /\ Fairness

--------------------------------------------------------------------------------
(* The state has its shape.  The labels of the user's thread are without   *)
(* "ended": it writes to m_output without a check that it exists, and      *)
(* never does before the connection is there or after it is closed.        *)
Requesting == {"need", "format", "apply", "sendFormat", "refresh", "sendRequest"}
ViewerTypeOK ==
  /\ pc["core"] \in Requesting \cup
       {"connecting", "handshake", "onConnected", "wasConnected", "receive",
        "rect", "onUpdate", "notify", "freeze", "ended"}
  /\ pc["ui"] \in Requesting \cup {"idle", "terminate", "onTerminate", "stopped"}
  /\ pc["notifier"] \in {"adapter", "loop", "newSize", "update", "wait", "ended"}
  /\ m_isNeedRequestUpdate \in BOOLEAN /\ m_isFreeze \in BOOLEAN
  /\ m_isRefreshing \in BOOLEAN /\ m_isNewPixelFormat \in BOOLEAN
  /\ m_wasConnected \in BOOLEAN /\ m_viewerPixelFormat \in Formats
  /\ m_frameBuffer \in FrameBuffer
  /\ rect \subseteq Parts /\ m_update \subseteq Parts
  /\ m_isNewSize \in BOOLEAN /\ m_eventUpdate \in BOOLEAN
  /\ taken \in [isNewSize : BOOLEAN, update : SUBSET Parts]
  /\ window \in FrameBuffer
  /\ m_socketStream \in {"none", "open", "closed"}
  /\ m_terminated \in [{"core", "notifier"} -> BOOLEAN]

--------------------------------------------------------------------------------
Requests == {i \in DOMAIN toServer : toServer[i].type = "request"}
Updates == {i \in DOMAIN toViewer : toViewer[i].type # "init"}
One(condition) == IF condition THEN 1 ELSE 0
IsRequesting(t) == pc[t] \in Requesting \ {"need"}

(* m_isNeedRequestUpdate is the right to ask for an update, and there is   *)
(* exactly one: it is free, or a thread is about to ask, or the request or *)
(* its answer is under way or being read.  Core and user interface take it *)
(* from each other around every pause.                                     *)
OneRequestAtATime ==
  m_socketStream # "closed" =>
    One(m_isNeedRequestUpdate) + One(IsRequesting("core"))
    + One(IsRequesting("ui")) + Cardinality(Requests) + One(server.request # "none")
    + Cardinality(Updates) + One(reading # NothingToRead) = 1

(* The rectangles of an update are decoded with the pixel format and the   *)
(* dimension of the frame buffer, which either thread may change between   *)
(* two updates: the ones being read were encoded for them.                 *)
FormatAgreed ==
  reading.type = "rects" => /\ reading.format = m_frameBuffer.format
                            /\ reading.parts \subseteq m_frameBuffer.dim

(* What the window does not show yet is with the notifier or on its way to *)
(* it, and a notifier that has something to tell does not sleep for good.  *)
NothingIsForgotten ==
  LET redraw == m_isNewSize \/ taken.isNewSize
  IN /\ \/ redraw
        \/ /\ window.dim = m_frameBuffer.dim
           /\ window.format = m_frameBuffer.format
           /\ \A p \in m_frameBuffer.dim :
                \/ window.pixels[p] = m_frameBuffer.pixels[p]
                \/ p \in m_update \cup taken.update \cup rect
     /\ pc["notifier"] = "wait" /\ ~m_eventUpdate =>
          /\ ~m_isNewSize
          /\ m_update = {} \/ pc["core"] = "notify"

(* Unless the user pauses or ends the session, the window comes to show    *)
(* what the server shows, whatever sizes, formats, refreshes and pauses    *)
(* came before, and stays so when nothing changes any more.                *)
Stopping == pc["ui"] \in {"terminate", "onTerminate", "stopped"}
ShowsTheDesktop ==
  /\ window = m_frameBuffer
  /\ m_frameBuffer.dim = server.dim
  /\ \A p \in server.dim : window.pixels[p] = server.pixels[p]
WindowCatchesUp ==
  <>[](\/ ~server.greeted \/ m_isFreeze \/ Stopping \/ ShowsTheDesktop)

(* When stop() has closed the stream, both threads come to their end,      *)
(* wherever they wait or work.                                             *)
ThreadsEnded == pc["core"] = "ended" /\ pc["notifier"] = "ended"
CloseEndsTheThreads == m_socketStream = "closed" ~> ThreadsEnded

(* What RemoteViewerCore.h says of stop(): it terminates all active        *)
(* threads.  It has no stream to close while the core connects.            *)
StopEndsTheThreads == pc["ui"] = "stopped" ~> ThreadsEnded

(* What CoreEventsAdapter.h says of onFrameBufferUpdate(): the rectangle   *)
(* is one of the frame buffer's.                                           *)
RectangleIsValid ==
  pc["notifier"] = "update" => taken.update \subseteq m_frameBuffer.dim
================================================================================
