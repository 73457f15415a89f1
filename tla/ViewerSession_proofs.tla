------------------------- MODULE ViewerSession_proofs -------------------------
(* Theorems about ViewerSession, for any desktop, formats and bounds.       *)
EXTENDS ViewerSession, FiniteSetTheorems, TLAPS

--------------------------------------------------------------------------------
(* Types.                                                                   *)

CoreLabels ==
  Requesting \cup
    {"connecting", "handshake", "onConnected", "wasConnected", "receive",
     "rect", "onUpdate", "notify", "freeze", "ended"}
UiLabels == Requesting \cup {"idle", "terminate", "onTerminate", "stopped"}
NotifierLabels == {"adapter", "loop", "newSize", "update", "wait", "ended"}

Labels == CoreLabels \cup UiLabels \cup NotifierLabels
Locals == [incremental : BOOLEAN, format : Formats,
           isUpdateFbProperties : BOOLEAN]

\* Before the window is shown the user has nothing to ask with.
Early == {"connecting", "handshake", "onConnected"}

\* The threads, and the stream they share.
ControlInv ==
  /\ pc \in [Threads -> Labels]
  /\ pc["core"] \in CoreLabels
  /\ pc["ui"] \in UiLabels
  /\ pc["notifier"] \in NotifierLabels
  /\ loc \in [Senders -> Locals]
  /\ m_socketStream \in {"none", "open", "closed"}
  /\ m_socketStream = "none" <=> pc["core"] = "connecting"
  /\ pc["ui"] = "idle" => m_socketStream # "closed"
  /\ pc["ui"] \in Requesting => /\ m_socketStream = "open"
                                /\ pc["core"] \notin Early
  /\ m_terminated \in [{"core", "notifier"} -> BOOLEAN]

FlagInv ==
  /\ m_isNeedRequestUpdate \in BOOLEAN /\ m_isFreeze \in BOOLEAN
  /\ m_isRefreshing \in BOOLEAN /\ m_isNewPixelFormat \in BOOLEAN
  /\ m_wasConnected \in BOOLEAN /\ m_viewerPixelFormat \in Formats
  /\ m_isNewSize \in BOOLEAN /\ m_eventUpdate \in BOOLEAN

Formatting == [type : {"format"}, format : Formats]
Asking == [type : {"request"}, incremental : BOOLEAN, dim : SUBSET Parts]
Greeting == [type : {"init"}, dim : SUBSET Parts, format : Formats]
Picture == [type : {"rects"}, format : Formats, parts : SUBSET Parts,
            pixels : Pixels]
Resizing == [type : {"size"}, dim : SUBSET Parts]

ServerState == [dim : SUBSET Parts, format : Formats, pixels : Pixels,
                greeted : BOOLEAN, dirty : SUBSET Parts, resized : BOOLEAN,
                request : {"none", "incremental", "full"}]

Answers == Picture \cup Resizing

\* Before the greeting is read there is nothing but the greeting.
Greeted == pc["core"] \notin {"connecting", "handshake"}

MessageInv ==
  /\ toServer \in Seq(Formatting \cup Asking)
  /\ reading \in {NothingToRead} \cup Answers
  /\ server \in ServerState
  /\ Greeted => /\ toViewer \in Seq(Answers)
                /\ server.greeted \/ m_socketStream = "closed"
  /\ ~Greeted =>
       /\ toServer = <<>> /\ server.request = "none"
       /\ reading = NothingToRead /\ m_isNeedRequestUpdate
       /\ \/ toViewer = <<>>
          \/ server.greeted /\ \E m \in Greeting : toViewer = <<m>>
  /\ m_socketStream = "closed" => toServer = <<>> /\ toViewer = <<>>

PictureInv ==
  /\ m_frameBuffer \in FrameBuffer /\ window \in FrameBuffer
  /\ rect \subseteq Parts /\ m_update \subseteq Parts
  /\ taken \in [isNewSize : BOOLEAN, update : SUBSET Parts]
  /\ changes \in 0 .. MaxChanges

TypeInv == ControlInv /\ FlagInv /\ MessageInv /\ PictureInv

\* The threads of the viewer as one list of steps.
LEMMA ControlStep ==
  ASSUME TypeInv, [Next]_vars
  PROVE  ControlInv'
<1> USE DEF ControlInv, CoreLabels, UiLabels, NotifierLabels, Labels,
            Requesting, Early, Goto, Threads, Senders
<1> USE DEF TypeInv
<1>1. ASSUME NEW t \in Senders, SendFbUpdateRequest(t) PROVE ControlInv'
  <2>1. CASE TakeNeed(t)
    <3>1. InitialLocals \in Locals
      BY ViewerAssumption DEF InitialLocals, Locals, ViewerAssumption
    <3>2. loc' = loc \/ loc' = [loc EXCEPT ![t] = InitialLocals]
      BY <2>1 DEF TakeNeed
    <3>3. loc' \in [Senders -> Locals]
      BY <1>1, <3>1, <3>2
    <3>4. /\ UNCHANGED stopVars /\ pc[t] = "need"
          /\ Goto(t, "format") \/ Goto(t, Returned(t))
      BY <2>1 DEF TakeNeed, world
    <3>5. CASE t = "core"
      BY <3>3, <3>4, <3>5 DEF Returned, stopVars
    <3>6. CASE t = "ui"
      BY <3>3, <3>4, <3>6 DEF Returned, stopVars
    <3> QED
      BY <1>1, <3>5, <3>6
  <2>2. CASE TakeFormat(t)
    BY <1>1, <2>2 DEF TakeFormat, Locals, FlagInv, world, stopVars
  <2>3. CASE ApplyFormat(t)
    BY <1>1, <2>3 DEF ApplyFormat, world, stopVars
  <2>4. CASE SendFormat(t)
    <3>1. /\ UNCHANGED stopVars /\ pc[t] = "sendFormat"
          /\ \/ m_socketStream = "open" /\ Goto(t, "refresh")
             \/ m_socketStream # "open" /\ Goto(t, "ended")
      BY <2>4 DEF SendFormat, Send, stopVars
    <3>2. loc' \in [Senders -> Locals]
      BY <1>1, <2>4 DEF SendFormat, Locals
    <3>3. CASE t = "core"
      BY <3>1, <3>2, <3>3 DEF stopVars
    <3>4. CASE t = "ui"
      BY <3>1, <3>2, <3>4 DEF stopVars
    <3> QED
      BY <1>1, <3>3, <3>4
  <2>5. CASE TakeRefreshing(t)
    BY <1>1, <2>5, ViewerAssumption
    DEF TakeRefreshing, InitialLocals, Locals, ViewerAssumption, FlagInv,
        world, stopVars
  <2>6. CASE SendRequest(t)
    <3>1. /\ UNCHANGED stopVars /\ pc[t] = "sendRequest"
          /\ \/ m_socketStream = "open" /\ Goto(t, Returned(t))
             \/ m_socketStream # "open" /\ Goto(t, "ended")
      BY <2>6 DEF SendRequest, Send, stopVars
    <3>2. loc' \in [Senders -> Locals]
      BY <1>1, <2>6, ViewerAssumption
      DEF SendRequest, InitialLocals, Locals, ViewerAssumption
    <3>3. CASE t = "core"
      BY <3>1, <3>2, <3>3 DEF stopVars, Returned
    <3>4. CASE t = "ui"
      BY <3>1, <3>2, <3>4 DEF stopVars, Returned
    <3> QED
      BY <1>1, <3>3, <3>4
  <2> QED
    BY <1>1, <2>1, <2>2, <2>3, <2>4, <2>5, <2>6 DEF SendFbUpdateRequest
<1>2. ASSUME Connect \/ ReadFails \/ Handshake PROVE ControlInv'
  <2>1. CASE Connect
    BY <2>1 DEF Connect
  <2>2. CASE ReadFails
    BY <2>2 DEF ReadFails, world, stopVars
  <2>3. CASE Handshake
    BY <2>3 DEF Handshake, stopVars
  <2> QED
    BY <1>2, <2>1, <2>2, <2>3
<1>3. ASSUME OnConnected \/ SetConnected \/ LoopEnds PROVE ControlInv'
  <2>1. CASE OnConnected
    BY <2>1 DEF OnConnected, world, stopVars
  <2>2. CASE SetConnected
    BY <2>2 DEF SetConnected, Locals, world, stopVars
  <2>3. CASE LoopEnds
    BY <2>3 DEF LoopEnds, world, stopVars
  <2> QED
    BY <1>3, <2>1, <2>2, <2>3
<1>4. ASSUME ReceiveFbUpdate \/ OnUpdate \/ Notify \/ ReceiveDesktopSize
             \/ \E p \in Parts : ReceiveRectangle(p)
      PROVE  ControlInv'
  BY <1>4
  DEF ReceiveFbUpdate, OnUpdate, Notify, ReceiveDesktopSize, ReceiveRectangle,
      world, stopVars
<1>5. ASSUME UpdateIsRead \/ CheckFreeze PROVE ControlInv'
  BY <1>5 DEF UpdateIsRead, CheckFreeze, world, stopVars
<1>6. ASSUME Notifier PROVE ControlInv'
  <2>1. /\ UNCHANGED <<loc, stopVars>>
        /\ \E label \in NotifierLabels : Goto("notifier", label)
    BY <1>6
    DEF Notifier, WaitAdapter, NotifierEnds, TakeUpdate, TellNewSize,
        TellUpdate, WaitForEvent, world
  <2> QED
    BY <2>1 DEF stopVars
<1>7. ASSUME StopUpdating \/ RefreshFrameBuffer
             \/ \E f \in Formats : ChangeSettings(f)
      PROVE  ControlInv'
  <2>1. CASE StopUpdating
    BY <2>1 DEF StopUpdating, UiMayAct, WindowIsShown, FlagInv, stopVars
  <2>2. CASE RefreshFrameBuffer
    BY <2>2 DEF RefreshFrameBuffer, stopVars
  <2>3. CASE \E f \in Formats : ChangeSettings(f)
    BY <2>3 DEF ChangeSettings, stopVars
  <2> QED
    BY <1>7, <2>1, <2>2, <2>3
<1>8. ASSUME CloseConnection \/ TerminateNotifier \/ OnTerminate
      PROVE  ControlInv'
  <2>1. CASE CloseConnection
    BY <2>1 DEF CloseConnection
  <2>2. CASE TerminateNotifier
    BY <2>2 DEF TerminateNotifier
  <2>3. CASE OnTerminate
    BY <2>3 DEF OnTerminate
  <2> QED
    BY <1>8, <2>1, <2>2, <2>3
<1>9. ASSUME Server \/ UNCHANGED vars PROVE ControlInv'
  BY <1>9
  DEF Server, ServerGreets, ServerReads, ServerAnswers, ServerChanges,
      ServerResizes, viewerVars, vars, world, stopVars
<1> QED
  BY <1>1, <1>2, <1>3, <1>4, <1>5, <1>6, <1>7, <1>8, <1>9
  DEF Next, Core, Ui, UiGoesOn

\* A frame buffer gets new properties.
LEMMA NewProperties ==
  ASSUME TypeInv, NEW dim \in SUBSET Parts, NEW format \in Formats,
         SetFbProperties(dim, format)
  PROVE  /\ m_frameBuffer' \in FrameBuffer /\ m_update' \subseteq Parts
         /\ m_isRefreshing' \in BOOLEAN /\ m_isNewSize' \in BOOLEAN
         /\ m_eventUpdate' \in BOOLEAN
<1>1. Black \in Pixels
  BY ViewerAssumption DEF Black, Pixels, ViewerAssumption
<1> QED
  BY <1>1 DEF SetFbProperties, FrameBuffer

LEMMA FlagStep ==
  ASSUME TypeInv, [Next]_vars
  PROVE  FlagInv'
<1> USE DEF TypeInv, FlagInv, coreVars, updateVars, formatVars, notifierVars
<1>1. ASSUME NEW t \in Senders, SendFbUpdateRequest(t) PROVE FlagInv'
  BY <1>1
  DEF SendFbUpdateRequest, TakeNeed, TakeFormat, ApplyFormat, SendFormat, Send,
      TakeRefreshing, SendRequest, SetFbProperties
<1>2. ASSUME Connect \/ ReadFails \/ Handshake PROVE FlagInv'
  BY <1>2 DEF Connect, ReadFails, Handshake, SetFbProperties
<1>3. ASSUME OnConnected \/ SetConnected \/ LoopEnds PROVE FlagInv'
  BY <1>3, ViewerAssumption
  DEF OnConnected, SetConnected, LoopEnds, ApplySettings, ViewerAssumption
<1>4. ASSUME ReceiveFbUpdate \/ OnUpdate \/ Notify \/ ReceiveDesktopSize
             \/ \E p \in Parts : ReceiveRectangle(p)
      PROVE  FlagInv'
  BY <1>4
  DEF ReceiveFbUpdate, OnUpdate, Notify, ReceiveDesktopSize, ReceiveRectangle,
      SetFbProperties
<1>5. ASSUME UpdateIsRead \/ CheckFreeze PROVE FlagInv'
  BY <1>5 DEF UpdateIsRead, CheckFreeze
<1>6. ASSUME Notifier PROVE FlagInv'
  BY <1>6
  DEF Notifier, WaitAdapter, NotifierEnds, TakeUpdate, TellNewSize, TellUpdate,
      WaitForEvent
<1>7. ASSUME StopUpdating \/ RefreshFrameBuffer
             \/ \E f \in Formats : ChangeSettings(f)
      PROVE  FlagInv'
  BY <1>7 DEF StopUpdating, RefreshFrameBuffer, ChangeSettings, ApplySettings
<1>8. ASSUME CloseConnection \/ TerminateNotifier \/ OnTerminate
      PROVE  FlagInv'
  BY <1>8 DEF CloseConnection, TerminateNotifier, OnTerminate
<1>9. ASSUME Server \/ UNCHANGED vars PROVE FlagInv'
  BY <1>9
  DEF Server, ServerGreets, ServerReads, ServerAnswers, ServerChanges,
      ServerResizes, viewerVars, vars
<1> QED
  BY <1>1, <1>2, <1>3, <1>4, <1>5, <1>6, <1>7, <1>8, <1>9
  DEF Next, Core, Ui, UiGoesOn, Senders
\* The channels, and what the core has read from them.
LEMMA MessageStep ==
  ASSUME TypeInv, [Next]_vars
  PROVE  MessageInv'
<1> USE DEF TypeInv, MessageInv, Greeted
<1>1. ASSUME NEW t \in Senders, SendFbUpdateRequest(t) PROVE MessageInv'
  <2>1. pc[t] \in Requesting /\ Greeted /\ (Greeted)'
    BY <1>1
    DEF SendFbUpdateRequest, TakeNeed, TakeFormat, ApplyFormat, SendFormat,
        Send, TakeRefreshing, SendRequest, Requesting, ControlInv, Senders,
        Threads, Early, Goto, Returned
  <2>2. /\ UNCHANGED <<reading, server, toViewer, m_socketStream>>
        /\ \/ UNCHANGED toServer
           \/ /\ m_socketStream = "open"
              /\ \E m \in Formatting \cup Asking : toServer' = Append(toServer, m)
    <3>1. CASE TakeNeed(t) \/ TakeFormat(t) \/ ApplyFormat(t) \/ TakeRefreshing(t)
      BY <3>1
      DEF TakeNeed, TakeFormat, ApplyFormat, TakeRefreshing, readVars, world,
          net, stopVars
    <3>2. CASE SendFormat(t)
      <4>1. [type |-> "format", format |-> loc[t].format] \in Formatting
        BY <1>1 DEF Formatting, ControlInv, Locals
      <4> QED
        BY <3>2, <4>1 DEF SendFormat, Send, readVars, stopVars
    <3>3. CASE SendRequest(t)
      <4>1. [type |-> "request", incremental |-> loc[t].incremental,
             dim |-> m_frameBuffer.dim] \in Asking
        BY <1>1 DEF Asking, ControlInv, Locals, PictureInv, FrameBuffer
      <4> QED
        BY <3>3, <4>1 DEF SendRequest, Send, readVars, stopVars
    <3> QED
      BY <1>1, <3>1, <3>2, <3>3 DEF SendFbUpdateRequest
  <2> QED
    BY <2>1, <2>2
<1>2. ASSUME Connect \/ ReadFails PROVE MessageInv'
  BY <1>2
  DEF Connect, ReadFails, Goto, ControlInv, Threads, Labels, CoreLabels, readVars,
      coreVars, world, net, stopVars
<1>3. ASSUME Handshake PROVE MessageInv'
  <2>1. /\ ~Greeted /\ m_socketStream = "open" /\ toViewer # <<>>
        /\ toViewer' = Tail(toViewer) /\ pc'["core"] = "onConnected"
        /\ UNCHANGED <<reading, server, toServer, m_socketStream>>
    BY <1>3 DEF Handshake, Goto, ControlInv, Threads, readVars, stopVars
  <2>2. server.greeted /\ toViewer' = <<>>
    BY <2>1
  <2>3. toViewer' \in Seq(Answers) /\ (Greeted)'
    <3>1. <<>> \in Seq(Answers)
      OBVIOUS
    <3> QED
      BY <2>1, <2>2, <3>1
  <2>4. /\ toServer' \in Seq(Formatting \cup Asking)
        /\ reading' \in {NothingToRead} \cup Answers
        /\ server' \in ServerState /\ server'.greeted
        /\ m_socketStream' = "open"
    BY <2>1, <2>2
  <2> HIDE DEF Greeted
  <2> QED
    BY <2>3, <2>4
<1>4. ASSUME OnConnected \/ SetConnected \/ LoopEnds PROVE MessageInv'
  BY <1>4
  DEF OnConnected, SetConnected, LoopEnds, Goto, ControlInv, Threads, readVars,
      world, net, stopVars
<1>5. ASSUME ReceiveFbUpdate PROVE MessageInv'
  <2>1. /\ Greeted /\ m_socketStream = "open" /\ toViewer # <<>>
        /\ toViewer' = Tail(toViewer) /\ reading' = Head(toViewer)
        /\ pc'["core"] = "rect"
        /\ UNCHANGED <<server, toServer, m_socketStream>>
    BY <1>5 DEF ReceiveFbUpdate, Goto, ControlInv, Threads, stopVars
  <2>2. toViewer' \in Seq(Answers) /\ reading' \in Answers
    BY <2>1
  <2> QED
    BY <2>1, <2>2
<1>6. ASSUME OnUpdate \/ Notify \/ CheckFreeze PROVE MessageInv'
  BY <1>6
  DEF OnUpdate, Notify, CheckFreeze, Goto, ControlInv, Threads, readVars, world,
      net, stopVars
<1>7. ASSUME \/ ReceiveDesktopSize \/ UpdateIsRead
             \/ \E p \in Parts : ReceiveRectangle(p)
      PROVE  MessageInv'
  <2>1. /\ Greeted /\ (Greeted)'
        /\ UNCHANGED <<server, toServer, toViewer, m_socketStream>>
    BY <1>7
    DEF ReceiveDesktopSize, UpdateIsRead, ReceiveRectangle, Goto, ControlInv,
        Threads, world, net, stopVars
  <2>2. reading' \in {NothingToRead} \cup Answers
    <3>1. CASE ReceiveDesktopSize
      <4>1. Black \in Pixels /\ m_frameBuffer.format \in Formats
        BY ViewerAssumption
        DEF Black, Pixels, PictureInv, FrameBuffer, ViewerAssumption
      <4> QED
        BY <3>1, <4>1 DEF ReceiveDesktopSize, Answers, Picture
    <3>2. CASE UpdateIsRead
      BY <3>2 DEF UpdateIsRead
    <3>3. CASE \E p \in Parts : ReceiveRectangle(p)
      <4>1. reading \in Picture
        BY <3>3 DEF ReceiveRectangle, Answers, Resizing, NothingToRead
      <4>2. reading' \in Picture
        BY <3>3, <4>1 DEF ReceiveRectangle, Picture
      <4> QED
        BY <4>2 DEF Answers
    <3> QED
      BY <1>7, <3>1, <3>2, <3>3
  <2> QED
    BY <2>1, <2>2
<1>8. ASSUME Notifier PROVE MessageInv'
  BY <1>8
  DEF Notifier, WaitAdapter, NotifierEnds, TakeUpdate, TellNewSize, TellUpdate,
      WaitForEvent, Goto, ControlInv, Threads, readVars, coreVars, world, net,
      stopVars
<1>9. ASSUME \/ StopUpdating \/ RefreshFrameBuffer \/ TerminateNotifier
             \/ OnTerminate \/ \E f \in Formats : ChangeSettings(f)
      PROVE  MessageInv'
  BY <1>9
  DEF StopUpdating, RefreshFrameBuffer, TerminateNotifier, OnTerminate,
      ChangeSettings, ApplySettings, Goto, ControlInv, Threads, readVars,
      coreVars, net, stopVars
<1>10. ASSUME CloseConnection PROVE MessageInv'
  BY <1>10
  DEF CloseConnection, Goto, ControlInv, Threads, readVars, coreVars
<1>11. ASSUME Server PROVE MessageInv'
  <2>1. UNCHANGED <<pc, reading, m_isNeedRequestUpdate, m_socketStream>>
        /\ m_socketStream = "open"
    BY <1>11
    DEF Server, ServerGreets, ServerReads, ServerAnswers, ServerChanges,
        ServerResizes, viewerVars, readVars, coreVars, stopVars
  <2>2. CASE ServerGreets
    <3>1. [type |-> "init", dim |-> server.dim, format |-> server.format]
            \in Greeting
      BY DEF Greeting, ServerState
    <3>2. ~Greeted /\ toViewer = <<>>
      BY <2>1, <2>2 DEF ServerGreets
    <3>3. \E m \in Greeting : toViewer' = <<m>>
      BY <2>2, <3>1, <3>2 DEF ServerGreets
    <3>4. /\ UNCHANGED toServer
          /\ server' \in ServerState
          /\ server'.greeted /\ server'.request = server.request
      BY <2>2 DEF ServerGreets, ServerState
    <3> QED
      BY <2>1, <3>2, <3>3, <3>4
  <2>3. CASE \/ \E p \in Parts : ServerChanges(p)
             \/ \E dim \in Dimensions : ServerResizes(dim)
    <3>1. changes + 2 \in 0 .. MaxChanges + 1
      <4>1. changes < MaxChanges
        BY <2>3 DEF ServerChanges, ServerResizes
      <4>2. changes \in 0 .. MaxChanges /\ MaxChanges \in Nat
        BY ViewerAssumption DEF PictureInv, ViewerAssumption
      <4> HIDE DEF TypeInv
      <4> QED
        BY <4>1, <4>2
    <3>2. /\ server' \in ServerState
          /\ server'.greeted = server.greeted
          /\ server'.request = server.request
      <4>1. ASSUME NEW p \in Parts, ServerChanges(p)
            PROVE  /\ server' \in ServerState
                   /\ server'.greeted = server.greeted
                   /\ server'.request = server.request
        <5>1. server' = [server EXCEPT !.pixels[p] = changes + 2,
                                       !.dirty = @ \cup {p}]
          BY <4>1 DEF ServerChanges
        <5>2. server.pixels \in Pixels /\ server \in ServerState
          BY DEF ServerState
        <5>3. [server.pixels EXCEPT ![p] = changes + 2] \in Pixels
          BY <3>1, <5>2 DEF Pixels
        <5> HIDE DEF TypeInv, MessageInv
        <5> QED
          BY <5>1, <5>2, <5>3 DEF ServerState
      <4>2. ASSUME NEW dim \in Dimensions, ServerResizes(dim)
            PROVE  /\ server' \in ServerState
                   /\ server'.greeted = server.greeted
                   /\ server'.request = server.request
        <5>1. server' = [server EXCEPT !.dim = dim, !.dirty = dim,
                           !.resized = TRUE,
                           !.pixels = [part \in Parts |-> changes + 2]]
          BY <4>2 DEF ServerResizes
        <5>2. dim \in SUBSET Parts /\ server \in ServerState
          BY ViewerAssumption DEF ViewerAssumption
        <5>3. [part \in Parts |-> changes + 2] \in Pixels
          BY <3>1 DEF Pixels
        <5> HIDE DEF TypeInv, MessageInv
        <5> QED
          BY <5>1, <5>2, <5>3 DEF ServerState
      <4> QED
        BY <2>3, <4>1, <4>2
    <3>3. UNCHANGED <<toServer, toViewer>>
      BY <2>3 DEF ServerChanges, ServerResizes
    <3> QED
      BY <2>1, <3>2, <3>3
  <2>4. CASE ServerReads
    <3>1. toServer # <<>> /\ toServer' = Tail(toServer) /\ UNCHANGED toViewer
      BY <2>4 DEF ServerReads
    <3>2. Head(toServer) \in Formatting \cup Asking
          /\ toServer' \in Seq(Formatting \cup Asking)
      BY <3>1
    <3>3. server' \in ServerState /\ server'.greeted = server.greeted
      BY <2>4, <3>2 DEF ServerReads, ServerState, Formatting, Asking
    <3> QED
      BY <2>1, <3>1, <3>2, <3>3
  <2>5. CASE ServerAnswers
    <3>1. Greeted
      BY <2>5 DEF ServerAnswers
    <3>2. /\ UNCHANGED toServer
          /\ server' \in ServerState /\ server'.greeted = server.greeted
          /\ \E m \in Answers : toViewer' = Append(toViewer, m)
      <4>1. [type |-> "size", dim |-> server.dim] \in Answers
        BY DEF ServerState, Answers, Resizing
      <4>2. \A update \in SUBSET Parts : Rectangles(update) \in Answers
        BY DEF Rectangles, ServerState, Answers, Picture
      <4> QED
        BY <2>5, <4>1, <4>2 DEF ServerAnswers, ServerState
    <3> QED
      BY <2>1, <3>1, <3>2
  <2> QED
    BY <1>11, <2>2, <2>3, <2>4, <2>5 DEF Server
<1>12. CASE UNCHANGED vars
  BY <1>12 DEF vars, readVars, coreVars, world, net, stopVars
<1> QED
  BY <1>1, <1>2, <1>3, <1>4, <1>5, <1>6, <1>7, <1>8, <1>9, <1>10, <1>11, <1>12
  DEF Next, Core, Ui, UiGoesOn, Senders
\* The frame buffer, and the rectangles on their way to the window.
LEMMA PictureStep ==
  ASSUME TypeInv, [Next]_vars
  PROVE  PictureInv'
<1> USE DEF TypeInv, PictureInv
<1>1. ASSUME NEW t \in Senders, SendFbUpdateRequest(t) PROVE PictureInv'
  <2>1. CASE \/ TakeNeed(t) \/ TakeFormat(t) \/ SendFormat(t)
             \/ TakeRefreshing(t) \/ SendRequest(t)
    BY <2>1
    DEF TakeNeed, TakeFormat, SendFormat, Send, TakeRefreshing, SendRequest,
        readVars, notifierVars, paintVars, world, bounds
  <2>2. CASE ApplyFormat(t)
    <3>1. m_frameBuffer.dim \in SUBSET Parts /\ loc[t].format \in Formats
      BY <1>1 DEF FrameBuffer, ControlInv, Locals
    <3>2. /\ m_frameBuffer' \in FrameBuffer /\ m_update' \subseteq Parts
      BY <2>2, <3>1, NewProperties DEF ApplyFormat, notifierVars
    <3> QED
      BY <2>2, <3>2 DEF ApplyFormat, readVars, paintVars, world, bounds
  <2> QED
    BY <1>1, <2>1, <2>2 DEF SendFbUpdateRequest
<1>2. ASSUME \/ Connect \/ ReadFails \/ OnConnected \/ SetConnected
             \/ LoopEnds \/ ReceiveFbUpdate \/ Notify \/ UpdateIsRead
             \/ CheckFreeze
      PROVE  PictureInv'
  BY <1>2
  DEF Connect, ReadFails, OnConnected, ApplySettings, SetConnected, LoopEnds,
      ReceiveFbUpdate, Notify, UpdateIsRead, CheckFreeze, readVars,
      notifierVars, paintVars, world, bounds
<1>3. ASSUME Handshake PROVE PictureInv'
  <2>1. \E m \in Greeting : toViewer = <<m>>
    BY <1>3 DEF Handshake, MessageInv, Greeted
  <2>2. /\ Head(toViewer).dim \in SUBSET Parts
        /\ Head(toViewer).format \in Formats
    BY <2>1 DEF Greeting
  <2>3. m_frameBuffer' \in FrameBuffer /\ m_update' \subseteq Parts
    BY <1>3, <2>2, NewProperties DEF Handshake
  <2> QED
    BY <1>3, <2>3 DEF Handshake, readVars, paintVars, bounds
<1>4. ASSUME NEW p \in Parts, ReceiveRectangle(p) PROVE PictureInv'
  <2>1. reading \in Picture
    BY <1>4 DEF ReceiveRectangle, MessageInv, Answers, Resizing, NothingToRead
  <2>2. [m_frameBuffer.pixels EXCEPT ![p] = reading.pixels[p]] \in Pixels
    BY <2>1 DEF Picture, Pixels, FrameBuffer
  <2>3. m_frameBuffer' = [m_frameBuffer EXCEPT !.pixels[p] = reading.pixels[p]]
    BY <1>4 DEF ReceiveRectangle
  <2>4. m_frameBuffer' \in FrameBuffer
    BY <2>2, <2>3 DEF FrameBuffer
  <2> QED
    BY <1>4, <2>4 DEF ReceiveRectangle, notifierVars, paintVars, world, bounds
<1>5. ASSUME OnUpdate PROVE PictureInv'
  BY <1>5 DEF OnUpdate, paintVars, world, bounds
<1>6. ASSUME ReceiveDesktopSize PROVE PictureInv'
  <2>1. reading.dim \in SUBSET Parts /\ m_frameBuffer.format \in Formats
    BY <1>6
    DEF ReceiveDesktopSize, MessageInv, Answers, Picture, Resizing,
        NothingToRead, FrameBuffer
  <2>2. m_frameBuffer' \in FrameBuffer /\ m_update' \subseteq Parts
    BY <1>6, <2>1, NewProperties DEF ReceiveDesktopSize
  <2> QED
    BY <1>6, <2>2 DEF ReceiveDesktopSize, paintVars, world, bounds
<1>7. ASSUME Notifier PROVE PictureInv'
  <2>1. CASE WaitAdapter \/ NotifierEnds \/ WaitForEvent
    BY <2>1
    DEF WaitAdapter, NotifierEnds, WaitForEvent, readVars, notifierVars,
        paintVars, world, bounds
  <2>4. CASE TakeUpdate
    <3>1. taken' \in [isNewSize : BOOLEAN, update : SUBSET Parts]
      BY <2>4 DEF TakeUpdate, FlagInv
    <3> QED
      BY <2>4, <3>1 DEF TakeUpdate, readVars, world, bounds
  <2>2. CASE TellNewSize
    BY <2>2 DEF TellNewSize, readVars, notifierVars, world, bounds
  <2>3. CASE TellUpdate
    <3>1. window' \in FrameBuffer
      <4> DEFINE told == [p \in Parts |-> IF p \in taken.update
                                          THEN m_frameBuffer.pixels[p]
                                          ELSE window.pixels[p]]
      <4>1. told \in Pixels
        BY DEF FrameBuffer, Pixels
      <4>2. window' = [window EXCEPT !.pixels = told] \/ window' = window
        BY <2>3 DEF TellUpdate
      <4> HIDE DEF told
      <4> QED
        BY <4>1, <4>2 DEF FrameBuffer
    <3>2. taken' \in [isNewSize : BOOLEAN, update : SUBSET Parts]
      BY <2>3 DEF TellUpdate, NothingTaken
    <3> QED
      BY <2>3, <3>1, <3>2
      DEF TellUpdate, readVars, notifierVars, world, bounds
  <2> QED
    BY <1>7, <2>1, <2>2, <2>3, <2>4 DEF Notifier
<1>8. ASSUME \/ StopUpdating \/ RefreshFrameBuffer \/ CloseConnection
             \/ TerminateNotifier \/ OnTerminate
             \/ \E f \in Formats : ChangeSettings(f)
      PROVE  PictureInv'
  BY <1>8
  DEF StopUpdating, RefreshFrameBuffer, CloseConnection, TerminateNotifier,
      OnTerminate, ChangeSettings, ApplySettings, readVars, notifierVars,
      paintVars, bounds
<1>9. ASSUME Server PROVE PictureInv'
  <2>1. UNCHANGED <<m_frameBuffer, readVars, notifierVars, paintVars>>
    BY <1>9
    DEF Server, ServerGreets, ServerReads, ServerAnswers, ServerChanges,
        ServerResizes, viewerVars
  <2>2. \/ UNCHANGED changes
        \/ changes < MaxChanges /\ changes' = changes + 1
    BY <1>9
    DEF Server, ServerGreets, ServerReads, ServerAnswers, ServerChanges,
        ServerResizes
  <2>3. changes' \in 0 .. MaxChanges
    BY <2>2, ViewerAssumption DEF ViewerAssumption
  <2> QED
    BY <2>1, <2>3 DEF readVars, notifierVars, paintVars
<1>10. CASE UNCHANGED vars
  BY <1>10 DEF vars, readVars, notifierVars, paintVars, world, bounds
<1> QED
  BY <1>1, <1>2, <1>3, <1>4, <1>5, <1>6, <1>7, <1>8, <1>9, <1>10
  DEF Next, Core, Ui, UiGoesOn, Senders

LEMMA TypesInitially == Init => TypeInv
<1> SUFFICES ASSUME Init PROVE TypeInv
  OBVIOUS
<1> USE ViewerAssumption DEF Init, ViewerAssumption, Threads, Senders
<1>1. ControlInv
  BY DEF ControlInv, Labels, CoreLabels, UiLabels, NotifierLabels, Requesting,
         Early, InitialLocals, Locals
<1>2. FlagInv
  BY DEF FlagInv
<1>3. MessageInv
  <2>1. [p \in Parts |-> 1] \in Pixels
    BY DEF Pixels
  <2> QED
    BY <2>1 DEF MessageInv, Greeted, ServerState
<1>4. PictureInv
  <2>1. Black \in Pixels
    BY DEF Black, Pixels
  <2> QED
    BY <2>1 DEF PictureInv, FrameBuffer, NothingTaken
<1> QED
  BY <1>1, <1>2, <1>3, <1>4 DEF TypeInv

LEMMA TypesAlways == Spec => []TypeInv
<1>1. TypeInv /\ [Next]_vars => TypeInv'
  BY ControlStep, FlagStep, MessageStep, PictureStep DEF TypeInv
<1> QED
  BY <1>1, TypesInitially, PTL DEF Spec

(* Every variable keeps its type; in particular neither thread asks for an  *)
(* update, or sets a format, over a stream that is not there: the user's    *)
(* thread has no label for a failed write.                                  *)
THEOREM TypeCorrect == Spec => []ViewerTypeOK
<1>1. TypeInv => ViewerTypeOK
  BY DEF TypeInv, ControlInv, FlagInv, PictureInv, ViewerTypeOK, CoreLabels,
         UiLabels, NotifierLabels
<1> QED
  BY <1>1, TypesAlways, PTL
--------------------------------------------------------------------------------
(* The right to ask for an update.                                          *)

\* Of what is on its way to the server only the last can be a request.
RequestSent == toServer # <<>> /\ toServer[Len(toServer)] \in Asking
AnswerSent == Greeted /\ toViewer # <<>>

RightInv ==
  m_socketStream # "closed" =>
    /\ One(m_isNeedRequestUpdate) + One(IsRequesting("core"))
         + One(IsRequesting("ui")) + One(RequestSent)
         + One(server.request # "none") + One(AnswerSent)
         + One(reading # NothingToRead) = 1
    /\ \A i \in DOMAIN toServer : i # Len(toServer) => toServer[i] \in Formatting
    /\ Greeted => Len(toViewer) <= 1

IInv == TypeInv /\ RightInv
\* A step that moves the right nowhere.
Stays ==
  /\ UNCHANGED <<toServer, m_isNeedRequestUpdate, server.request>>
  /\ IsRequesting("core")' = IsRequesting("core")
  /\ IsRequesting("ui")' = IsRequesting("ui")
  /\ (Greeted)' => Greeted /\ UNCHANGED toViewer
  /\ reading # NothingToRead <=> reading' # NothingToRead
  /\ m_socketStream = "closed" => m_socketStream' = "closed"
  /\ Greeted => (Greeted)'

LEMMA RightStays ==
  ASSUME IInv, Stays
  PROVE  RightInv'
<1>1. RequestSent' = RequestSent /\ AnswerSent' = AnswerSent
  BY DEF Stays, RequestSent, AnswerSent
<1> QED
  BY <1>1 DEF IInv, RightInv, Stays, One

LEMMA RightStep ==
  ASSUME IInv, [Next]_vars
  PROVE  RightInv'
<1> USE DEF IInv
<1>a. ControlInv /\ MessageInv
  BY DEF TypeInv
<1>1. ASSUME NEW t \in Senders, SendFbUpdateRequest(t) PROVE RightInv'
  <2>0. /\ pc[t] \in Requesting /\ Greeted /\ (Greeted)'
        /\ m_socketStream # "none"
        /\ \A u \in Senders \ {t} : UNCHANGED (pc[u])
    BY <1>1, <1>a
    DEF SendFbUpdateRequest, TakeNeed, TakeFormat, ApplyFormat, SendFormat,
        Send, TakeRefreshing, SendRequest, Requesting, ControlInv, Senders,
        Threads, Early, Goto, Returned, Greeted
  <2>1. CASE TakeNeed(t)
    <3>1. /\ UNCHANGED <<toServer, toViewer, server, reading, m_socketStream>>
          /\ ~m_isNeedRequestUpdate'
          /\ ~IsRequesting(t)
          /\ IsRequesting(t)' <=> m_isNeedRequestUpdate
      BY <2>1, <1>1, <1>a
      DEF TakeNeed, Goto, Returned, IsRequesting, Requesting, ControlInv,
          Threads, Senders, readVars, world, net, stopVars
    <3>2. /\ RequestSent' = RequestSent /\ AnswerSent' = AnswerSent
      BY <2>0, <3>1 DEF RequestSent, AnswerSent
    <3>3. \A u \in Senders \ {t} : IsRequesting(u)' = IsRequesting(u)
      BY <2>0 DEF IsRequesting
    <3>4. \/ /\ IsRequesting("core")' <=> m_isNeedRequestUpdate
             /\ ~IsRequesting("core")
             /\ IsRequesting("ui")' = IsRequesting("ui")
          \/ /\ IsRequesting("ui")' <=> m_isNeedRequestUpdate
             /\ ~IsRequesting("ui")
             /\ IsRequesting("core")' = IsRequesting("core")
      <4>1. CASE t = "core"
        BY <3>1, <3>3, <4>1 DEF Senders
      <4>2. CASE t = "ui"
        BY <3>1, <3>3, <4>2 DEF Senders
      <4> QED
        BY <1>1, <4>1, <4>2 DEF Senders
    <3>5. One(m_isNeedRequestUpdate') + One(IsRequesting("core")')
            + One(IsRequesting("ui")')
          = One(m_isNeedRequestUpdate) + One(IsRequesting("core"))
            + One(IsRequesting("ui"))
      <4>1. CASE m_isNeedRequestUpdate
        BY <3>1, <3>4, <4>1 DEF One
      <4>2. CASE ~m_isNeedRequestUpdate
        BY <3>1, <3>4, <4>2 DEF One
      <4> QED
        BY <4>1, <4>2
    <3>6. \A condition : One(condition) \in Nat
      BY DEF One
    <3> QED
      BY <2>0, <3>1, <3>2, <3>5, <3>6 DEF RightInv
  <2>2. CASE TakeFormat(t) \/ ApplyFormat(t) \/ TakeRefreshing(t)
    <3>1. Stays
      BY <2>0, <2>2, <1>1, <1>a
      DEF Stays, TakeFormat, ApplyFormat, TakeRefreshing, Goto, IsRequesting,
          Requesting, ControlInv, Threads, Senders, readVars, world, net,
          stopVars
    <3> QED
      BY <3>1, RightStays
  <2>3. CASE SendFormat(t) \/ SendRequest(t)
    <3>1. SUFFICES ASSUME m_socketStream' # "closed" PROVE RightInv'
      BY DEF RightInv
    <3>2. /\ UNCHANGED <<toViewer, server, reading, m_isNeedRequestUpdate>>
          /\ m_socketStream = "open" /\ m_socketStream' = "open"
          /\ IsRequesting(t)
      BY <2>0, <2>3, <3>1, <1>a
      DEF SendFormat, SendRequest, Send, IsRequesting, Requesting, ControlInv,
          readVars, coreVars, stopVars
    <3>3. \A u \in Senders \ {t} : IsRequesting(u)' = IsRequesting(u)
      BY <2>0 DEF IsRequesting
    <3>4. ~RequestSent /\ toServer \in Seq(Formatting \cup Asking)
      BY <1>1, <1>a, <3>2 DEF RightInv, One, Senders, MessageInv
    <3>5. \A i \in DOMAIN toServer : toServer[i] \in Formatting
      BY <3>2, <3>4 DEF RightInv, RequestSent
    <3>6. AnswerSent' = AnswerSent
      BY <2>0, <3>2 DEF AnswerSent
    <3>7. CASE SendFormat(t)
      <4>1. PICK m \in Formatting : toServer' = Append(toServer, m)
        BY <1>1, <1>a, <3>2, <3>7
        DEF SendFormat, Send, Formatting, ControlInv, Locals
      <4>2. \A i \in DOMAIN toServer' : toServer'[i] \in Formatting
        BY <3>4, <3>5, <4>1
      <4>3. ~RequestSent'
        BY <3>4, <4>1, <4>2 DEF RequestSent, Formatting, Asking
      <4>4. IsRequesting(t)'
        BY <1>1, <1>a, <3>2, <3>7
        DEF SendFormat, Send, Goto, IsRequesting, Requesting, ControlInv,
            Threads, Senders
      <4> QED
        BY <1>1, <3>2, <3>3, <3>4, <3>6, <4>2, <4>3, <4>4, <2>0
        DEF RightInv, One, Senders
    <3>8. CASE SendRequest(t)
      <4>1. PICK m \in Asking : toServer' = Append(toServer, m)
        BY <1>1, <1>a, <3>2, <3>8
        DEF SendRequest, Send, Asking, ControlInv, Locals, TypeInv, PictureInv,
            FrameBuffer
      <4>2. \A i \in DOMAIN toServer' :
               i # Len(toServer') => toServer'[i] \in Formatting
        BY <3>4, <3>5, <4>1
      <4>3. RequestSent'
        BY <3>4, <4>1 DEF RequestSent
      <4>4. ~IsRequesting(t)'
        BY <1>1, <1>a, <3>2, <3>8
        DEF SendRequest, Send, Goto, Returned, IsRequesting, Requesting,
            ControlInv, Threads, Senders
      <4> QED
        BY <1>1, <3>2, <3>3, <3>4, <3>6, <4>2, <4>3, <4>4, <2>0
        DEF RightInv, One, Senders
    <3> QED
      BY <2>3, <3>7, <3>8
  <2> QED
    BY <1>1, <2>1, <2>2, <2>3 DEF SendFbUpdateRequest
<1>2. ASSUME Connect \/ ReadFails PROVE RightInv'
  <2>1. CASE Connect
    <3>1. Stays
      BY <2>1, <1>a
      DEF Stays, Connect, Greeted, Goto, ControlInv, Threads, IsRequesting,
          Requesting, readVars, coreVars, net
    <3> QED
      BY <3>1, RightStays
  <2>2. CASE ReadFails
    BY <2>2 DEF ReadFails, RightInv, world, stopVars
  <2> QED
    BY <1>2, <2>1, <2>2
<1>3. ASSUME Handshake PROVE RightInv'
  <2>1. /\ ~Greeted /\ (Greeted)'
        /\ UNCHANGED <<toServer, m_isNeedRequestUpdate, server, reading,
                       m_socketStream>>
        /\ IsRequesting("core")' = IsRequesting("core")
        /\ IsRequesting("ui")' = IsRequesting("ui")
        /\ toViewer' = Tail(toViewer) /\ toViewer # <<>>
    BY <1>3, <1>a
    DEF Handshake, Greeted, Goto, ControlInv, Threads, IsRequesting,
        Requesting, readVars, coreVars, stopVars
  <2>2. toViewer' = <<>>
    BY <1>a, <2>1 DEF MessageInv
  <2>3. RequestSent' = RequestSent /\ ~AnswerSent /\ ~AnswerSent'
    BY <2>1, <2>2 DEF RequestSent, AnswerSent
  <2>4. Len(toViewer') <= 1
    BY <2>2
  <2> QED
    BY <2>1, <2>3, <2>4 DEF RightInv, One
<1>4. ASSUME OnConnected \/ SetConnected \/ LoopEnds \/ OnUpdate \/ Notify
             \/ CheckFreeze
      PROVE  RightInv'
  <2>1. Stays
    BY <1>4, <1>a
    DEF Stays, OnConnected, SetConnected, LoopEnds, OnUpdate, Notify,
        CheckFreeze, ApplySettings, Greeted, Goto, ControlInv, Threads,
        IsRequesting, Requesting, readVars, coreVars, world, net, stopVars
  <2> QED
    BY <2>1, RightStays
<1>5. ASSUME ReceiveDesktopSize \/ \E p \in Parts : ReceiveRectangle(p)
      PROVE  RightInv'
  <2>1. reading # NothingToRead /\ reading' # NothingToRead
    <3>1. CASE ReceiveDesktopSize
      BY <3>1 DEF ReceiveDesktopSize, NothingToRead
    <3>2. CASE \E p \in Parts : ReceiveRectangle(p)
      <4>1. reading \in Picture
        BY <1>a, <3>2
        DEF ReceiveRectangle, MessageInv, Answers, Resizing, NothingToRead
      <4>2. reading' \in Picture
        BY <3>2, <4>1 DEF ReceiveRectangle, Picture
      <4> QED
        BY <4>1, <4>2 DEF Picture, NothingToRead
    <3> QED
      BY <1>5, <3>1, <3>2
  <2>2. Stays
    BY <1>5, <1>a, <2>1
    DEF Stays, ReceiveDesktopSize, ReceiveRectangle, Greeted, Goto, ControlInv,
        Threads, IsRequesting, Requesting, coreVars, world, net, stopVars
  <2> QED
    BY <2>2, RightStays
<1>6. ASSUME ReceiveFbUpdate PROVE RightInv'
  <2>1. /\ Greeted /\ toViewer # <<>>
        /\ UNCHANGED <<toServer, m_isNeedRequestUpdate, server,
                       m_socketStream>>
        /\ m_socketStream = "open"
        /\ IsRequesting("core")' = IsRequesting("core")
        /\ IsRequesting("ui")' = IsRequesting("ui")
        /\ toViewer' = Tail(toViewer) /\ reading' = Head(toViewer)
    BY <1>6, <1>a
    DEF ReceiveFbUpdate, Greeted, Goto, ControlInv, Threads, IsRequesting,
        Requesting, coreVars, stopVars
  <2>2. toViewer \in Seq(Answers) /\ Len(toViewer) <= 1
    BY <1>a, <2>1 DEF MessageInv, RightInv
  <2>3. toViewer' = <<>> /\ reading' \in Answers
    BY <2>1, <2>2
  <2>4. AnswerSent /\ ~AnswerSent' /\ RequestSent' = RequestSent
    BY <2>1, <2>3 DEF AnswerSent, RequestSent
  <2>5. reading' # NothingToRead
    BY <2>3 DEF Answers, Picture, Resizing, NothingToRead
  <2> QED
    BY <2>1, <2>3, <2>4, <2>5 DEF RightInv, One
<1>7. ASSUME UpdateIsRead PROVE RightInv'
  <2>1. /\ Greeted /\ (Greeted)'
        /\ UNCHANGED <<toServer, toViewer, server, m_socketStream>>
        /\ IsRequesting("core")' = IsRequesting("core")
        /\ IsRequesting("ui")' = IsRequesting("ui")
        /\ reading # NothingToRead /\ reading' = NothingToRead
        /\ m_isNeedRequestUpdate'
    BY <1>7, <1>a
    DEF UpdateIsRead, Greeted, Goto, ControlInv, Threads, IsRequesting,
        Requesting, NothingToRead, world, net, stopVars
  <2>2. RequestSent' = RequestSent /\ AnswerSent' = AnswerSent
    BY <2>1 DEF RequestSent, AnswerSent
  <2> QED
    BY <2>1, <2>2 DEF RightInv, One
<1>8. ASSUME Notifier PROVE RightInv'
  <2>1. /\ \E label \in NotifierLabels : Goto("notifier", label)
        /\ UNCHANGED <<toServer, toViewer, m_isNeedRequestUpdate, server,
                       reading, m_socketStream>>
    BY <1>8
    DEF Notifier, WaitAdapter, NotifierEnds, TakeUpdate, TellNewSize,
        TellUpdate, WaitForEvent, NotifierLabels, readVars, coreVars, world,
        net, stopVars
  <2>2. Stays
    BY <1>a, <2>1
    DEF Stays, Greeted, Goto, ControlInv, Threads, IsRequesting
  <2> QED
    BY <2>2, RightStays
<1>9. ASSUME \/ StopUpdating \/ RefreshFrameBuffer \/ TerminateNotifier
             \/ OnTerminate \/ \E f \in Formats : ChangeSettings(f)
      PROVE  RightInv'
  <2>1. Stays
    BY <1>9, <1>a
    DEF Stays, StopUpdating, RefreshFrameBuffer, TerminateNotifier,
        OnTerminate, ChangeSettings, ApplySettings, UiMayAct, Greeted, Goto,
        ControlInv, Threads, IsRequesting, Requesting, readVars, coreVars, net,
        stopVars
  <2> QED
    BY <2>1, RightStays
<1>10. ASSUME CloseConnection PROVE RightInv'
  <2>1. CASE m_socketStream = "none"
    <3>1. /\ ~Greeted /\ ~(Greeted)'
          /\ UNCHANGED <<m_isNeedRequestUpdate, server, reading>>
          /\ toServer' = <<>>
          /\ IsRequesting("core")' = IsRequesting("core")
          /\ ~IsRequesting("ui") /\ ~IsRequesting("ui")'
      BY <1>10, <1>a, <2>1
      DEF CloseConnection, Greeted, Goto, ControlInv, Threads, IsRequesting,
          Requesting, readVars, coreVars
    <3>2. ~AnswerSent /\ ~AnswerSent' /\ ~RequestSent /\ ~RequestSent'
      BY <1>a, <3>1 DEF AnswerSent, RequestSent, MessageInv
    <3> QED
      BY <2>1, <3>1, <3>2 DEF RightInv, One
  <2>2. CASE m_socketStream # "none"
    BY <1>10, <2>2 DEF CloseConnection, RightInv
  <2> QED
    BY <2>1, <2>2
<1>11. ASSUME Server PROVE RightInv'
  <2>1. /\ UNCHANGED <<pc, reading, m_isNeedRequestUpdate, m_socketStream>>
        /\ m_socketStream = "open"
    BY <1>11
    DEF Server, ServerGreets, ServerReads, ServerAnswers, ServerChanges,
        ServerResizes, viewerVars, readVars, coreVars, stopVars
  <2>2. /\ IsRequesting("core")' = IsRequesting("core")
        /\ IsRequesting("ui")' = IsRequesting("ui")
        /\ (Greeted)' = Greeted
    BY <2>1 DEF IsRequesting, Greeted
  <2>3. CASE \/ ServerGreets \/ \E p \in Parts : ServerChanges(p)
             \/ \E dim \in Dimensions : ServerResizes(dim)
    <3>1. /\ UNCHANGED <<toServer, server.request>>
          /\ Greeted => UNCHANGED toViewer
      BY <1>a, <2>1, <2>3
      DEF ServerGreets, ServerChanges, ServerResizes, MessageInv, ServerState
    <3>2. Stays
      BY <2>1, <2>2, <3>1 DEF Stays
    <3> QED
      BY <3>2, RightStays
  <2>4. CASE ServerReads
    <3>1. /\ toServer # <<>> /\ toServer' = Tail(toServer)
          /\ toServer \in Seq(Formatting \cup Asking)
          /\ UNCHANGED toViewer
      BY <1>a, <2>4 DEF ServerReads, MessageInv
    <3>2. AnswerSent' = AnswerSent
      BY <2>2, <3>1 DEF AnswerSent
    <3>3. CASE Head(toServer) \in Formatting
      <4>1. server'.request = server.request
        BY <1>a, <2>4, <3>3 DEF ServerReads, Formatting, MessageInv, ServerState
      <4>2. RequestSent' = RequestSent
        BY <3>1, <3>3 DEF RequestSent, Formatting, Asking
      <4>3. \A i \in DOMAIN toServer' :
               i # Len(toServer') => toServer'[i] \in Formatting
        BY <2>1, <3>1 DEF RightInv
      <4> QED
        BY <2>1, <2>2, <3>1, <3>2, <4>1, <4>2, <4>3 DEF RightInv, One
    <3>4. CASE Head(toServer) \in Asking
      <4>1. server'.request # "none"
        BY <1>a, <2>4, <3>4 DEF ServerReads, Asking, MessageInv, ServerState
      <4>2. Len(toServer) = 1
        <5>1. toServer[1] \notin Formatting /\ 1 \in DOMAIN toServer
          BY <3>1, <3>4 DEF Formatting, Asking
        <5>2. 1 # Len(toServer) => toServer[1] \in Formatting
          BY <2>1, <5>1 DEF RightInv
        <5> QED
          BY <5>1, <5>2
      <4>3. toServer' = <<>> /\ RequestSent /\ ~RequestSent'
        BY <3>1, <3>4, <4>2 DEF RequestSent
      <4> QED
        BY <2>1, <2>2, <3>1, <3>2, <4>1, <4>3 DEF RightInv, One
    <3> QED
      BY <3>1, <3>3, <3>4
  <2>5. CASE ServerAnswers
    <3>1. /\ Greeted /\ server.request # "none" /\ server'.request = "none"
          /\ UNCHANGED toServer
          /\ \E m : toViewer' = Append(toViewer, m)
      BY <1>a, <2>5 DEF ServerAnswers, MessageInv, ServerState
    <3>2. toViewer \in Seq(Answers)
      BY <1>a, <3>1 DEF MessageInv
    <3>3. ~AnswerSent /\ RequestSent' = RequestSent
      BY <2>1, <3>1 DEF RightInv, One, RequestSent
    <3>4. toViewer = <<>>
      BY <3>1, <3>3 DEF AnswerSent
    <3>5. toViewer' # <<>> /\ Len(toViewer') = 1
      BY <3>1, <3>2, <3>4
    <3>6. AnswerSent'
      BY <2>2, <3>1, <3>5 DEF AnswerSent
    <3> QED
      BY <2>1, <2>2, <3>1, <3>3, <3>5, <3>6 DEF RightInv, One
  <2> QED
    BY <1>11, <2>3, <2>4, <2>5 DEF Server
<1>12. CASE UNCHANGED vars
  <2>1. Stays
    BY <1>12
    DEF Stays, vars, Greeted, IsRequesting, readVars, coreVars, world, net,
        stopVars
  <2> QED
    BY <2>1, RightStays
<1> QED
  BY <1>1, <1>2, <1>3, <1>4, <1>5, <1>6, <1>7, <1>8, <1>9, <1>10, <1>11, <1>12
  DEF Next, Core, Ui, UiGoesOn, Senders

\* The invariant counts messages where the property counts their positions.
LEMMA RightIsOne == IInv => OneRequestAtATime
<1> SUFFICES ASSUME IInv, m_socketStream # "closed"
             PROVE  One(m_isNeedRequestUpdate) + One(IsRequesting("core"))
                     + One(IsRequesting("ui")) + Cardinality(Requests)
                     + One(server.request # "none") + Cardinality(Updates)
                     + One(reading # NothingToRead) = 1
  BY DEF OneRequestAtATime
<1>1. MessageInv /\ RightInv
  BY DEF IInv, TypeInv
<1>2. Cardinality(Requests) = One(RequestSent)
  <2>1. Requests = IF RequestSent THEN {Len(toServer)} ELSE {}
    BY <1>1
    DEF Requests, RequestSent, RightInv, MessageInv, Formatting, Asking
  <2> QED
    BY <2>1, FS_EmptySet, FS_Singleton DEF One
<1>3. Cardinality(Updates) = One(AnswerSent)
  <2>1. CASE Greeted
    <3>1. toViewer \in Seq(Answers) /\ Len(toViewer) <= 1
      BY <1>1, <2>1 DEF MessageInv, RightInv
    <3>2. Updates = IF AnswerSent THEN {1} ELSE {}
      BY <2>1, <3>1 DEF Updates, AnswerSent, Answers, Picture, Resizing
    <3> QED
      BY <3>2, FS_EmptySet, FS_Singleton DEF One
  <2>2. CASE ~Greeted
    <3>1. Updates = {}
      BY <1>1, <2>2 DEF MessageInv, Updates, Greeting
    <3> QED
      BY <2>2, <3>1, FS_EmptySet DEF One, AnswerSent
  <2> QED
    BY <2>1, <2>2
<1> QED
  BY <1>1, <1>2, <1>3 DEF RightInv

LEMMA RightAlways == Spec => []IInv
<1>1. Init => IInv
  <2>1. Init => RightInv
    BY DEF Init, RightInv, One, IsRequesting, Requesting, Threads, RequestSent,
           AnswerSent, Greeted
  <2> QED
    BY <2>1, TypesInitially DEF IInv
<1>2. IInv /\ [Next]_vars => IInv'
  BY RightStep, ControlStep, FlagStep, MessageStep, PictureStep
  DEF IInv, TypeInv
<1> QED
  BY <1>1, <1>2, PTL DEF Spec

(* Until the connection is closed there is exactly one right to ask for an  *)
(* update, whatever the user pauses, refreshes and configures meanwhile.    *)
THEOREM RightIsKept == Spec => []OneRequestAtATime
BY RightAlways, RightIsOne, PTL

--------------------------------------------------------------------------------
(* What the window does not show yet.                                       *)

\* What the notifier has taken it tells before it takes more, and a rectangle
\* of the core's is given to the notifier before the next is copied.
HeldInv ==
  /\ taken.isNewSize <=> pc["notifier"] = "newSize"
  /\ taken.update # {} => pc["notifier"] \in {"newSize", "update"}
  /\ rect # {} => pc["core"] = "onUpdate"

ForgetInv == HeldInv /\ NothingIsForgotten

\* A step that neither draws nor takes, and wakes the notifier at most.
LeavesWindow ==
  /\ UNCHANGED <<m_frameBuffer, rect, m_update, m_isNewSize, taken, window>>
  /\ pc'["notifier"] = pc["notifier"]
  /\ pc["core"] \in {"onUpdate", "notify"} => pc'["core"] = pc["core"]
  /\ m_eventUpdate => m_eventUpdate'

LEMMA WindowLeft ==
  ASSUME ForgetInv, LeavesWindow
  PROVE  ForgetInv'
BY DEF ForgetInv, HeldInv, NothingIsForgotten, LeavesWindow

\* With new properties everything is told anew.
LEMMA WindowRenewed ==
  ASSUME ForgetInv, NEW dim, NEW format, SetFbProperties(dim, format),
         UNCHANGED <<rect, taken>>,
         pc'["notifier"] = pc["notifier"], rect # {} => pc'["core"] = "onUpdate"
  PROVE  ForgetInv'
BY DEF ForgetInv, HeldInv, NothingIsForgotten, SetFbProperties

LEMMA ForgetStep ==
  ASSUME TypeInv, ForgetInv, [Next]_vars
  PROVE  ForgetInv'
<1>a. ControlInv /\ FlagInv /\ MessageInv /\ PictureInv
  BY DEF TypeInv
<1>1. ASSUME NEW t \in Senders, SendFbUpdateRequest(t) PROVE ForgetInv'
  <2>1. /\ UNCHANGED <<rect, taken, window, pc["notifier"]>>
        /\ pc["core"] \in {"onUpdate", "notify"} => UNCHANGED (pc["core"])
    BY <1>1, <1>a
    DEF SendFbUpdateRequest, TakeNeed, TakeFormat, ApplyFormat, SendFormat,
        Send, TakeRefreshing, SendRequest, ControlInv, Senders, Threads, Goto,
        readVars, paintVars
  <2>2. CASE SetFbProperties(m_frameBuffer.dim, loc[t].format)
    BY <2>1, <2>2, WindowRenewed DEF ForgetInv, HeldInv
  <2>3. CASE ~SetFbProperties(m_frameBuffer.dim, loc[t].format)
    <3>1. UNCHANGED <<m_frameBuffer, notifierVars>>
      BY <1>1, <2>3
      DEF SendFbUpdateRequest, TakeNeed, TakeFormat, ApplyFormat, SendFormat,
          Send, TakeRefreshing, SendRequest
    <3>2. LeavesWindow
      BY <2>1, <3>1 DEF LeavesWindow, notifierVars
    <3> QED
      BY <3>2, WindowLeft
  <2> QED
    BY <2>2, <2>3
<1>2. ASSUME Handshake \/ ReceiveDesktopSize PROVE ForgetInv'
  <2>1. /\ \E dim, format : SetFbProperties(dim, format)
        /\ UNCHANGED <<rect, taken, window, pc["notifier"]>>
        /\ rect = {}
    BY <1>2, <1>a
    DEF Handshake, ReceiveDesktopSize, ControlInv, Threads, Goto, readVars,
        paintVars, ForgetInv, HeldInv
  <2> QED
    BY <2>1, WindowRenewed
<1>3. ASSUME \/ Connect \/ ReadFails \/ LoopEnds \/ OnConnected
             \/ SetConnected \/ ReceiveFbUpdate \/ UpdateIsRead \/ CheckFreeze
      PROVE  ForgetInv'
  <2>1. UNCHANGED <<m_frameBuffer, rect, m_update, m_isNewSize, taken, window>>
    BY <1>3
    DEF Connect, ReadFails, LoopEnds, OnConnected, SetConnected,
        ReceiveFbUpdate, UpdateIsRead, CheckFreeze, ApplySettings, readVars,
        notifierVars, paintVars
  <2>2. /\ UNCHANGED (pc["notifier"])
        /\ pc["core"] \notin {"onUpdate", "notify"}
        /\ m_eventUpdate => m_eventUpdate'
    BY <1>3, <1>a
    DEF Connect, ReadFails, LoopEnds, OnConnected, SetConnected,
        ReceiveFbUpdate, UpdateIsRead, CheckFreeze, ApplySettings, ControlInv,
        Threads, Goto, notifierVars
  <2> QED
    BY <2>1, <2>2, WindowLeft DEF LeavesWindow
<1>4. ASSUME NEW p \in Parts, ReceiveRectangle(p) PROVE ForgetInv'
  <2>1. /\ rect = {} /\ rect' = {p}
        /\ UNCHANGED <<notifierVars, paintVars, pc["notifier"]>>
        /\ pc["core"] = "rect" /\ pc'["core"] = "onUpdate"
    BY <1>4, <1>a
    DEF ReceiveRectangle, ControlInv, Threads, Goto, ForgetInv, HeldInv
  <2>2. /\ UNCHANGED <<m_frameBuffer.dim, m_frameBuffer.format>>
        /\ \A q \in Parts \ {p} : UNCHANGED (m_frameBuffer.pixels[q])
        /\ m_frameBuffer.dim \subseteq Parts
    BY <1>4, <1>a DEF ReceiveRectangle, PictureInv, FrameBuffer, Pixels
  <2> QED
    BY <2>1, <2>2
    DEF ForgetInv, HeldInv, NothingIsForgotten, notifierVars, paintVars
<1>5. ASSUME OnUpdate \/ Notify PROVE ForgetInv'
  <2>1. CASE OnUpdate
    BY <1>a, <2>1
    DEF OnUpdate, ControlInv, Threads, Goto, ForgetInv, HeldInv,
        NothingIsForgotten, paintVars
  <2>2. CASE Notify
    BY <1>a, <2>2
    DEF Notify, ControlInv, Threads, Goto, ForgetInv, HeldInv,
        NothingIsForgotten, readVars, paintVars
  <2> QED
    BY <1>5, <2>1, <2>2
<1>6. ASSUME WaitAdapter \/ NotifierEnds \/ WaitForEvent PROVE ForgetInv'
  BY <1>6, <1>a
  DEF WaitAdapter, NotifierEnds, WaitForEvent, ControlInv, Threads, Goto,
      ForgetInv, HeldInv, NothingIsForgotten, readVars, notifierVars, paintVars
<1>7. ASSUME TakeUpdate PROVE ForgetInv'
  <2>1. /\ pc["notifier"] = "loop" /\ taken.update = {} /\ ~taken.isNewSize
        /\ taken' = [isNewSize |-> m_isNewSize, update |-> m_update]
        /\ ~m_isNewSize' /\ m_update' = {}
        /\ UNCHANGED <<m_frameBuffer, rect, window, pc["core"]>>
    BY <1>7, <1>a
    DEF TakeUpdate, ControlInv, Threads, Goto, ForgetInv, HeldInv, readVars
  <2>2. pc'["notifier"] = CASE m_isNewSize -> "newSize"
                            [] ~m_isNewSize /\ m_update # {} -> "update"
                            [] OTHER -> "wait"
    BY <1>7, <1>a DEF TakeUpdate, ControlInv, Threads, Goto
  <2>3. HeldInv'
    BY <2>1, <2>2, <1>a DEF ForgetInv, HeldInv, FlagInv
  <2>4. NothingIsForgotten'
    BY <2>1 DEF ForgetInv, NothingIsForgotten
  <2> QED
    BY <2>3, <2>4 DEF ForgetInv
<1>8. ASSUME TellNewSize PROVE ForgetInv'
  <2>1. /\ window' = m_frameBuffer /\ UNCHANGED <<m_frameBuffer, rect>>
        /\ ~taken'.isNewSize /\ taken'.update = taken.update
        /\ pc'["notifier"] = IF taken.update # {} THEN "update" ELSE "loop"
        /\ UNCHANGED (pc["core"])
    BY <1>8, <1>a
    DEF TellNewSize, ControlInv, PictureInv, Threads, Goto, readVars
  <2> QED
    BY <2>1 DEF ForgetInv, HeldInv, NothingIsForgotten
<1>9. ASSUME TellUpdate PROVE ForgetInv'
  <2>1. /\ UNCHANGED <<m_frameBuffer, rect, notifierVars, pc["core"]>>
        /\ pc["notifier"] = "update" /\ pc'["notifier"] = "loop"
        /\ taken' = NothingTaken
    BY <1>9, <1>a DEF TellUpdate, ControlInv, Threads, Goto, readVars
  <2>2. window.format = m_frameBuffer.format =>
          /\ UNCHANGED <<window.dim, window.format>>
          /\ \A p \in Parts : window'.pixels[p] =
               IF p \in taken.update THEN m_frameBuffer.pixels[p]
                                     ELSE window.pixels[p]
    BY <1>9, <1>a DEF TellUpdate, PictureInv, FrameBuffer
  <2>3. m_frameBuffer.dim \subseteq Parts
    BY <1>a DEF PictureInv, FrameBuffer
  <2>4. ~taken.isNewSize
    BY <2>1 DEF ForgetInv, HeldInv
  <2>5. NothingIsForgotten'
    BY <2>1, <2>2, <2>3, <2>4
    DEF ForgetInv, NothingIsForgotten, NothingTaken, notifierVars
  <2> QED
    BY <2>1, <2>5 DEF ForgetInv, HeldInv, NothingTaken
<1>10. ASSUME \/ StopUpdating \/ RefreshFrameBuffer \/ CloseConnection
              \/ TerminateNotifier \/ OnTerminate
              \/ \E f \in Formats : ChangeSettings(f)
       PROVE  ForgetInv'
  <2>1. UNCHANGED <<m_frameBuffer, rect, m_update, m_isNewSize, taken, window>>
    BY <1>10
    DEF StopUpdating, RefreshFrameBuffer, CloseConnection, TerminateNotifier,
        OnTerminate, ChangeSettings, ApplySettings, readVars, notifierVars,
        paintVars
  <2>2. /\ UNCHANGED <<pc["notifier"], pc["core"]>>
        /\ m_eventUpdate => m_eventUpdate'
    BY <1>10, <1>a
    DEF StopUpdating, RefreshFrameBuffer, CloseConnection, TerminateNotifier,
        OnTerminate, ChangeSettings, ApplySettings, ControlInv, Threads, Goto,
        notifierVars
  <2> QED
    BY <2>1, <2>2, WindowLeft DEF LeavesWindow
<1>11. ASSUME Server \/ UNCHANGED vars PROVE ForgetInv'
  <2>1. UNCHANGED <<pc, m_frameBuffer, readVars, notifierVars, paintVars>>
    BY <1>11
    DEF Server, ServerGreets, ServerReads, ServerAnswers, ServerChanges,
        ServerResizes, viewerVars, vars
  <2>2. LeavesWindow
    BY <2>1 DEF LeavesWindow, readVars, notifierVars, paintVars
  <2> QED
    BY <2>2, WindowLeft
<1> QED
  BY <1>1, <1>2, <1>3, <1>4, <1>5, <1>6, <1>7, <1>8, <1>9, <1>10, <1>11
  DEF Next, Core, Notifier, Ui, UiGoesOn, Senders

(* What the window does not show of the frame buffer is with the notifier   *)
(* or with the core, who will tell it, and a notifier that has something to *)
(* tell is awake or about to be woken, however the critical sections of the *)
(* two threads follow each other.                                           *)
THEOREM NothingForgotten == Spec => []NothingIsForgotten
<1>1. Init => ForgetInv
  BY DEF Init, ForgetInv, HeldInv, NothingIsForgotten, Threads, NothingTaken
<1>2. TypeInv /\ ForgetInv /\ [Next]_vars => ForgetInv'
  BY ForgetStep
<1>3. ForgetInv => NothingIsForgotten
  BY DEF ForgetInv
<1> QED
  BY <1>1, <1>2, <1>3, TypesAlways, PTL DEF Spec

--------------------------------------------------------------------------------
(* What the two ends have agreed on.                                        *)

Reading == {"rect", "onUpdate", "notify"}
SizeSent == AnswerSent /\ toViewer[1].type = "size"

\* The dimension the viewer has when it has read what is under way.
ToldDimension == IF SizeSent THEN toViewer[1].dim
                 ELSE IF reading.type = "size" THEN reading.dim
                 ELSE m_frameBuffer.dim

\* A sender that has changed the format has not told the server yet.
Changing == \E t \in Senders : pc[t] = "sendFormat"

\* The greeting, as long as it is not read.
GreetingInv ==
  ~Greeted /\ toViewer # <<>> =>
    /\ toViewer[1].format = server.format
    /\ server.resized \/ toViewer[1].dim = server.dim

\* The messages under way are at most a format and a request, in this order.
ChannelInv ==
  m_socketStream = "open" /\ Greeted =>
    /\ \A i \in DOMAIN toServer :
         toServer[i] \in Formatting =>
           i = 1 /\ toServer[i].format = m_frameBuffer.format
    /\ \/ Changing
       \/ toServer # <<>> /\ toServer[1] \in Formatting
       \/ server.format = m_frameBuffer.format
    /\ \/ toServer = <<>> \/ RequestSent
       \/ \E t \in Senders : pc[t] \in {"refresh", "sendRequest"}
    /\ \A t \in Senders :
         pc[t] = "sendFormat" => loc[t].format = m_frameBuffer.format
    /\ server.resized \/ ToldDimension = server.dim
    /\ AnswerSent /\ toViewer[1].type = "rects" =>
         /\ toViewer[1].format = m_frameBuffer.format
         /\ toViewer[1].parts \subseteq m_frameBuffer.dim

ReadingInv ==
  /\ pc["core"] \notin Reading \cup {"ended"} => reading = NothingToRead
  /\ server.dirty \subseteq server.dim

AgreedInv == FormatAgreed /\ ReadingInv /\ GreetingInv /\ ChannelInv

\* A step over which what is agreed on goes on.
LeavesAgreed ==
  /\ UNCHANGED <<m_frameBuffer, reading, toServer, toViewer, server>>
  /\ pc'["core"] \notin Reading \cup {"ended"} =>
       pc["core"] \notin Reading \cup {"ended"}
  /\ \A t \in Senders :
       /\ pc'[t] = "sendFormat" <=> pc[t] = "sendFormat"
       /\ pc'[t] = "sendFormat" => loc'[t].format = loc[t].format
       /\ pc[t] \in {"refresh", "sendRequest"} =>
            pc'[t] \in {"refresh", "sendRequest"}
  /\ Greeted => (Greeted)'
  /\ m_socketStream' = "open" /\ (Greeted)' =>
       Greeted /\ m_socketStream = "open"

LEMMA AgreementLeft ==
  ASSUME AgreedInv, LeavesAgreed
  PROVE  AgreedInv'
<1>1. /\ FormatAgreed' /\ ReadingInv' /\ GreetingInv'
  BY DEF AgreedInv, LeavesAgreed, FormatAgreed, ReadingInv, GreetingInv
<1>2. SUFFICES ASSUME m_socketStream' = "open", (Greeted)' PROVE ChannelInv'
  BY <1>1 DEF AgreedInv, ChannelInv
<1>3. /\ RequestSent' = RequestSent /\ AnswerSent' = AnswerSent
      /\ ToldDimension' = ToldDimension /\ Changing' = Changing
  BY <1>2
  DEF LeavesAgreed, RequestSent, AnswerSent, ToldDimension, SizeSent, Changing
<1> QED
  BY <1>2, <1>3 DEF AgreedInv, LeavesAgreed, ChannelInv

\* A sender that holds the right is alone: nothing else is under way.
LEMMA SenderIsAlone ==
  ASSUME IInv, AgreedInv, NEW t \in Senders, IsRequesting(t),
         m_socketStream = "open"
  PROVE  /\ reading = NothingToRead /\ ~AnswerSent /\ ~RequestSent
         /\ server.request = "none"
         /\ \A u \in Senders \ {t} : ~IsRequesting(u)
         /\ pc[t] \notin {"refresh", "sendRequest"} /\ Greeted => toServer = <<>>
<1>1. /\ reading = NothingToRead /\ ~AnswerSent /\ ~RequestSent
      /\ server.request = "none" /\ \A u \in Senders \ {t} : ~IsRequesting(u)
  BY DEF IInv, RightInv, One, Senders
<1>2. ASSUME pc[t] \notin {"refresh", "sendRequest"}, Greeted
      PROVE  toServer = <<>>
  BY <1>1, <1>2 DEF AgreedInv, ChannelInv, IsRequesting, Requesting
<1> QED
  BY <1>1, <1>2

\* The steps of a thread that asks.
LEMMA SenderKeepsAgreement ==
  ASSUME IInv, AgreedInv, NEW t \in Senders, SendFbUpdateRequest(t)
  PROVE  AgreedInv'
<1>a. ControlInv /\ FlagInv /\ MessageInv /\ PictureInv
  BY DEF IInv, TypeInv
<1>1. /\ pc[t] \in Requesting /\ Greeted /\ (Greeted)'
      /\ \A u \in Senders \ {t} : UNCHANGED <<pc[u], loc[u]>>
      /\ UNCHANGED <<reading, server, toViewer, m_socketStream>>
  <2>1. UNCHANGED <<reading, server, toViewer, m_socketStream>>
    BY DEF SendFbUpdateRequest, TakeNeed, TakeFormat, ApplyFormat, SendFormat,
           Send, TakeRefreshing, SendRequest, readVars, world, net, stopVars
  <2>2. \A u \in Senders \ {t} : UNCHANGED <<pc[u], loc[u]>>
    BY <1>a
    DEF SendFbUpdateRequest, TakeNeed, TakeFormat, ApplyFormat, SendFormat,
        Send, TakeRefreshing, SendRequest, ControlInv, Senders, Threads, Goto
  <2>3. pc[t] \in Requesting /\ Greeted /\ (Greeted)'
    BY <1>a
    DEF SendFbUpdateRequest, TakeNeed, TakeFormat, ApplyFormat, SendFormat,
        Send, TakeRefreshing, SendRequest, Requesting, ControlInv, Senders,
        Threads, Early, Goto, Returned, Greeted
  <2> QED
    BY <2>1, <2>2, <2>3
<1>2. CASE TakeNeed(t) \/ TakeFormat(t) \/ TakeRefreshing(t)
  <2>1. /\ UNCHANGED <<m_frameBuffer, toServer>>
        /\ pc[t] # "sendFormat" /\ pc'[t] # "sendFormat"
        /\ pc[t] \in {"refresh", "sendRequest"} => pc'[t] = "sendRequest"
    BY <1>2, <1>a
    DEF TakeNeed, TakeFormat, TakeRefreshing, Goto, Returned, ControlInv,
        Threads, Senders, world, net
  <2>2. LeavesAgreed
    BY <1>1, <2>1 DEF LeavesAgreed, Reading, Requesting, Senders
  <2> QED
    BY <2>2, AgreementLeft
<1>3. CASE ApplyFormat(t)
  <2>1. CASE loc[t].format = m_frameBuffer.format
    <3>1. /\ UNCHANGED <<m_frameBuffer, toServer>>
          /\ pc[t] = "apply" /\ pc'[t] = "refresh"
      BY <1>3, <1>a, <2>1
      DEF ApplyFormat, Goto, ControlInv, Threads, Senders, world, net
    <3>2. LeavesAgreed
      BY <1>1, <3>1 DEF LeavesAgreed, Reading, Requesting, Senders
    <3> QED
      BY <3>2, AgreementLeft
  <2>2. CASE loc[t].format # m_frameBuffer.format
    <3>1. /\ UNCHANGED <<loc, toServer>>
          /\ pc[t] = "apply" /\ pc'[t] = "sendFormat"
          /\ m_frameBuffer'.format = loc[t].format
          /\ m_frameBuffer'.dim = m_frameBuffer.dim
      BY <1>3, <1>a, <2>2
      DEF ApplyFormat, SetFbProperties, Goto, ControlInv, Threads, Senders,
          world, net
    <3>2. reading = NothingToRead
      <4>1. CASE t = "core"
        BY <3>1, <4>1 DEF AgreedInv, ReadingInv, Reading
      <4>2. CASE t = "ui"
        BY <3>1, <4>2, <1>a, SenderIsAlone
        DEF ControlInv, IsRequesting, Requesting
      <4> QED
        BY <4>1, <4>2 DEF Senders
    <3>3. FormatAgreed' /\ ReadingInv' /\ GreetingInv'
      BY <1>1, <3>1, <3>2
      DEF AgreedInv, FormatAgreed, ReadingInv, GreetingInv, NothingToRead,
          Reading, Requesting
    <3>4. ASSUME m_socketStream = "open" PROVE ChannelInv'
      <4>1. /\ ~AnswerSent /\ toServer = <<>>
            /\ \A u \in Senders \ {t} : pc[u] # "sendFormat"
        BY <1>1, <3>1, <3>4, SenderIsAlone DEF IsRequesting, Requesting
      <4>2. ~AnswerSent' /\ ToldDimension' = ToldDimension /\ Changing'
        BY <1>1, <3>1, <4>1
        DEF AnswerSent, ToldDimension, SizeSent, Changing
      <4> QED
        BY <1>1, <3>1, <3>4, <4>1, <4>2 DEF AgreedInv, ChannelInv
    <3> QED
      BY <1>1, <3>3, <3>4 DEF AgreedInv, ChannelInv
  <2> QED
    BY <2>1, <2>2
<1>4. CASE SendFormat(t) \/ SendRequest(t)
  <2>1. /\ UNCHANGED m_frameBuffer
        /\ pc[t] \in {"sendFormat", "sendRequest"}
    BY <1>4 DEF SendFormat, SendRequest, Send
  <2>2. FormatAgreed' /\ ReadingInv' /\ GreetingInv'
    BY <1>1, <2>1
    DEF AgreedInv, FormatAgreed, ReadingInv, GreetingInv, Reading, Requesting,
        Senders
  <2>3. ASSUME m_socketStream = "open" PROVE ChannelInv'
    <3>1. /\ ~AnswerSent /\ ~RequestSent
          /\ \A u \in Senders \ {t} : pc[u] \notin {"sendFormat", "refresh",
                                                    "sendRequest"}
      BY <2>1, <2>3, SenderIsAlone DEF IsRequesting, Requesting
    <3>2. ~AnswerSent' /\ ToldDimension' = ToldDimension
      BY <1>1, <2>1, <3>1 DEF AnswerSent, ToldDimension, SizeSent
    <3>3. CASE SendFormat(t)
      <4>1. toServer = <<>>
        BY <1>1, <2>3, <3>3, SenderIsAlone
        DEF SendFormat, IsRequesting, Requesting
      <4>2. PICK m \in Formatting : /\ toServer' = <<m>>
                                    /\ m.format = m_frameBuffer.format
        BY <1>1, <1>a, <2>3, <3>3, <4>1
        DEF SendFormat, Send, Formatting, ControlInv, Locals, AgreedInv,
            ChannelInv
      <4>3. pc'[t] = "refresh"
        BY <1>a, <2>3, <3>3
        DEF SendFormat, Send, Goto, ControlInv, Threads, Senders
      <4> QED
        BY <1>1, <2>1, <2>3, <3>1, <3>2, <4>2, <4>3 DEF AgreedInv, ChannelInv
    <3>4. CASE SendRequest(t)
      <4>1. PICK m \in Asking : toServer' = Append(toServer, m)
        BY <1>a, <2>3, <3>4
        DEF SendRequest, Send, Asking, ControlInv, Locals, PictureInv,
            FrameBuffer
      <4>2. toServer \in Seq(Formatting \cup Asking) /\ RequestSent'
        BY <1>a, <4>1 DEF MessageInv, RequestSent
      <4>3. pc'[t] \notin {"sendFormat", "refresh"} /\ pc[t] = "sendRequest"
        BY <1>a, <2>3, <3>4
        DEF SendRequest, Send, Goto, Returned, ControlInv, Threads, Senders
      <4>4. ~Changing
        BY <3>1, <4>3 DEF Changing
      <4>5. /\ \A i \in DOMAIN toServer' : toServer'[i] \in Formatting =>
                 i = 1 /\ toServer'[i].format = m_frameBuffer'.format
            /\ \/ toServer' # <<>> /\ toServer'[1] \in Formatting
               \/ server.format = m_frameBuffer'.format
        BY <1>1, <2>1, <2>3, <4>1, <4>2, <4>4
        DEF AgreedInv, ChannelInv, Formatting, Asking
      <4> QED
        BY <1>1, <2>1, <2>3, <3>1, <3>2, <4>2, <4>3, <4>5
        DEF AgreedInv, ChannelInv
    <3> QED
      BY <1>4, <3>3, <3>4
  <2> QED
    BY <1>1, <2>2, <2>3 DEF AgreedInv, ChannelInv
<1> QED
  BY <1>2, <1>3, <1>4 DEF SendFbUpdateRequest

LEMMA AgreedStep ==
  ASSUME IInv, AgreedInv, [Next]_vars
  PROVE  AgreedInv'
<1>a. ControlInv /\ FlagInv /\ MessageInv /\ PictureInv
  BY DEF IInv, TypeInv
<1>1. ASSUME NEW t \in Senders, SendFbUpdateRequest(t) PROVE AgreedInv'
  BY <1>1, SenderKeepsAgreement
<1>2. ASSUME \/ Connect \/ ReadFails \/ LoopEnds \/ OnConnected
             \/ SetConnected \/ OnUpdate \/ Notify \/ CheckFreeze
      PROVE  AgreedInv'
  <2>1. UNCHANGED <<m_frameBuffer, reading, toServer, toViewer, server>>
    BY <1>2
    DEF Connect, ReadFails, LoopEnds, OnConnected, SetConnected, OnUpdate,
        Notify, CheckFreeze, readVars, world, net
  <2>2. /\ pc'["core"] \notin Reading \cup {"ended"} =>
             pc["core"] \notin Reading \cup {"ended"}
        /\ {pc["core"], pc'["core"]} \cap {"sendFormat", "refresh", "sendRequest"}
             = {}
        /\ UNCHANGED <<pc["ui"], loc["ui"]>>
    BY <1>2, <1>a
    DEF Connect, ReadFails, LoopEnds, OnConnected, SetConnected, OnUpdate,
        Notify, CheckFreeze, Goto, ControlInv, Threads, Senders, Reading
  <2>3. /\ Greeted => (Greeted)'
        /\ ReadFails \/ LoopEnds \/ ((Greeted)' => Greeted)
    BY <1>2, <1>a
    DEF Connect, OnConnected, SetConnected, OnUpdate, Notify, CheckFreeze,
        ReadFails, LoopEnds, Goto, ControlInv, Threads, Greeted
  <2>4. m_socketStream' = "open" /\ (Greeted)' =>
          Greeted /\ m_socketStream = "open"
    <3>1. CASE ReadFails
      BY <3>1 DEF ReadFails, world, stopVars
    <3>2. CASE LoopEnds
      BY <3>2 DEF LoopEnds, Greeted, world, stopVars
    <3>3. CASE ~ReadFails /\ ~LoopEnds
      <4>1. (Greeted)' => Greeted
        BY <2>3, <3>3
      <4>2. Connect \/ UNCHANGED m_socketStream
        BY <1>2, <3>3
        DEF OnConnected, SetConnected, OnUpdate, Notify, CheckFreeze, world,
            stopVars
      <4>3. Connect => ~Greeted
        BY DEF Connect, Greeted
      <4> QED
        BY <4>1, <4>2, <4>3
    <3> QED
      BY <3>1, <3>2, <3>3
  <2>5. LeavesAgreed
    BY <2>1, <2>2, <2>3, <2>4 DEF LeavesAgreed, Senders
  <2> QED
    BY <2>5, AgreementLeft
<1>3. ASSUME Notifier PROVE AgreedInv'
  <2>1. /\ UNCHANGED <<m_frameBuffer, reading, toServer, toViewer, server, loc,
                       m_socketStream>>
        /\ \A t \in Senders : UNCHANGED (pc[t])
    BY <1>3, <1>a
    DEF Notifier, WaitAdapter, NotifierEnds, TakeUpdate, TellNewSize,
        TellUpdate, WaitForEvent, Goto, ControlInv, Threads, Senders, readVars,
        world, net, stopVars
  <2>2. LeavesAgreed
    BY <2>1 DEF LeavesAgreed, Greeted, Senders
  <2> QED
    BY <2>2, AgreementLeft
<1>4. ASSUME \/ StopUpdating \/ RefreshFrameBuffer \/ TerminateNotifier
             \/ OnTerminate \/ \E f \in Formats : ChangeSettings(f)
      PROVE  AgreedInv'
  <2>1. UNCHANGED <<m_frameBuffer, reading, toServer, toViewer, server, loc,
                    m_socketStream>>
    BY <1>4
    DEF StopUpdating, RefreshFrameBuffer, TerminateNotifier, OnTerminate,
        ChangeSettings, readVars, net, stopVars
  <2>2. /\ UNCHANGED (pc["core"])
        /\ \/ UNCHANGED (pc["ui"])
           \/ {pc["ui"], pc'["ui"]} \cap {"sendFormat", "refresh", "sendRequest"}
                = {}
    BY <1>4, <1>a
    DEF StopUpdating, RefreshFrameBuffer, TerminateNotifier, OnTerminate,
        ChangeSettings, UiMayAct, Goto, ControlInv, Threads
  <2>3. LeavesAgreed
    BY <2>1, <2>2 DEF LeavesAgreed, Greeted, Senders
  <2> QED
    BY <2>3, AgreementLeft
<1>5. ASSUME CloseConnection PROVE AgreedInv'
  <2>1. /\ UNCHANGED <<m_frameBuffer, reading, server, pc["core"]>>
        /\ toViewer' = <<>> /\ m_socketStream' # "open"
    BY <1>5, <1>a DEF CloseConnection, Goto, ControlInv, Threads, readVars
  <2> QED
    BY <2>1
    DEF AgreedInv, FormatAgreed, ReadingInv, GreetingInv, ChannelInv, Greeted
<1>6. ASSUME Handshake PROVE AgreedInv'
  <2>1. /\ ~Greeted /\ (Greeted)' /\ m_socketStream = "open"
        /\ toViewer # <<>> /\ toServer = <<>> /\ reading = NothingToRead
        /\ UNCHANGED <<toServer, reading, server>>
        /\ pc["ui"] \notin Requesting
        /\ pc'["core"] = "onConnected" /\ UNCHANGED (pc["ui"])
    BY <1>6, <1>a
    DEF Handshake, Greeted, MessageInv, ControlInv, Early, Goto, Threads,
        readVars
  <2>2. toViewer' = <<>>
    <3>1. \E m \in Greeting : toViewer = <<m>>
      BY <1>a, <2>1 DEF MessageInv
    <3> QED
      BY <1>6, <3>1 DEF Handshake
  <2>3. /\ m_frameBuffer'.format = server.format
        /\ server.resized \/ m_frameBuffer'.dim = server.dim
    BY <1>6, <2>1
    DEF Handshake, SetFbProperties, AgreedInv, GreetingInv
  <2>4. ~AnswerSent' /\ ToldDimension' = m_frameBuffer'.dim
    BY <2>1, <2>2 DEF AnswerSent, ToldDimension, SizeSent, NothingToRead
  <2>5. ChannelInv'
    BY <2>1, <2>3, <2>4 DEF ChannelInv, Senders, Requesting
  <2> QED
    BY <2>1, <2>5
    DEF AgreedInv, FormatAgreed, ReadingInv, GreetingInv, NothingToRead
<1>7. ASSUME ReceiveFbUpdate PROVE AgreedInv'
  <2>1. /\ Greeted /\ (Greeted)' /\ m_socketStream = "open"
        /\ toViewer # <<>> /\ toViewer' = Tail(toViewer)
        /\ reading' = toViewer[1]
        /\ UNCHANGED <<m_frameBuffer, toServer, server, loc, pc["ui"]>>
        /\ pc["core"] = "receive" /\ pc'["core"] = "rect"
    BY <1>7, <1>a DEF ReceiveFbUpdate, Greeted, ControlInv, Goto, Threads
  <2>2. toViewer' = <<>> /\ AnswerSent /\ ~AnswerSent'
    BY <1>a, <2>1 DEF IInv, RightInv, MessageInv, AnswerSent
  <2>3. ToldDimension' = ToldDimension
    <3>1. reading = NothingToRead
      BY <2>1, <2>2 DEF IInv, RightInv, One
    <3> QED
      BY <2>1, <2>2, <3>1 DEF ToldDimension, SizeSent, NothingToRead
  <2>4. RequestSent' = RequestSent
    BY <2>1 DEF RequestSent
  <2>5. ChannelInv'
    BY <2>1, <2>2, <2>3, <2>4 DEF AgreedInv, ChannelInv, Changing, Senders
  <2>6. FormatAgreed'
    BY <2>1, <2>2 DEF AgreedInv, ChannelInv, FormatAgreed
  <2> QED
    BY <2>1, <2>5, <2>6 DEF AgreedInv, ReadingInv, GreetingInv, Reading
<1>8. ASSUME NEW p \in Parts, ReceiveRectangle(p) PROVE AgreedInv'
  <2>1. /\ UNCHANGED <<m_frameBuffer.dim, m_frameBuffer.format, toServer,
                       toViewer, server, loc, pc["ui"], m_socketStream>>
        /\ pc["core"] = "rect" /\ pc'["core"] = "onUpdate"
    BY <1>8, <1>a
    DEF ReceiveRectangle, PictureInv, FrameBuffer, ControlInv, Goto, Threads,
        world, net, stopVars
  <2>2. /\ reading.type = "rects" /\ reading'.type = "rects"
        /\ reading'.format = reading.format
        /\ reading'.parts \subseteq reading.parts
    <3>1. reading \in Picture
      BY <1>8, <1>a
      DEF ReceiveRectangle, MessageInv, Answers, Resizing, NothingToRead
    <3> QED
      BY <1>8, <3>1 DEF ReceiveRectangle, Picture
  <2>3. /\ RequestSent' = RequestSent /\ AnswerSent' = AnswerSent
        /\ ToldDimension' = ToldDimension /\ Changing' = Changing
        /\ (Greeted)' = Greeted
    BY <2>1, <2>2
    DEF RequestSent, AnswerSent, ToldDimension, SizeSent, Changing, Greeted,
        Senders
  <2>4. ChannelInv'
    BY <2>1, <2>3 DEF AgreedInv, ChannelInv, Senders
  <2> QED
    BY <2>1, <2>2, <2>3, <2>4
    DEF AgreedInv, FormatAgreed, ReadingInv, GreetingInv, Reading
<1>9. ASSUME ReceiveDesktopSize PROVE AgreedInv'
  <2>1. /\ UNCHANGED <<pc, loc, toServer, toViewer, server, m_socketStream>>
        /\ pc["core"] = "rect" /\ m_socketStream = "open"
        /\ reading.type = "size" /\ reading # NothingToRead
        /\ reading'.type = "rects" /\ reading'.parts = {}
        /\ reading'.format = m_frameBuffer.format
        /\ m_frameBuffer'.format = m_frameBuffer.format
        /\ m_frameBuffer'.dim = reading.dim
    BY <1>9
    DEF ReceiveDesktopSize, SetFbProperties, NothingToRead, world, net, stopVars
  <2>2. ~AnswerSent
    BY <2>1 DEF IInv, RightInv, One
  <2>3. /\ RequestSent' = RequestSent /\ AnswerSent' = AnswerSent
        /\ ToldDimension' = ToldDimension /\ Changing' = Changing
        /\ (Greeted)' = Greeted
    BY <2>1, <2>2
    DEF RequestSent, AnswerSent, ToldDimension, SizeSent, Changing, Greeted
  <2>4. ChannelInv'
    BY <2>1, <2>2, <2>3 DEF AgreedInv, ChannelInv
  <2> QED
    BY <2>1, <2>3, <2>4
    DEF AgreedInv, FormatAgreed, ReadingInv, GreetingInv, Reading
<1>10. ASSUME UpdateIsRead PROVE AgreedInv'
  <2>1. /\ UNCHANGED <<m_frameBuffer, loc, toServer, toViewer, server,
                       m_socketStream, pc["ui"]>>
        /\ pc["core"] = "rect" /\ pc'["core"] = "freeze"
        /\ reading.type = "rects" /\ reading' = NothingToRead
    BY <1>10, <1>a
    DEF UpdateIsRead, ControlInv, Goto, Threads, world, net, stopVars
  <2>2. /\ RequestSent' = RequestSent /\ AnswerSent' = AnswerSent
        /\ ToldDimension' = ToldDimension /\ Changing' = Changing
        /\ (Greeted)' = Greeted
    BY <2>1
    DEF RequestSent, AnswerSent, ToldDimension, SizeSent, Changing, Greeted,
        Senders, NothingToRead
  <2>3. ChannelInv'
    BY <2>1, <2>2 DEF AgreedInv, ChannelInv, Senders
  <2> QED
    BY <2>1, <2>2, <2>3
    DEF AgreedInv, FormatAgreed, ReadingInv, GreetingInv, NothingToRead
<1>11. ASSUME Server PROVE AgreedInv'
  <2>1. /\ UNCHANGED <<m_frameBuffer, reading, pc, loc, m_socketStream>>
        /\ m_socketStream = "open"
    BY <1>11
    DEF Server, ServerGreets, ServerReads, ServerAnswers, ServerChanges,
        ServerResizes, viewerVars, readVars, stopVars
  <2>2. Changing' = Changing /\ (Greeted)' = Greeted
    BY <2>1 DEF Changing, Greeted
  <2>3. CASE ServerGreets
    <3>1. ~Greeted /\ toViewer = <<>>
      BY <1>a, <2>1, <2>3 DEF ServerGreets, MessageInv
    <3>2. /\ toViewer'[1].format = server.format
          /\ toViewer'[1].dim = server.dim
          /\ server'.format = server.format /\ server'.dim = server.dim
          /\ server'.dirty = server.dirty
      BY <1>a, <2>3, <3>1 DEF ServerGreets, MessageInv, ServerState
    <3> QED
      BY <2>1, <2>2, <3>1, <3>2
      DEF AgreedInv, FormatAgreed, ReadingInv, GreetingInv, ChannelInv
  <2>4. CASE \/ \E p \in Parts : ServerChanges(p)
             \/ \E dim \in Dimensions : ServerResizes(dim)
    <3>1. /\ UNCHANGED <<toServer, toViewer>>
          /\ server'.format = server.format /\ server'.dirty \subseteq server'.dim
          /\ server'.resized \/ UNCHANGED <<server.dim, server.resized>>
      <4>1. server \in ServerState /\ server.dirty \subseteq server.dim
        BY <1>a DEF MessageInv, AgreedInv, ReadingInv
      <4>2. CASE \E p \in Parts : ServerChanges(p)
        BY <4>1, <4>2 DEF ServerChanges, ServerState
      <4>3. CASE \E dim \in Dimensions : ServerResizes(dim)
        BY <4>1, <4>3 DEF ServerResizes, ServerState
      <4> QED
        BY <2>4, <4>2, <4>3
    <3>2. /\ RequestSent' = RequestSent /\ AnswerSent' = AnswerSent
          /\ ToldDimension' = ToldDimension
      BY <2>1, <2>2, <3>1 DEF RequestSent, AnswerSent, ToldDimension, SizeSent
    <3>3. ChannelInv'
      BY <2>1, <2>2, <3>1, <3>2 DEF AgreedInv, ChannelInv
    <3> QED
      BY <2>1, <2>2, <3>1, <3>3
      DEF AgreedInv, FormatAgreed, ReadingInv, GreetingInv
  <2>5. CASE ServerReads
    <3>1. /\ toServer # <<>> /\ toServer' = Tail(toServer)
          /\ toServer \in Seq(Formatting \cup Asking)
          /\ Greeted /\ UNCHANGED toViewer
          /\ server'.dim = server.dim /\ server'.dirty = server.dirty
          /\ server'.resized = server.resized
      BY <1>a, <2>5 DEF ServerReads, MessageInv, ServerState
    <3>2. AnswerSent' = AnswerSent /\ ToldDimension' = ToldDimension
      BY <2>1, <2>2, <3>1 DEF AnswerSent, ToldDimension, SizeSent
    <3>3. FormatAgreed' /\ ReadingInv' /\ GreetingInv'
      BY <2>1, <2>2, <3>1
      DEF AgreedInv, FormatAgreed, ReadingInv, GreetingInv
    <3>4. CASE toServer[1] \in Formatting
      <4>1. server'.format = m_frameBuffer.format
        BY <1>a, <2>1, <2>5, <3>1, <3>4
        DEF ServerReads, Formatting, MessageInv, ServerState, AgreedInv,
            ChannelInv
      <4>2. \A i \in DOMAIN toServer' : toServer'[i] \notin Formatting
        BY <2>1, <3>1 DEF AgreedInv, ChannelInv
      <4>3. toServer' = <<>> \/ RequestSent' = RequestSent
        BY <3>1 DEF RequestSent
      <4> QED
        BY <2>1, <2>2, <3>1, <3>2, <3>3, <4>1, <4>2, <4>3
        DEF AgreedInv, ChannelInv
    <3>5. CASE toServer[1] \notin Formatting
      <4>1. toServer' = <<>>
        BY <2>1, <3>1, <3>5 DEF IInv, RightInv
      <4>2. server'.format = server.format
        BY <1>a, <2>5, <3>1, <3>5
        DEF ServerReads, Formatting, Asking, MessageInv, ServerState
      <4> QED
        BY <2>1, <2>2, <3>1, <3>2, <3>3, <3>5, <4>1, <4>2
        DEF AgreedInv, ChannelInv
    <3> QED
      BY <3>4, <3>5
  <2>6. CASE ServerAnswers
    <3>1. /\ Greeted /\ server.request # "none"
          /\ UNCHANGED toServer
          /\ server'.dim = server.dim /\ server'.format = server.format
          /\ server'.dirty \subseteq server.dirty
      BY <1>a, <2>6 DEF ServerAnswers, MessageInv, ServerState
    <3>2. /\ ~AnswerSent /\ ~RequestSent /\ reading = NothingToRead
          /\ \A t \in Senders : ~IsRequesting(t)
      BY <2>1, <3>1 DEF IInv, RightInv, One, Senders
    <3>3. toViewer = <<>>
      BY <3>1, <3>2 DEF AnswerSent
    <3>4. /\ toServer = <<>> /\ server.format = m_frameBuffer.format
          /\ server.resized \/ m_frameBuffer.dim = server.dim
      BY <2>1, <3>1, <3>2
      DEF AgreedInv, ChannelInv, Changing, IsRequesting, Requesting,
          ToldDimension, SizeSent, NothingToRead
    <3>5. FormatAgreed' /\ ReadingInv' /\ GreetingInv'
      BY <2>1, <2>2, <3>1
      DEF AgreedInv, FormatAgreed, ReadingInv, GreetingInv
    <3>6. AnswerSent'
      <4>1. \E m : toViewer' = Append(toViewer, m)
        BY <2>6 DEF ServerAnswers
      <4>2. toViewer' # <<>>
        BY <3>3, <4>1
      <4> QED
        BY <2>2, <3>1, <4>2 DEF AnswerSent
    <3>7. CASE server.resized
      <4>1. toViewer' = <<[type |-> "size", dim |-> server.dim]>>
        BY <2>6, <3>3, <3>7 DEF ServerAnswers
      <4>2. ToldDimension' = server.dim
        BY <3>6, <4>1 DEF ToldDimension, SizeSent
      <4> QED
        BY <2>1, <2>2, <3>1, <3>2, <3>4, <3>5, <4>1, <4>2
        DEF AgreedInv, ChannelInv
    <3>8. CASE ~server.resized
      <4>1. /\ toViewer'[1].type = "rects"
            /\ toViewer'[1].format = server.format
            /\ toViewer'[1].parts \subseteq server.dim
        BY <2>6, <3>3, <3>8 DEF ServerAnswers, Rectangles, AgreedInv, ReadingInv
      <4>2. ToldDimension' = m_frameBuffer.dim
        BY <2>1, <3>2, <4>1 DEF ToldDimension, SizeSent, NothingToRead
      <4> QED
        BY <2>1, <2>2, <3>1, <3>2, <3>4, <3>5, <3>8, <4>1, <4>2
        DEF AgreedInv, ChannelInv
    <3> QED
      BY <3>7, <3>8
  <2> QED
    BY <1>11, <2>3, <2>4, <2>5, <2>6 DEF Server
<1>12. CASE UNCHANGED vars
  <2>1. LeavesAgreed
    BY <1>12
    DEF LeavesAgreed, vars, readVars, world, net, stopVars, Greeted, Senders
  <2> QED
    BY <2>1, AgreementLeft
<1> QED
  BY <1>1, <1>2, <1>3, <1>4, <1>5, <1>6, <1>7, <1>8, <1>9, <1>10, <1>11, <1>12
  DEF Next, Core, Ui, UiGoesOn, Senders

(* The pixels that the core decodes, and the rectangles they fill, are the  *)
(* frame buffer's: the user may set a format while an update is under way,  *)
(* and the server may be resized, but the change waits for the right.       *)
THEOREM FormatIsAgreed == Spec => []FormatAgreed
<1>1. Init => AgreedInv
  BY DEF Init, AgreedInv, FormatAgreed, ReadingInv, GreetingInv, ChannelInv,
         NothingToRead, Greeted, Threads
<1>2. IInv /\ AgreedInv /\ [Next]_vars => AgreedInv'
  BY AgreedStep
<1>3. AgreedInv => FormatAgreed
  BY DEF AgreedInv
<1> QED
  BY <1>1, <1>2, <1>3, RightAlways, PTL DEF Spec
================================================================================
