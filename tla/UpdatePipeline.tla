---------------------------- MODULE UpdatePipeline -----------------------------
(***************************************************************************)
(* The way of a pixel from the screen to one viewer.                       *)
(*                                                                         *)
(* Detectors report changed cells of the screen to the keeper of the       *)
(* UpdateHandler and wake the desktop thread.  The desktop thread, if some *)
(* client is ready, grabs what was reported into the backup frame buffer,  *)
(* keeps what really differs, and adds it to the keeper of every client.   *)
(* The client's UpdateSender thread takes a request and the keeper's       *)
(* contents, copies the cells into its own frame buffer, crops them by the *)
(* request and sends them.  The client's dispatcher thread receives the    *)
(* requests and wakes whoever can answer them.                             *)
(*                                                                         *)
(* One client is modelled in full; the others appear as readiness and      *)
(* requests of their own.  Left out: cursor and video updates, the view   *)
(* port, the shared application and encoders.  What is sent is received at *)
(* once: TCP keeps the order, and the viewer's requests are asynchronous.  *)
(***************************************************************************)
EXTENDS Naturals, UpdateKeeper

CONSTANTS Values,    \* the contents of a cell
          Blank,     \* the contents of a cell nobody has written
          Requests,  \* the requests of a viewer: a region, incremental?
          CopyRectEnabled, DesktopSizeEnabled, \* EncodeOptions of the viewer
          OtherClients,                        \* are there other viewers?
          MaxChanges, MaxResizes, MaxAsked     \* bounds, on the environment

ASSUME ViewerAssumption ==
  Blank \notin Values /\ Requests \subseteq (SUBSET Cells) \X BOOLEAN
ASSUME FlagsAssumption ==
  CopyRectEnabled \in BOOLEAN /\ DesktopSizeEnabled \in BOOLEAN
    /\ OtherClients \in BOOLEAN
ASSUME BoundsAssumption ==
  MaxChanges \in Nat /\ MaxResizes \in Nat /\ MaxAsked \in Nat

VARIABLES
  screen, propsChanged,     \* the screen; were its size or format changed?
  detected,                 \* changed cells in the UpdateHandler's keeper
  m_backupFrameBuffer, m_absoluteRect, \* UpdateHandlerImpl's; rest is all/nothing
  m_newUpdateEvent, dpc, cont,  \* desktop thread and its container
  m_fullReqRegion,              \* desktop: full requests of all clients
  keeper,                       \* the client's UpdateKeeper
  m_newUpdatesEvent, m_busy,    \* the client's UpdateSender
  m_requestedIncrReg, m_requestedFullReg, m_incrUpdIsReq, m_fullUpdIsReq,
  spc, taken, upd,              \* sender thread: request taken, container
  m_frameBuffer, fbStale,       \* its buffer; properties unlike the backup's?
  rpc, req,                     \* dispatcher thread and the request it reads
  view, asked,                  \* the viewer's screen, its unanswered requests
  changes, resizes              \* counters of the environment's bounds

screenVars  == <<screen, propsChanged, changes, resizes>>
handlerVars == <<detected, m_backupFrameBuffer, m_absoluteRect>>
desktopVars == <<dpc, cont>>
requestVars == <<m_requestedIncrReg, m_requestedFullReg, m_incrUpdIsReq,
                 m_fullUpdIsReq>>
senderVars  == <<spc, taken, upd, m_frameBuffer>>
viewerVars  == <<view, asked>>
vars == <<screenVars, handlerVars, desktopVars, m_newUpdateEvent,
          m_fullReqRegion, keeper, m_newUpdatesEvent, m_busy, requestVars,
          senderVars, fbStale, rpc, req, viewerVars>>

Images == [Cells -> Values \cup {Blank}]
\* What extractReqRegions() takes; what readUpdateRequest() read and computed.
Taken == [incr : SUBSET Cells, full : SUBSET Cells, incrIsReq : BOOLEAN,
          fullIsReq : BOOLEAN]
NothingTaken == [incr |-> {}, full |-> {}, incrIsReq |-> FALSE,
                 fullIsReq |-> FALSE]
ReadRequests == [region : SUBSET Cells, incremental : BOOLEAN,
                 combined : SUBSET Cells]
NothingRead == [region |-> {}, incremental |-> TRUE, combined |-> {}]

TypeOK ==
  /\ screen \in Images /\ propsChanged \in BOOLEAN
  /\ detected \subseteq Cells
  /\ m_backupFrameBuffer \in Images /\ m_absoluteRect \in BOOLEAN
  /\ m_newUpdateEvent \in BOOLEAN
  /\ dpc \in {"wait", "ready", "extract", "give", "notify", "clear"}
  /\ cont \in Containers /\ keeper \in Containers /\ upd \in Containers
  /\ m_fullReqRegion \subseteq Cells
  /\ m_newUpdatesEvent \in BOOLEAN /\ m_busy \in BOOLEAN
  /\ m_requestedIncrReg \subseteq Cells /\ m_requestedFullReg \subseteq Cells
  /\ m_incrUpdIsReq \in BOOLEAN /\ m_fullUpdIsReq \in BOOLEAN
  /\ spc \in {"wait", "extractReq", "extractUpd", "sync", "crop", "send", "done"}
  /\ taken \in Taken
  /\ m_frameBuffer \in Images /\ fbStale \in BOOLEAN
  /\ rpc \in {"idle", "check", "listen"} /\ req \in ReadRequests
  /\ view \in Images /\ asked \in Nat
  /\ changes \in Nat /\ resizes \in Nat

AllBlank == [x \in Cells |-> Blank]

\* The UpdateHandler's constructor reports the whole screen; the client has
\* just been created.
Init ==
  /\ screen \in [Cells -> Values] /\ propsChanged = FALSE
  /\ detected = Cells
  /\ m_backupFrameBuffer = AllBlank /\ m_absoluteRect = TRUE
  /\ m_newUpdateEvent = TRUE /\ dpc = "wait" /\ cont = Empty
  /\ m_fullReqRegion = {} /\ keeper = Empty
  /\ m_newUpdatesEvent = FALSE /\ m_busy = FALSE
  /\ m_requestedIncrReg = {} /\ m_requestedFullReg = {}
  /\ m_incrUpdIsReq = FALSE /\ m_fullUpdIsReq = FALSE
  /\ spc = "wait" /\ taken = NothingTaken /\ upd = Empty
  /\ m_frameBuffer = AllBlank /\ fbStale = TRUE
  /\ rpc = "idle" /\ req = NothingRead
  /\ view = AllBlank /\ asked = 0
  /\ changes = 0 /\ resizes = 0

--------------------------------------------------------------------------------
(* The screen and its detectors.                                           *)

ScreenChanges ==
  /\ changes < MaxChanges /\ changes' = changes + 1
  /\ \E x \in Cells, v \in Values : screen' = [screen EXCEPT ![x] = v]
  /\ UNCHANGED <<propsChanged, resizes, handlerVars, desktopVars,
                 m_newUpdateEvent, m_fullReqRegion, keeper, m_newUpdatesEvent,
                 m_busy, requestVars, senderVars, fbStale, rpc, req, viewerVars>>

\* The size or the pixel format of the screen changes, and with it any cell.
PropertiesChange ==
  /\ resizes < MaxResizes /\ resizes' = resizes + 1
  /\ propsChanged' = TRUE
  /\ screen' \in [Cells -> Values]
  /\ UNCHANGED <<changes, handlerVars, desktopVars, m_newUpdateEvent,
                 m_fullReqRegion, keeper, m_newUpdatesEvent, m_busy,
                 requestVars, senderVars, fbStale, rpc, req, viewerVars>>

\* The cells where the backup is behind the screen.
Differing == {x \in Cells : screen[x] # m_backupFrameBuffer[x]}

\* A detector reports cells, changed or not, and calls doUpdate().  A report
\* of cells that have not changed counts as a change of the screen.
Detect(r) ==
  /\ r # {} /\ ~(r \subseteq detected /\ m_newUpdateEvent)
  /\ detected' = detected \cup r
  /\ m_newUpdateEvent' = TRUE
  /\ IF r \subseteq Differing THEN UNCHANGED changes
     ELSE changes < MaxChanges /\ changes' = changes + 1
  /\ UNCHANGED <<screen, propsChanged, resizes, m_backupFrameBuffer, m_absoluteRect, desktopVars,
                 m_fullReqRegion, keeper, m_newUpdatesEvent, m_busy,
                 requestVars, senderVars, fbStale, rpc, req, viewerVars>>

\* Poller::execute() compares the screen with the backup.
Poll == Detect(Differing)

--------------------------------------------------------------------------------
(* The desktop thread: DesktopBaseImpl::sendUpdate().                      *)

clientVars == <<keeper, m_newUpdatesEvent, m_busy, requestVars, senderVars,
                rpc, req, viewerVars>>

DesktopWakes ==
  /\ dpc = "wait" /\ m_newUpdateEvent
  /\ dpc' = "ready" /\ m_newUpdateEvent' = FALSE
  /\ UNCHANGED <<screenVars, handlerVars, cont, m_fullReqRegion, clientVars,
                 fbStale>>

\* UpdateSender::clientIsReady()
ClientIsReady == (m_incrUpdIsReq \/ m_fullUpdIsReq) /\ ~m_busy

\* isReadyToSend() of the manager: some client is ready, or nobody is.
CheckReady ==
  /\ dpc = "ready"
  /\ \/ /\ ClientIsReady \/ OtherClients
        /\ dpc' = "extract"
     \/ ~ClientIsReady /\ dpc' = "wait"
  /\ UNCHANGED <<screenVars, handlerVars, cont, m_newUpdateEvent,
                 m_fullReqRegion, clientVars, fbStale>>

\* What setFullUpdateRequested(), addCopyRect() and extract() of the
\* handler's keeper yield.
Extracted(m) ==
  AddCopy(AddChanged(Empty, detected \cup m_fullReqRegion), m)

\* UpdateFilter::filter(): the cells to check that differ from the backup
\* after the copy has been repeated there.
Filtered(u) ==
  {x \in u.changed \cup Dst(u.copied) :
     Moved(m_backupFrameBuffer, u.copied)[x] # screen[x]}

\* UpdateHandlerImpl::extract(), with the window movement m as a hint.
Extract(m) ==
  /\ dpc = "extract" /\ ~propsChanged
  /\ LET u == Extracted(m)
         moved == Moved(m_backupFrameBuffer, u.copied)
     IN  /\ m_backupFrameBuffer' = Copied(moved, screen, Filtered(u))
         /\ cont' = [u EXCEPT !.changed =
                       Filtered(u) \cup (IF m_absoluteRect THEN Cells ELSE {})]
  /\ detected' = {} /\ m_absoluteRect' = FALSE
  /\ dpc' = "give"
  /\ UNCHANGED <<screenVars, m_newUpdateEvent, m_fullReqRegion, clientVars,
                 fbStale>>

\* The same when the grabber throws, which counts as a change of the screen:
\* filter() returns, its work half done.
ExtractGrabFails(m) ==
  /\ dpc = "extract" /\ ~propsChanged
  /\ changes < MaxChanges /\ changes' = changes + 1
  /\ LET u == Extracted(m)
     IN  /\ m_backupFrameBuffer' = Moved(m_backupFrameBuffer, u.copied)
         /\ cont' = AddChanged(u, IF m_absoluteRect THEN Cells ELSE {})
  /\ detected' = {} /\ m_absoluteRect' = FALSE
  /\ dpc' = "give"
  /\ UNCHANGED <<screen, propsChanged, resizes, m_newUpdateEvent,
                 m_fullReqRegion, clientVars, fbStale>>

\* The same with new screen properties: the frame buffers are set anew, and
\* the sender's buffer may by chance have the new properties already.
ExtractNewProperties ==
  /\ dpc = "extract" /\ propsChanged
  /\ propsChanged' = FALSE
  /\ detected' = {} /\ m_absoluteRect' = TRUE
  /\ m_backupFrameBuffer' = AllBlank
  /\ \E sizeChanged \in BOOLEAN : cont' = [Empty EXCEPT !.resized = sizeChanged]
  /\ fbStale' \in IF fbStale THEN BOOLEAN ELSE {TRUE}
  /\ dpc' = "give"
  /\ UNCHANGED <<screen, changes, resizes, m_newUpdateEvent, m_fullReqRegion,
                 clientVars>>

NothingToGive ==
  /\ dpc = "give" /\ IsEmpty(cont) /\ m_fullReqRegion = {}
  /\ dpc' = "wait"
  /\ UNCHANGED <<screenVars, handlerVars, cont, m_newUpdateEvent,
                 m_fullReqRegion, clientVars, fbStale>>

\* UpdateSender::newUpdates() adds the container ...
NewUpdates ==
  /\ dpc = "give" /\ ~(IsEmpty(cont) /\ m_fullReqRegion = {})
  /\ keeper' = AddContainer(keeper, cont)
  /\ cont' = Empty /\ dpc' = "notify"
  /\ UNCHANGED <<screenVars, handlerVars, m_newUpdateEvent, m_fullReqRegion,
                 m_newUpdatesEvent, m_busy, requestVars, senderVars, fbStale,
                 rpc, req, viewerVars>>

\* ... and wakes the sender.
WakeSender ==
  /\ dpc = "notify"
  /\ m_busy' = TRUE /\ m_newUpdatesEvent' = TRUE
  /\ dpc' = "clear"
  /\ UNCHANGED <<screenVars, handlerVars, cont, m_newUpdateEvent,
                 m_fullReqRegion, keeper, requestVars, senderVars, fbStale,
                 rpc, req, viewerVars>>

ClearFullRequests ==
  /\ dpc = "clear"
  /\ m_fullReqRegion' = {} /\ dpc' = "wait"
  /\ UNCHANGED <<screenVars, handlerVars, cont, m_newUpdateEvent, clientVars,
                 fbStale>>

--------------------------------------------------------------------------------
(* The viewer, and the dispatcher thread: readUpdateRequest().             *)

ReadUpdateRequest(r, incremental) ==
  /\ rpc = "idle" /\ asked < MaxAsked
  /\ asked' = asked + 1
  /\ IF incremental
     THEN /\ m_requestedIncrReg' = m_requestedIncrReg \cup r
          /\ m_incrUpdIsReq' = TRUE
          /\ UNCHANGED <<m_requestedFullReg, m_fullUpdIsReq>>
     ELSE /\ m_requestedFullReg' = m_requestedFullReg \cup r
          /\ m_fullUpdIsReq' = TRUE
          /\ UNCHANGED <<m_requestedIncrReg, m_incrUpdIsReq>>
  /\ req' = [region |-> r, incremental |-> incremental,
             combined |-> m_requestedIncrReg' \cup m_requestedFullReg']
  /\ rpc' = "check"
  /\ UNCHANGED <<screenVars, handlerVars, desktopVars, m_newUpdateEvent,
                 m_fullReqRegion, keeper, m_newUpdatesEvent, m_busy,
                 senderVars, fbStale, view>>

\* (mutant) Only changed cells are looked up, not copies and a new size.
AlreadyHasChanged == keeper.changed \cap req.combined # {}

AlreadyHasUpdates == HasUpdates(keeper, req.combined)

CheckForUpdates ==
  /\ rpc = "check" /\ rpc' = "listen"
  /\ m_newUpdatesEvent' = (m_newUpdatesEvent \/ AlreadyHasUpdates)
  /\ UNCHANGED <<screenVars, handlerVars, desktopVars, m_newUpdateEvent,
                 m_fullReqRegion, keeper, m_busy, requestVars, senderVars,
                 fbStale, req, viewerVars>>

\* DesktopBaseImpl::onUpdateRequest()
OnUpdateRequest ==
  /\ rpc = "listen" /\ rpc' = "idle"
  /\ m_fullReqRegion' = m_fullReqRegion \cup
                          (IF req.incremental THEN {} ELSE req.region)
  /\ m_newUpdateEvent' = TRUE
  /\ req' = NothingRead
  /\ UNCHANGED <<screenVars, handlerVars, desktopVars, keeper,
                 m_newUpdatesEvent, m_busy, requestVars, senderVars, fbStale,
                 viewerVars>>

\* The same for another client.
OtherClientRequests(r, incremental) ==
  /\ OtherClients
  /\ m_fullReqRegion' = m_fullReqRegion \cup (IF incremental THEN {} ELSE r)
  /\ m_newUpdateEvent' = TRUE
  /\ UNCHANGED <<screenVars, handlerVars, desktopVars, clientVars, fbStale>>

--------------------------------------------------------------------------------
(* The sender thread: UpdateSender::execute() and sendUpdate().            *)

serverVars == <<screenVars, handlerVars, desktopVars, m_newUpdateEvent,
                m_fullReqRegion, rpc, req>>

SenderWakes ==
  /\ spc = "wait" /\ m_newUpdatesEvent
  /\ m_newUpdatesEvent' = FALSE /\ m_busy' = TRUE
  /\ spc' = "extractReq"
  /\ UNCHANGED <<serverVars, keeper, requestVars, taken, upd, m_frameBuffer,
                 fbStale, viewerVars>>

ExtractReqRegions ==
  /\ spc = "extractReq"
  /\ taken' = [incr |-> m_requestedIncrReg, full |-> m_requestedFullReg,
               incrIsReq |-> m_incrUpdIsReq, fullIsReq |-> m_fullUpdIsReq]
  /\ m_requestedIncrReg' = {} /\ m_requestedFullReg' = {}
  /\ m_incrUpdIsReq' = FALSE /\ m_fullUpdIsReq' = FALSE
  /\ spc' = IF m_incrUpdIsReq \/ m_fullUpdIsReq THEN "extractUpd" ELSE "done"
  /\ UNCHANGED <<serverVars, keeper, m_newUpdatesEvent, m_busy, upd,
                 m_frameBuffer, fbStale, viewerVars>>

ExtractUpdates ==
  /\ spc = "extractUpd" /\ spc' = "sync"
  /\ upd' = keeper /\ keeper' = Empty
  /\ UNCHANGED <<serverVars, m_newUpdatesEvent, m_busy, requestVars, taken,
                 m_frameBuffer, fbStale, viewerVars>>

\* The cells that updateFrameBuffer() copies from the backup; the full
\* region it adds is the one requested since extractReqRegions().
ToSync == upd.changed \cup Dst(upd.copied) \cup m_requestedFullReg

UpdateFrameBuffer ==
  /\ spc = "sync" /\ spc' = "crop"
  /\ IF fbStale
     THEN /\ m_frameBuffer' = AllBlank /\ fbStale' = FALSE
          /\ upd' = [upd EXCEPT !.resized = TRUE]
     ELSE /\ m_frameBuffer' = Copied(m_frameBuffer, m_backupFrameBuffer, ToSync)
          /\ UNCHANGED <<fbStale, upd>>
  /\ UNCHANGED <<serverVars, keeper, m_newUpdatesEvent, m_busy, requestVars,
                 taken, viewerVars>>

ScreenSizeChanged ==
  upd.resized \/ (taken.full # {} /\ ~DesktopSizeEnabled)

\* (mutant) The keeper is not told to send everything again.
Undazzled(u) == u

\* dazzleChangedReg()
Dazzled(u) == AddChanged(u, Cells)

\* The new size, or the frame buffer in the client's own size, answers the
\* request; every cell becomes a change.
SendNewSize ==
  /\ spc = "crop" /\ ScreenSizeChanged
  /\ view' = IF DesktopSizeEnabled THEN AllBlank ELSE m_frameBuffer
  /\ asked' = 0
  /\ keeper' = Dazzled(keeper)
  /\ upd' = Empty /\ taken' = NothingTaken /\ spc' = "done"
  /\ UNCHANGED <<serverVars, m_newUpdatesEvent, m_busy, requestVars,
                 m_frameBuffer, fbStale>>

\* The changed cells before cropping: copies the viewer cannot do, and the
\* full request, are added.
ToSend ==
  upd.changed \cup (IF CopyRectEnabled THEN {} ELSE Dst(upd.copied))
    \cup taken.full

ReqRegion == taken.incr \cup taken.full

\* inscribeCopiedRegionToReqRegion(): is the copy kept?
CopyInscribed ==
  CopyRectEnabled /\ (Dst(upd.copied) \cup Src(upd.copied)) \subseteq ReqRegion

\* (mutant) What was not requested is forgotten.
BackRegionLost == {}

\* Computed before a copy is declined.
BackRegion == ToSend \ ReqRegion

CropUpdContForReqRegions ==
  /\ spc = "crop" /\ ~ScreenSizeChanged
  /\ spc' = "send"
  /\ upd' = [upd EXCEPT
       !.changed = (ToSend \cup IF CopyInscribed THEN {} ELSE Dst(upd.copied))
                     \cap ReqRegion,
       !.copied = IF CopyInscribed THEN @ ELSE NoMove]
  /\ keeper' = AddChanged(keeper, BackRegion)
  /\ UNCHANGED <<serverVars, m_newUpdatesEvent, m_busy, requestVars, taken,
                 m_frameBuffer, fbStale, viewerVars>>

\* CopyRect rectangles come first, then the changed ones.
SendFramebufferUpdate ==
  /\ spc = "send" /\ ~IsEmpty(upd)
  /\ view' = Copied(Moved(view, upd.copied), m_frameBuffer, upd.changed)
  /\ asked' = 0
  /\ upd' = Empty /\ taken' = NothingTaken /\ spc' = "done"
  /\ UNCHANGED <<serverVars, keeper, m_newUpdatesEvent, m_busy, requestVars,
                 m_frameBuffer, fbStale>>

\* (mutant) The regions are restored without their flags.
RestoredFlags == <<FALSE, FALSE>>

\* The flags given back with the regions.
FlagsToRestore == <<taken.incrIsReq, taken.fullIsReq>>

\* Nothing to send: the request is put back.
RestoreReqRegions ==
  /\ spc = "send" /\ IsEmpty(upd)
  /\ m_requestedIncrReg' = m_requestedIncrReg \cup taken.incr
  /\ m_requestedFullReg' = m_requestedFullReg \cup taken.full
  /\ m_incrUpdIsReq' = FlagsToRestore[1]
  /\ m_fullUpdIsReq' = FlagsToRestore[2]
  /\ taken' = NothingTaken /\ spc' = "done"
  /\ UNCHANGED <<serverVars, keeper, m_newUpdatesEvent, m_busy, upd,
                 m_frameBuffer, fbStale, viewerVars>>

SenderDone ==
  /\ spc = "done" /\ spc' = "wait"
  /\ m_busy' = FALSE /\ taken' = NothingTaken
  /\ UNCHANGED <<serverVars, keeper, m_newUpdatesEvent, requestVars, upd,
                 m_frameBuffer, fbStale, viewerVars>>

--------------------------------------------------------------------------------
DesktopRuns ==
  \/ DesktopWakes \/ CheckReady \/ ExtractNewProperties \/ NothingToGive
  \/ NewUpdates \/ WakeSender \/ ClearFullRequests
  \/ \E m \in Moves \cup {NoMove} : Extract(m)

SenderRuns ==
  \/ SenderWakes \/ ExtractReqRegions \/ ExtractUpdates \/ UpdateFrameBuffer
  \/ SendNewSize \/ CropUpdContForReqRegions \/ SendFramebufferUpdate
  \/ RestoreReqRegions \/ SenderDone

DispatcherRuns == CheckForUpdates \/ OnUpdateRequest

Next ==
  \/ ScreenChanges \/ PropertiesChange
  \/ \E r \in SUBSET Cells : Detect(r)
  \/ \E m \in Moves \cup {NoMove} : ExtractGrabFails(m)
  \/ DesktopRuns \/ SenderRuns \/ DispatcherRuns
  \/ \E r \in Requests :
       ReadUpdateRequest(r[1], r[2]) \/ OtherClientRequests(r[1], r[2])

SafetySpec == Init /\ [][Next]_vars

(* Every thread is scheduled.  With a running poller, and a viewer that    *)
(* asks for the next update when the last one has arrived:                 *)
Fairness ==
  /\ WF_vars(DesktopRuns) /\ WF_vars(SenderRuns) /\ WF_vars(DispatcherRuns)

PollerAndViewer ==
  /\ WF_vars(Poll)
  /\ WF_vars(asked = 0 /\ ReadUpdateRequest(Cells, TRUE))

Spec == SafetySpec /\ Fairness
PolledSpec == Spec /\ PollerAndViewer
--------------------------------------------------------------------------------
(* Safety.                                                                 *)

Mentions(u, x) == x \in u.changed \cup Dst(u.copied)

\* The change of x is still on its way to the viewer: all will be sent
\* again, or a container mentions x.
OnItsWay(x) ==
  \/ m_absoluteRect
  \/ Mentions(cont, x) \/ Mentions(keeper, x)
  \/ Mentions(upd, x)

\* No update is lost between the backup frame buffer and the viewer: a cell
\* that differs there is mentioned by one of the containers on the way, for
\* every interleaving of the desktop, sender and dispatcher threads.
NoUpdateIsLost ==
  \A x \in Cells : view[x] # m_backupFrameBuffer[x] => OnItsWay(x)

\* A region waiting for an answer has a flag that makes the client ready.
RequestHasFlag ==
  m_requestedIncrReg \cup m_requestedFullReg # {} =>
    m_incrUpdIsReq \/ m_fullUpdIsReq

\* Somebody is about to look at the client's keeper.
SenderIsCalled ==
  m_newUpdatesEvent \/ spc # "wait" \/ dpc = "notify" \/ rpc = "check"

\* A request "already has updates" only while the sender is called: the
\* updates are not skipped because the desktop has none
\* (readUpdateRequest()).
NoUpdateIsSkipped ==
  HasUpdates(keeper, m_requestedIncrReg \cup m_requestedFullReg)
    /\ (m_incrUpdIsReq \/ m_fullUpdIsReq) => SenderIsCalled

(* Liveness.                                                               *)

\* When the screen rests, the viewer finally shows it, and goes on doing so.
Converges == <>[](view = screen)

\* A full request is finally taken by the sender, whatever else happens.
FullRequestIsServed ==
  m_requestedFullReg # {} ~> m_requestedFullReg = {}
--------------------------------------------------------------------------------
(* The inductive invariant behind NoUpdateIsLost, for viewers without      *)
(* CopyRect, and behind RequestHasFlag.                                    *)

\* The sender's buffer is behind the backup only where a cell will be copied
\* again before it is sent, or sent again afterwards.
BufferIsCovered ==
  \A x \in Cells : m_frameBuffer[x] # m_backupFrameBuffer[x] =>
    \/ m_absoluteRect \/ Mentions(cont, x) \/ Mentions(keeper, x)
    \/ spc = "sync" /\ Mentions(upd, x)
    \/ spc = "crop" /\ upd.resized
    \/ fbStale /\ spc \notin {"crop", "send"}

\* What the local variables of the threads hold, by their positions.
LocalsInv ==
  /\ dpc # "give" => cont = Empty
  /\ spc \notin {"sync", "crop", "send"} => upd = Empty
  /\ spc \in {"extractUpd", "sync", "crop", "send"} =>
       taken.incrIsReq \/ taken.fullIsReq

\* Without CopyRect no copy is sent.
NoCopyIsSent == spc = "send" => upd.copied = NoMove

IInv ==
  NoUpdateIsLost /\ BufferIsCovered /\ LocalsInv /\ NoCopyIsSent /\ RequestHasFlag
================================================================================
