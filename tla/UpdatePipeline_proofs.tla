------------------------- MODULE UpdatePipeline_proofs -------------------------
(***************************************************************************)
(* Proofs about UpdatePipeline and the contract of its keepers: what a     *)
(* keeper gives is exact if copies do not overlap their source, and no     *)
(* update is lost on the way to a viewer without CopyRect, for any screen, *)
(* any copies and any requests.                                            *)
(***************************************************************************)
EXTENDS UpdatePipeline, KeeperContract, TLAPS

USE MovesAssumption, ViewerAssumption, FlagsAssumption, BoundsAssumption
DEF MovesAssumption, ViewerAssumption, FlagsAssumption, BoundsAssumption

--------------------------------------------------------------------------------
(* The keeper's operators.                                                 *)

LEMMA NoMoveType == Dst(NoMove) = {} /\ Empty \in Containers
BY DEF NoMove, Dst, Empty, Containers

LEMMA MoveType ==
  \A m \in Moves \cup {NoMove} :
    Dst(m) \subseteq Cells /\ \A x \in Dst(m) : m[x] \in Cells
BY NoMoveType DEF Dst

LEMMA AddChangedType ==
  \A u \in Containers, r \in SUBSET Cells :
    /\ AddChanged(u, r) \in Containers
    /\ AddChanged(u, r).copied = u.copied
    /\ AddChanged(u, r).resized = u.resized
    /\ AddChanged(u, r).changed = u.changed \cup r
BY DEF AddChanged, Containers

LEMMA AddCopyType ==
  ASSUME NEW u \in Containers, NEW m \in Moves \cup {NoMove}
  PROVE  /\ AddCopy(u, m) \in Containers
         /\ AddCopy(u, m).resized = u.resized
         /\ \A x \in Cells : Mentions(u, x) \/ x \in Dst(m) => Mentions(AddCopy(u, m), x)
<1> USE NoMoveType, MoveType
<1>1. CASE Dst(m) = {}
  BY <1>1 DEF AddCopy
<1>2. CASE Dst(m) # {} /\ Dst(u.copied) # {}
  <2>1. AddCopy(u, m) =
          [u EXCEPT !.changed = u.changed \cup Dst(u.copied) \cup Dst(m),
                    !.copied = NoMove]
    BY <1>2 DEF AddCopy
  <2>2. Dst(u.copied) \subseteq Cells
    BY DEF Containers
  <2> QED BY <2>1, <2>2 DEF Containers, Mentions
<1>3. CASE Dst(m) # {} /\ Dst(u.copied) = {}
  <2> DEFINE rest == u.changed \ Dst(m)
  <2>1. AddCopy(u, m) =
          [u EXCEPT !.changed = rest \cup {x \in Dst(m) : m[x] \in rest},
                    !.copied = m]
    BY <1>3 DEF AddCopy
  <2> QED BY <1>3, <2>1 DEF Containers, Mentions
<1> QED BY <1>1, <1>2, <1>3

LEMMA AddContainerType ==
  ASSUME NEW u \in Containers, NEW v \in Containers
  PROVE  /\ AddContainer(u, v) \in Containers
         /\ \A x \in Cells : Mentions(u, x) \/ Mentions(v, x) =>
                               Mentions(AddContainer(u, v), x)
<1> DEFINE c == AddCopy(u, v.copied)
<1>1. v.copied \in Moves \cup {NoMove} /\ v.changed \subseteq Cells
      /\ v.resized \in BOOLEAN
  BY DEF Containers
<1>2. c \in Containers
      /\ \A x \in Cells : Mentions(u, x) \/ x \in Dst(v.copied) => Mentions(c, x)
  BY <1>1, AddCopyType
<1>3. AddContainer(u, v) = [c EXCEPT !.changed = c.changed \cup v.changed,
                                     !.resized = c.resized \/ v.resized]
  BY DEF AddContainer
<1> HIDE DEF c
<1>4. AddContainer(u, v) \in Containers
  BY <1>1, <1>2, <1>3 DEF Containers
<1>5. AddContainer(u, v).copied = c.copied
      /\ AddContainer(u, v).changed = c.changed \cup v.changed
  BY <1>2, <1>3 DEF Containers
<1> QED BY <1>2, <1>4, <1>5 DEF Mentions

LEMMA ImageType ==
  ASSUME NEW i \in Images, NEW j \in Images, NEW m \in Moves \cup {NoMove}, NEW r
  PROVE  Moved(i, m) \in Images /\ Copied(i, j, r) \in Images
BY MoveType DEF Moved, Copied, Images

LEMMA Constants ==
  /\ AllBlank \in Images /\ [Cells -> Values] \subseteq Images
  /\ NothingTaken \in Taken /\ NothingRead \in ReadRequests
BY DEF AllBlank, Images, NothingTaken, Taken, NothingRead, ReadRequests

LEMMA FilteredType == \A u \in Containers : Filtered(u) \subseteq Cells
<1> SUFFICES ASSUME NEW u \in Containers PROVE Filtered(u) \subseteq Cells
  OBVIOUS
<1>1. Dst(u.copied) \subseteq Cells /\ u.changed \subseteq Cells
  BY MoveType DEF Containers
<1> QED BY <1>1 DEF Filtered

LEMMA ExtractedType ==
  TypeOK => \A m \in Moves \cup {NoMove} :
    /\ Extracted(m) \in Containers
    /\ Extracted(m).copied \in Moves \cup {NoMove}
    /\ Filtered(Extracted(m)) \subseteq Cells
<1> SUFFICES ASSUME TypeOK, NEW m \in Moves \cup {NoMove}
             PROVE  /\ Extracted(m) \in Containers
                    /\ Extracted(m).copied \in Moves \cup {NoMove}
                    /\ Filtered(Extracted(m)) \subseteq Cells
  OBVIOUS
<1>1. detected \cup m_fullReqRegion \in SUBSET Cells
  BY DEF TypeOK
<1>2. AddChanged(Empty, detected \cup m_fullReqRegion) \in Containers
  BY <1>1, NoMoveType, AddChangedType
<1>3. Extracted(m) \in Containers
  BY <1>2, AddCopyType DEF Extracted
<1>4. Extracted(m).copied \in Moves \cup {NoMove}
  BY <1>3 DEF Containers
<1> QED BY <1>3, <1>4, FilteredType

--------------------------------------------------------------------------------
(* The contract of a keeper.                                               *)

\* What is copied and what is changed in w, if w is u after the addition of
\* the copy m and the changed region r, case by case.
AfterReport(u, m, r, w) ==
  LET rest == u.changed \ Dst(m)
  IN  /\ w \in Containers /\ w.resized = u.resized
      /\ Dst(m) = {} => w.copied = u.copied /\ w.changed = u.changed \cup r
      /\ Dst(m) # {} /\ Dst(u.copied) # {} =>
           /\ w.copied = NoMove
           /\ w.changed = u.changed \cup Dst(u.copied) \cup Dst(m) \cup r
      /\ Dst(m) # {} /\ Dst(u.copied) = {} =>
           /\ w.copied = m
           /\ w.changed = rest \cup {x \in Dst(m) : m[x] \in rest} \cup r

LEMMA AddContainerCases ==
  ASSUME NEW u \in Containers, NEW m \in Moves \cup {NoMove}, NEW r \in SUBSET Cells
  PROVE  AfterReport(u, m, r,
                     AddContainer(u, [Empty EXCEPT !.copied = m, !.changed = r]))
<1> USE NoMoveType, MoveType
<1> DEFINE v == [Empty EXCEPT !.copied = m, !.changed = r]
           w == AddContainer(u, v)
           c == AddCopy(u, m)
           rest == u.changed \ Dst(m)
<1>1. v.copied = m /\ v.changed = r /\ v.resized = FALSE
  BY DEF Empty
<1>2. w = [c EXCEPT !.changed = c.changed \cup r, !.resized = c.resized \/ FALSE]
  BY <1>1 DEF AddContainer
<1>3. CASE Dst(m) = {}
  <2>1. c = u
    BY <1>3 DEF AddCopy
  <2> QED BY <1>2, <1>3, <2>1 DEF Containers, AfterReport
<1>4. CASE Dst(m) # {} /\ Dst(u.copied) # {}
  <2>1. c = [u EXCEPT !.changed = u.changed \cup Dst(u.copied) \cup Dst(m),
                      !.copied = NoMove]
    BY <1>4 DEF AddCopy
  <2>2. Dst(u.copied) \subseteq Cells
    BY DEF Containers
  <2> QED BY <1>2, <1>4, <2>1, <2>2 DEF Containers, AfterReport
<1>5. CASE Dst(m) # {} /\ Dst(u.copied) = {}
  <2>1. c = [u EXCEPT !.changed = rest \cup {x \in Dst(m) : m[x] \in rest},
                      !.copied = m]
    BY <1>5 DEF AddCopy
  <2> QED BY <1>2, <1>5, <2>1 DEF Containers, AfterReport
<1> QED BY <1>3, <1>4, <1>5 DEF AfterReport

\* The keeper holds copies that were reported, and cells of the screen.
THEOREM ContractTypeCorrect == ContractSpec => []ContractTypeOK
<1>1. ContractInit => ContractTypeOK
  BY NoMoveType DEF ContractInit, ContractTypeOK
<1>2. ContractTypeOK /\ [ContractNext]_contractVars => ContractTypeOK'
  <2> SUFFICES ASSUME ContractTypeOK, [ContractNext]_contractVars PROVE ContractTypeOK'
    OBVIOUS
  <2>1. ASSUME NEW m \in Moves \cup {NoMove}, NEW r \in SUBSET Cells, Report(m, r)
        PROVE  ContractTypeOK'
    BY <2>1, AddContainerCases DEF Report, ContractTypeOK, AfterReport
  <2>2. CASE TakeUpdate
    BY <2>2, NoMoveType, MoveType
    DEF TakeUpdate, ContractTypeOK, Applied, Copied, Moved, Pictures, Containers
  <2>3. CASE UNCHANGED contractVars
    BY <2>3 DEF contractVars, ContractTypeOK
  <2> QED BY <2>1, <2>2, <2>3 DEF ContractNext
<1> QED BY <1>1, <1>2, PTL DEF ContractSpec

\* If no copy overlaps its own source, the contract holds: the viewer that does
\* what the keeper says shows the current picture.
THEOREM ExactWhenDisjoint == ASSUME DisjointMoves PROVE ContractSpec => []KeeperIsExact
<1>1. ContractInit => KeeperIsExact
  <2> SUFFICES ASSUME ContractInit PROVE Applied(Empty) = image
    BY DEF ContractInit, KeeperIsExact
  <2>1. Applied(Empty) = [x \in Cells |-> image[x]]
    BY NoMoveType DEF ContractInit, Applied, Copied, Moved, Empty
  <2> QED BY <2>1 DEF ContractInit, Pictures
<1>2. ContractTypeOK /\ KeeperIsExact /\ [ContractNext]_contractVars => KeeperIsExact'
  <2> SUFFICES ASSUME ContractTypeOK, KeeperIsExact, [ContractNext]_contractVars PROVE KeeperIsExact'
    OBVIOUS
  <2> DEFINE Exact(i, u) ==
        \A x \in Cells : x \notin u.changed =>
          i[x] = IF x \in Dst(u.copied) THEN shown[u.copied[x]] ELSE shown[x]
  <2>0. Exact(image, m_updateContainer)
    BY MoveType DEF KeeperIsExact, Applied, Copied, Moved, ContractTypeOK, Pictures, Containers
  <2>1. ASSUME NEW m \in Moves \cup {NoMove}, NEW r \in SUBSET Cells, Report(m, r)
        PROVE  KeeperIsExact'
    <3>1. image' \in Pictures /\ shown' = shown /\ m_updateContainer' \in Containers
      BY <2>1, AddContainerCases DEF Report, ContractTypeOK, AfterReport
    <3>2. \A x \in Cells : x \notin r =>
            image'[x] = IF x \in Dst(m) THEN image[m[x]] ELSE image[x]
      BY <2>1 DEF Report, Moved
    <3> DEFINE rest == m_updateContainer.changed \ Dst(m)
    <3>a. AfterReport(m_updateContainer, m, r, m_updateContainer')
      BY <2>1, AddContainerCases DEF Report, ContractTypeOK
    <3>3. \A x \in Cells : x \notin m_updateContainer'.changed => x \notin r
      BY <3>a DEF AfterReport
    <3>4. Exact(image', m_updateContainer')
      <4>1. CASE Dst(m) = {}
        <5>1. m_updateContainer'.copied = m_updateContainer.copied
              /\ m_updateContainer'.changed = m_updateContainer.changed \cup r
          BY <3>a, <4>1 DEF AfterReport
        <5> QED BY <2>0, <3>2, <4>1, <5>1
      <4>2. CASE Dst(m) # {} /\ Dst(m_updateContainer.copied) # {}
        <5>1. m_updateContainer'.copied = NoMove
              /\ m_updateContainer'.changed =
                   m_updateContainer.changed \cup Dst(m_updateContainer.copied) \cup Dst(m) \cup r
          BY <3>a, <4>2 DEF AfterReport
        <5> QED BY <2>0, <3>2, <5>1, NoMoveType
      <4>3. CASE Dst(m) # {} /\ Dst(m_updateContainer.copied) = {}
        <5>1. m_updateContainer'.copied = m
              /\ m_updateContainer'.changed = rest \cup {x \in Dst(m) : m[x] \in rest} \cup r
          BY <3>a, <4>3 DEF AfterReport
        <5>2. m \in Moves
          BY <4>3, NoMoveType
        <5>3. \A x \in Dst(m) : m[x] \in Cells /\ m[x] \notin Dst(m)
          BY <5>2, MoveType DEF DisjointMoves, Src, Dst
        <5> HIDE DEF rest
        <5>4. \A x \in Cells : x \notin m_updateContainer'.changed /\ x \in Dst(m) =>
                image'[x] = shown[m[x]]
          <6> SUFFICES ASSUME NEW x \in Cells, x \notin m_updateContainer'.changed, x \in Dst(m)
                       PROVE  image'[x] = shown[m[x]]
            OBVIOUS
          <6>1. m[x] \notin m_updateContainer.changed
            BY <5>1, <5>3 DEF rest
          <6>2. image'[x] = image[m[x]]
            BY <3>2, <3>3
          <6> QED BY <2>0, <4>3, <5>3, <6>1, <6>2
        <5>5. \A x \in Cells : x \notin m_updateContainer'.changed /\ x \notin Dst(m) =>
                image'[x] = shown[x]
          BY <2>0, <3>2, <3>3, <4>3, <5>1 DEF rest
        <5> QED BY <5>1, <5>4, <5>5
      <4> QED BY <4>1, <4>2, <4>3
    <3>5. Applied(m_updateContainer)' = [x \in Cells |-> image'[x]]
      BY <3>1, <3>4 DEF Applied, Copied, Moved
    <3> QED BY <3>1, <3>5 DEF KeeperIsExact, Pictures
  <2>2. CASE TakeUpdate
    <3>1. shown' = image
      BY <2>2 DEF TakeUpdate, KeeperIsExact
    <3>2. Applied(m_updateContainer)' = [x \in Cells |-> image[x]]
      BY <2>2, <3>1, NoMoveType DEF TakeUpdate, Applied, Copied, Moved, Empty
    <3> QED BY <2>2, <3>2 DEF TakeUpdate, KeeperIsExact, ContractTypeOK, Pictures
  <2>3. CASE UNCHANGED contractVars
    BY <2>3 DEF contractVars, KeeperIsExact, Applied, Copied, Moved
  <2> QED BY <2>1, <2>2, <2>3 DEF ContractNext
<1> QED BY <1>1, <1>2, ContractTypeCorrect, PTL DEF ContractSpec
--------------------------------------------------------------------------------
(* Type correctness.                                                       *)

LEMMA InitTypeOK == Init => TypeOK
<1> SUFFICES ASSUME Init PROVE TypeOK
  OBVIOUS
<1>1. screen \in Images
  BY Constants DEF Init
<1> QED BY <1>1, NoMoveType, Constants DEF Init, TypeOK

\* What a request of a viewer is.
LEMMA RequestType ==
  \A r \in Requests : r[1] \in SUBSET Cells /\ r[2] \in BOOLEAN
OBVIOUS

LEMMA StepTypeOK == TypeOK /\ [Next]_vars => TypeOK'
<1> SUFFICES ASSUME TypeOK, [Next]_vars PROVE TypeOK'
  OBVIOUS
<1> USE DEF screenVars, handlerVars, desktopVars, requestVars, senderVars,
            viewerVars, clientVars, serverVars
<1>1. CASE ScreenChanges
  BY <1>1 DEF ScreenChanges, TypeOK, Images
<1>2. CASE PropertiesChange
  BY <1>2, Constants DEF PropertiesChange, TypeOK
<1>3. ASSUME NEW r \in SUBSET Cells, Detect(r) PROVE TypeOK'
  BY <1>3 DEF Detect, TypeOK
<1>4. ASSUME NEW m \in Moves \cup {NoMove}, ExtractGrabFails(m) PROVE TypeOK'
  <2> DEFINE u == Extracted(m)
             everything == IF m_absoluteRect THEN Cells ELSE {}
  <2>1. u \in Containers /\ u.copied \in Moves \cup {NoMove}
    BY ExtractedType
  <2>2. AddChanged(u, everything) \in Containers
    BY <2>1, AddChangedType
  <2>3. m_backupFrameBuffer' = Moved(m_backupFrameBuffer, u.copied)
        /\ cont' = AddChanged(u, everything)
    BY <1>4 DEF ExtractGrabFails
  <2> HIDE DEF u, everything
  <2>4. m_backupFrameBuffer' \in Images
    BY <2>1, <2>3, ImageType DEF TypeOK
  <2>5. cont' \in Containers
    BY <2>2, <2>3
  <2>6. changes' \in Nat
    BY <1>4 DEF ExtractGrabFails, TypeOK
  <2> QED BY <1>4, <2>4, <2>5, <2>6 DEF ExtractGrabFails, TypeOK
<1>5. CASE DesktopRuns
  <2>1. CASE DesktopWakes
    BY <2>1 DEF DesktopWakes, TypeOK
  <2>2. CASE CheckReady
    BY <2>2 DEF CheckReady, TypeOK
  <2>3. CASE ExtractNewProperties
    <3>1. \A b \in BOOLEAN : [Empty EXCEPT !.resized = b] \in Containers
      BY NoMoveType DEF Containers
    <3>2. cont' \in Containers
      BY <2>3, <3>1 DEF ExtractNewProperties
    <3> QED BY <2>3, <3>2, Constants DEF ExtractNewProperties, TypeOK
  <2>4. CASE NothingToGive
    BY <2>4 DEF NothingToGive, TypeOK
  <2>5. CASE NewUpdates
    <3>1. keeper' \in Containers
      BY <2>5, AddContainerType DEF NewUpdates, TypeOK
    <3> QED BY <2>5, <3>1, NoMoveType DEF NewUpdates, TypeOK
  <2>6. CASE WakeSender
    BY <2>6 DEF WakeSender, TypeOK
  <2>7. CASE ClearFullRequests
    BY <2>7 DEF ClearFullRequests, TypeOK
  <2>8. ASSUME NEW m \in Moves \cup {NoMove}, Extract(m) PROVE TypeOK'
    <3> DEFINE u == Extracted(m)
               now == Filtered(u) \cup (IF m_absoluteRect THEN Cells ELSE {})
    <3>1. u \in Containers /\ u.copied \in Moves \cup {NoMove} /\ now \subseteq Cells
      BY ExtractedType
    <3>2. m_backupFrameBuffer' =
            Copied(Moved(m_backupFrameBuffer, u.copied), screen, Filtered(u))
          /\ cont' = [u EXCEPT !.changed = now]
      BY <2>8 DEF Extract
    <3> HIDE DEF u, now
    <3>3. cont' \in Containers
      BY <3>1, <3>2 DEF Containers
    <3>4. m_backupFrameBuffer' \in Images
      BY <3>1, <3>2, ImageType DEF TypeOK
    <3> QED BY <2>8, <3>3, <3>4 DEF Extract, TypeOK
  <2> QED BY <1>5, <2>1, <2>2, <2>3, <2>4, <2>5, <2>6, <2>7, <2>8 DEF DesktopRuns
<1>6. CASE SenderRuns
  <2>1. CASE SenderWakes
    BY <2>1 DEF SenderWakes, TypeOK
  <2>2. CASE ExtractReqRegions
    <3>1. taken' \in Taken
      BY <2>2 DEF ExtractReqRegions, TypeOK, Taken
    <3> QED BY <2>2, <3>1 DEF ExtractReqRegions, TypeOK
  <2>3. CASE ExtractUpdates
    BY <2>3, NoMoveType DEF ExtractUpdates, TypeOK
  <2>4. CASE UpdateFrameBuffer
    <3>1. upd' \in Containers
      BY <2>4 DEF UpdateFrameBuffer, TypeOK, Containers
    <3>2. m_frameBuffer' \in Images
      <4>1. CASE fbStale
        BY <2>4, <4>1, Constants DEF UpdateFrameBuffer
      <4>2. CASE ~fbStale
        <5>1. m_frameBuffer' = Copied(m_frameBuffer, m_backupFrameBuffer, ToSync)
          BY <2>4, <4>2 DEF UpdateFrameBuffer
        <5> QED BY <5>1, ImageType DEF TypeOK
      <4> QED BY <4>1, <4>2
    <3>3. fbStale' \in BOOLEAN /\ spc' = "crop"
      BY <2>4 DEF UpdateFrameBuffer, TypeOK
    <3>4. UNCHANGED <<serverVars, keeper, m_newUpdatesEvent, m_busy, requestVars,
                      taken, viewerVars>>
      BY <2>4 DEF UpdateFrameBuffer
    <3> QED BY <3>1, <3>2, <3>3, <3>4 DEF TypeOK
  <2>5. CASE SendNewSize
    <3>1. keeper' \in Containers
      BY <2>5, AddChangedType DEF SendNewSize, Dazzled, TypeOK
    <3> QED BY <2>5, <3>1, NoMoveType, Constants DEF SendNewSize, TypeOK
  <2>6. CASE CropUpdContForReqRegions
    <3>1. ToSend \subseteq Cells /\ ReqRegion \subseteq Cells
      <4>1. Dst(upd.copied) \subseteq Cells /\ upd.changed \subseteq Cells
        BY MoveType DEF TypeOK, Containers
      <4> QED BY <4>1 DEF ToSend, ReqRegion, TypeOK, Taken
    <3>2. keeper' \in Containers
      BY <2>6, <3>1, AddChangedType DEF CropUpdContForReqRegions, BackRegion, TypeOK
    <3>3. upd' \in Containers
      BY <2>6, <3>1 DEF CropUpdContForReqRegions, TypeOK, Containers
    <3> QED BY <2>6, <3>2, <3>3 DEF CropUpdContForReqRegions, TypeOK
  <2>7. CASE SendFramebufferUpdate
    <3>1. upd.copied \in Moves \cup {NoMove}
      BY DEF TypeOK, Containers
    <3>2. view' \in Images
      BY <2>7, <3>1, ImageType DEF SendFramebufferUpdate, TypeOK
    <3> QED BY <2>7, <3>2, NoMoveType, Constants DEF SendFramebufferUpdate, TypeOK
  <2>8. CASE RestoreReqRegions
    BY <2>8, Constants DEF RestoreReqRegions, FlagsToRestore, TypeOK, Taken
  <2>9. CASE SenderDone
    BY <2>9, Constants DEF SenderDone, TypeOK
  <2> QED BY <1>6, <2>1, <2>2, <2>3, <2>4, <2>5, <2>6, <2>7, <2>8, <2>9
          DEF SenderRuns
<1>7. CASE DispatcherRuns
  <2>1. CASE CheckForUpdates
    BY <2>1 DEF CheckForUpdates, AlreadyHasUpdates, HasUpdates, TypeOK, Containers
  <2>2. CASE OnUpdateRequest
    BY <2>2, Constants DEF OnUpdateRequest, TypeOK, ReadRequests
  <2> QED BY <1>7, <2>1, <2>2 DEF DispatcherRuns
<1>8. ASSUME NEW r \in Requests, ReadUpdateRequest(r[1], r[2]) PROVE TypeOK'
  <2>1. m_requestedIncrReg' \subseteq Cells /\ m_requestedFullReg' \subseteq Cells
        /\ m_incrUpdIsReq' \in BOOLEAN /\ m_fullUpdIsReq' \in BOOLEAN
    BY <1>8, RequestType DEF ReadUpdateRequest, TypeOK
  <2>2. req' \in ReadRequests
    BY <1>8, <2>1, RequestType DEF ReadUpdateRequest, ReadRequests
  <2> QED BY <1>8, <2>1, <2>2 DEF ReadUpdateRequest, TypeOK
<1>9. ASSUME NEW r \in Requests, OtherClientRequests(r[1], r[2]) PROVE TypeOK'
  BY <1>9, RequestType DEF OtherClientRequests, TypeOK
<1>10. CASE UNCHANGED vars
  BY <1>10 DEF vars, TypeOK
<1> QED BY <1>1, <1>2, <1>3, <1>4, <1>5, <1>6, <1>7, <1>8, <1>9, <1>10 DEF Next

\* Every variable stays within its type: regions on the screen, positions of
\* the threads, images over the values a cell can have.
THEOREM TypeCorrect == SafetySpec => []TypeOK
<1>1. Init => TypeOK
  BY InitTypeOK
<1>2. TypeOK /\ [Next]_vars => TypeOK'
  BY StepTypeOK
<1> QED BY <1>1, <1>2, PTL DEF SafetySpec

--------------------------------------------------------------------------------
(* No update is lost.                                                      *)

\* The buffers and containers stay, and the sender takes no step that BufferIsCovered
\* tells apart.
Aside ==
  /\ UNCHANGED <<view, m_backupFrameBuffer, m_frameBuffer, m_absoluteRect, cont,
                 keeper, upd, fbStale>>
  /\ \/ spc' = spc
     \/ spc \notin {"sync", "crop"} /\ spc' \notin {"crop", "send"}

LEMMA AsideKeeps ==
  NoUpdateIsLost /\ BufferIsCovered /\ Aside => NoUpdateIsLost' /\ BufferIsCovered'
BY DEF NoUpdateIsLost, BufferIsCovered, Aside, OnItsWay, Mentions

LEMMA InitIInv == Init => IInv
BY NoMoveType DEF Init, IInv, NoUpdateIsLost, BufferIsCovered, LocalsInv,
  NoCopyIsSent, RequestHasFlag, OnItsWay

LEMMA StepLocals ==
  ASSUME TypeOK, LocalsInv, [Next]_vars
  PROVE  LocalsInv'
<1> USE DEF LocalsInv, screenVars, handlerVars, desktopVars, requestVars,
            senderVars, viewerVars, clientVars, serverVars
<1>1. CASE ScreenChanges \/ PropertiesChange \/ \E r \in SUBSET Cells : Detect(r)
  BY <1>1 DEF ScreenChanges, PropertiesChange, Detect
<1>2. CASE \E m \in Moves \cup {NoMove} : ExtractGrabFails(m)
  BY <1>2 DEF ExtractGrabFails
<1>3. CASE DesktopRuns
  BY <1>3 DEF DesktopRuns, DesktopWakes, CheckReady, ExtractNewProperties,
    NothingToGive, NewUpdates, WakeSender, ClearFullRequests, Extract, IsEmpty
<1>4. CASE SenderRuns
  <2>1. CASE SenderWakes \/ ExtractUpdates \/ UpdateFrameBuffer
    BY <1>4, <2>1 DEF SenderWakes, ExtractUpdates, UpdateFrameBuffer
  <2>2. CASE ExtractReqRegions
    BY <2>2 DEF ExtractReqRegions
  <2>3. CASE CropUpdContForReqRegions
    BY <2>3 DEF CropUpdContForReqRegions
  <2>4. CASE SendNewSize \/ SendFramebufferUpdate \/ RestoreReqRegions
             \/ SenderDone
    BY <2>4 DEF SendNewSize, SendFramebufferUpdate, RestoreReqRegions,
      SenderDone, IsEmpty
  <2> QED BY <1>4, <2>1, <2>2, <2>3, <2>4 DEF SenderRuns
<1>5. CASE DispatcherRuns
  BY <1>5 DEF DispatcherRuns, CheckForUpdates, OnUpdateRequest
<1>6. CASE \E r \in Requests :
             ReadUpdateRequest(r[1], r[2]) \/ OtherClientRequests(r[1], r[2])
  BY <1>6 DEF ReadUpdateRequest, OtherClientRequests
<1>7. CASE UNCHANGED vars
  BY <1>7 DEF vars
<1> QED BY <1>1, <1>2, <1>3, <1>4, <1>5, <1>6, <1>7 DEF Next

\* Cropping declines every copy.
LEMMA StepNoCopy ==
  ASSUME ~CopyRectEnabled, TypeOK, NoCopyIsSent, [Next]_vars
  PROVE  NoCopyIsSent'
<1> USE DEF NoCopyIsSent, screenVars, handlerVars, desktopVars, requestVars,
            senderVars, viewerVars, clientVars, serverVars
<1>1. CASE CropUpdContForReqRegions
  <2>1. upd'.copied = NoMove
    BY <1>1 DEF CropUpdContForReqRegions, CopyInscribed, TypeOK, Containers
  <2> QED BY <2>1
<1>2. CASE UNCHANGED <<spc, upd>>
  BY <1>2
<1>3. CropUpdContForReqRegions \/ spc' # "send" \/ UNCHANGED <<spc, upd>>
  BY DEF Next, ScreenChanges, PropertiesChange, Detect, ExtractGrabFails,
    DesktopRuns, DesktopWakes, CheckReady, ExtractNewProperties, NothingToGive,
    NewUpdates, WakeSender, ClearFullRequests, Extract, SenderRuns, SenderWakes,
    ExtractReqRegions, ExtractUpdates, UpdateFrameBuffer, SendNewSize,
    SendFramebufferUpdate, RestoreReqRegions, SenderDone, DispatcherRuns,
    CheckForUpdates, OnUpdateRequest, ReadUpdateRequest, OtherClientRequests, vars
<1> QED BY <1>1, <1>2, <1>3

\* The flags are raised with the regions, taken with them, and given back
\* with them.
LEMMA StepFlag ==
  ASSUME TypeOK, LocalsInv, RequestHasFlag, [Next]_vars
  PROVE  RequestHasFlag'
<1> USE DEF RequestHasFlag, screenVars, handlerVars, desktopVars, requestVars,
            senderVars, viewerVars, clientVars, serverVars
<1>1. CASE ExtractReqRegions
  BY <1>1 DEF ExtractReqRegions
<1>2. CASE RestoreReqRegions
  BY <1>2 DEF RestoreReqRegions, FlagsToRestore, LocalsInv
<1>3. ASSUME NEW r \in Requests, ReadUpdateRequest(r[1], r[2])
      PROVE  RequestHasFlag'
  BY <1>3, RequestType DEF ReadUpdateRequest
<1>4. CASE UNCHANGED requestVars
  BY <1>4
<1>5. \/ UNCHANGED requestVars \/ ExtractReqRegions \/ RestoreReqRegions
      \/ \E r \in Requests : ReadUpdateRequest(r[1], r[2])
  BY DEF Next, ScreenChanges, PropertiesChange, Detect, ExtractGrabFails,
    DesktopRuns, DesktopWakes, CheckReady, ExtractNewProperties, NothingToGive,
    NewUpdates, WakeSender, ClearFullRequests, Extract, SenderRuns, SenderWakes,
    ExtractUpdates, UpdateFrameBuffer, SendNewSize, CropUpdContForReqRegions,
    SendFramebufferUpdate, SenderDone, DispatcherRuns, CheckForUpdates,
    OnUpdateRequest, OtherClientRequests, vars
<1> QED BY <1>1, <1>2, <1>3, <1>4, <1>5

\* The desktop thread: what it changes in the backup it mentions in its
\* container, and what it hands over it mentions in the keeper.
LEMMA DesktopKeeps ==
  ASSUME TypeOK, IInv, DesktopRuns \/ \E m \in Moves \cup {NoMove} : ExtractGrabFails(m)
  PROVE  NoUpdateIsLost' /\ BufferIsCovered'
<1> USE DEF screenVars, handlerVars, desktopVars, requestVars, senderVars,
            viewerVars, clientVars, serverVars, IInv
\* What both forms of extract() come to.
<1> DEFINE Renewed ==
      /\ dpc = "extract"
      /\ UNCHANGED <<view, m_frameBuffer, keeper, upd, fbStale, spc>>
      /\ \A x \in Cells : m_absoluteRect \/ m_backupFrameBuffer'[x] # m_backupFrameBuffer[x]
                            => Mentions(cont', x)
<1>1. Renewed => NoUpdateIsLost' /\ BufferIsCovered'
  <2> SUFFICES ASSUME Renewed PROVE NoUpdateIsLost' /\ BufferIsCovered'
    OBVIOUS
  <2>1. \A x \in Cells : ~Mentions(cont, x)
    BY NoMoveType DEF LocalsInv, Mentions, Empty
  <2>2. NoUpdateIsLost'
    <3> SUFFICES ASSUME NEW x \in Cells, view'[x] # m_backupFrameBuffer'[x]
                 PROVE  OnItsWay(x)'
      BY DEF NoUpdateIsLost
    <3>1. Mentions(cont, x)' \/ (~m_absoluteRect /\ view[x] # m_backupFrameBuffer[x])
      BY DEF Mentions
    <3> QED BY <2>1, <3>1 DEF NoUpdateIsLost, OnItsWay, Mentions
  <2>3. BufferIsCovered'
    <3> SUFFICES ASSUME NEW x \in Cells,
                        m_frameBuffer'[x] # m_backupFrameBuffer'[x],
                        ~Mentions(cont, x)'
                 PROVE  \/ m_absoluteRect' \/ Mentions(cont, x)' \/ Mentions(keeper, x)'
                        \/ spc' = "sync" /\ Mentions(upd, x)'
                        \/ spc' = "crop" /\ upd'.resized
                        \/ fbStale' /\ spc' \notin {"crop", "send"}
      BY DEF BufferIsCovered
    <3>1. ~m_absoluteRect /\ m_frameBuffer[x] # m_backupFrameBuffer[x]
      BY DEF Mentions
    <3> QED BY <2>1, <3>1 DEF BufferIsCovered, Mentions
  <2> QED BY <2>2, <2>3
<1>2. ASSUME NEW m \in Moves \cup {NoMove}, Extract(m) \/ ExtractGrabFails(m)
      PROVE  Renewed
  <2> DEFINE u == Extracted(m)
             everything == IF m_absoluteRect THEN Cells ELSE {}
             moved == Moved(m_backupFrameBuffer, u.copied)
  <2>1. u \in Containers /\ u.copied \in Moves \cup {NoMove}
    BY ExtractedType
  <2>2. \A x \in Cells : moved[x] # m_backupFrameBuffer[x] => x \in Dst(u.copied)
    BY DEF Moved
  <2>3. CASE ExtractGrabFails(m)
    <3>1. m_backupFrameBuffer' = moved /\ cont' = AddChanged(u, everything)
      BY <2>3 DEF ExtractGrabFails
    <3>2. cont'.copied = u.copied /\ cont'.changed = u.changed \cup everything
      BY <2>1, <3>1, AddChangedType
    <3> HIDE DEF u, moved
    <3>3. \A x \in Cells : m_absoluteRect \/ moved[x] # m_backupFrameBuffer[x]
                             => Mentions(cont', x)
      BY <2>2, <3>2 DEF Mentions
    <3> QED BY <2>3, <3>1, <3>3 DEF ExtractGrabFails
  <2>4. CASE Extract(m)
    <3>1. m_backupFrameBuffer' = Copied(moved, screen, Filtered(u))
          /\ cont' = [u EXCEPT !.changed = Filtered(u) \cup everything]
      BY <2>4 DEF Extract
    <3> HIDE DEF u, moved
    <3>2. cont'.copied = u.copied /\ cont'.changed = Filtered(u) \cup everything
      BY <2>1, <3>1 DEF Containers
    <3>3. \A x \in Cells : x \notin Filtered(u) => m_backupFrameBuffer'[x] = moved[x]
      BY <3>1 DEF Copied
    <3>4. \A x \in Cells :
            m_absoluteRect \/ m_backupFrameBuffer'[x] # m_backupFrameBuffer[x]
              => Mentions(cont', x)
      BY <2>2, <3>2, <3>3 DEF Mentions
    <3> QED BY <2>4, <3>4 DEF Extract
  <2> QED BY <1>2, <2>3, <2>4
<1>3. CASE NewUpdates
  <2>1. keeper' = AddContainer(keeper, cont)
        /\ UNCHANGED <<view, m_backupFrameBuffer, m_frameBuffer, m_absoluteRect,
                       upd, fbStale, spc>>
    BY <1>3 DEF NewUpdates
  <2>2. \A x \in Cells : Mentions(keeper, x) \/ Mentions(cont, x) => Mentions(keeper, x)'
    BY <2>1, AddContainerType DEF TypeOK, Mentions
  <2>3. NoUpdateIsLost'
    BY <2>1, <2>2 DEF NoUpdateIsLost, OnItsWay, Mentions
  <2>4. BufferIsCovered'
    BY <2>1, <2>2 DEF BufferIsCovered, Mentions
  <2> QED BY <2>3, <2>4
<1>4. CASE ExtractNewProperties
  BY <1>4 DEF ExtractNewProperties, NoUpdateIsLost, BufferIsCovered, OnItsWay
<1>5. CASE DesktopWakes \/ CheckReady \/ NothingToGive \/ WakeSender
           \/ ClearFullRequests
  <2>1. Aside
    BY <1>5 DEF DesktopWakes, CheckReady, NothingToGive, WakeSender,
      ClearFullRequests, Aside
  <2> QED BY <2>1, AsideKeeps
<1> QED BY <1>1, <1>2, <1>3, <1>4, <1>5 DEF DesktopRuns

\* The sender thread: a mention leaves the keeper for the sender's container,
\* and leaves that one when the cell is sent as it is in the backup, or
\* for the keeper again.
LEMMA SenderKeeps ==
  ASSUME ~CopyRectEnabled, TypeOK, IInv, SenderRuns
  PROVE  NoUpdateIsLost' /\ BufferIsCovered'
<1> USE DEF screenVars, handlerVars, desktopVars, requestVars, senderVars,
            viewerVars, clientVars, serverVars, IInv
<1>1. CASE ExtractUpdates
  <2>1. UNCHANGED <<view, m_backupFrameBuffer, m_frameBuffer, m_absoluteRect,
                    cont, fbStale>>
        /\ upd' = keeper /\ spc = "extractUpd" /\ spc' = "sync"
    BY <1>1 DEF ExtractUpdates
  <2>2. \A x \in Cells : ~Mentions(upd, x)
    BY <2>1, NoMoveType DEF LocalsInv, Mentions, Empty
  <2>3. NoUpdateIsLost'
    BY <2>1, <2>2 DEF NoUpdateIsLost, OnItsWay, Mentions
  <2> QED BY <2>1, <2>3 DEF BufferIsCovered, Mentions
<1>2. CASE UpdateFrameBuffer
  <2>1. UNCHANGED <<view, m_backupFrameBuffer, m_absoluteRect, cont, keeper>>
        /\ spc = "sync" /\ spc' = "crop"
    BY <1>2 DEF UpdateFrameBuffer
  <2>2. CASE fbStale
    <3>1. upd' = [upd EXCEPT !.resized = TRUE]
      BY <1>2, <2>2 DEF UpdateFrameBuffer
    <3>2. upd'.resized /\ upd'.copied = upd.copied /\ upd'.changed = upd.changed
      BY <3>1 DEF TypeOK, Containers
    <3> QED BY <2>1, <3>2 DEF NoUpdateIsLost, BufferIsCovered, OnItsWay, Mentions
  <2>3. CASE ~fbStale
    <3>1. m_frameBuffer' = Copied(m_frameBuffer, m_backupFrameBuffer, ToSync)
          /\ UNCHANGED <<upd, fbStale>>
      BY <1>2, <2>3 DEF UpdateFrameBuffer
    <3>2. \A x \in Cells : m_frameBuffer'[x] =
                             IF x \in ToSync THEN m_backupFrameBuffer[x]
                             ELSE m_frameBuffer[x]
      BY <3>1 DEF Copied
    <3>3. BufferIsCovered'
      BY <2>1, <2>3, <3>1, <3>2 DEF BufferIsCovered, Mentions, ToSync
    <3> QED BY <2>1, <3>1, <3>3 DEF NoUpdateIsLost, OnItsWay, Mentions
  <2> QED BY <2>2, <2>3
<1>3. CASE SendNewSize
  <2>1. keeper' = AddChanged(keeper, Cells)
    BY <1>3 DEF SendNewSize, Dazzled
  <2>2. keeper'.changed = keeper.changed \cup Cells
    BY <2>1, AddChangedType DEF TypeOK
  <2> QED BY <2>2 DEF NoUpdateIsLost, BufferIsCovered, OnItsWay, Mentions
<1>4. CASE CropUpdContForReqRegions
  <2>1. UNCHANGED <<view, m_backupFrameBuffer, m_frameBuffer, m_absoluteRect,
                    cont, fbStale>>
        /\ spc = "crop" /\ spc' = "send" /\ ~upd.resized
    BY <1>4 DEF CropUpdContForReqRegions, ScreenSizeChanged
  <2>2. keeper' = AddChanged(keeper, BackRegion)
    BY <1>4 DEF CropUpdContForReqRegions
  <2>3. BackRegion \subseteq Cells
    <3>1. Dst(upd.copied) \subseteq Cells /\ upd.changed \subseteq Cells
      BY MoveType DEF TypeOK, Containers
    <3> QED BY <3>1 DEF BackRegion, ToSend, TypeOK, Taken
  <2>4. keeper'.copied = keeper.copied /\ keeper'.changed = keeper.changed \cup BackRegion
    BY <2>2, <2>3, AddChangedType DEF TypeOK
  <2>5. upd'.changed = (ToSend \cup Dst(upd.copied)) \cap ReqRegion
    BY <1>4 DEF CropUpdContForReqRegions, CopyInscribed, TypeOK, Containers
  <2>6. \A x \in Cells : Mentions(upd, x) => Mentions(keeper, x)' \/ Mentions(upd, x)'
    BY <2>4, <2>5 DEF Mentions, BackRegion, ToSend
  <2>7. \A x \in Cells : Mentions(keeper, x) => Mentions(keeper, x)'
    BY <2>4 DEF Mentions
  <2>8. NoUpdateIsLost'
    BY <2>1, <2>6, <2>7 DEF NoUpdateIsLost, OnItsWay, Mentions
  <2> QED BY <2>1, <2>7, <2>8 DEF BufferIsCovered, Mentions
<1>5. CASE SendFramebufferUpdate
  <2>1. UNCHANGED <<m_backupFrameBuffer, m_frameBuffer, m_absoluteRect, cont,
                    keeper, fbStale>>
        /\ spc = "send" /\ spc' = "done"
        /\ view' = Copied(Moved(view, upd.copied), m_frameBuffer, upd.changed)
    BY <1>5 DEF SendFramebufferUpdate
  <2>2. upd.copied = NoMove
    BY <2>1 DEF NoCopyIsSent
  <2>3. \A x \in Cells : view'[x] = IF x \in upd.changed THEN m_frameBuffer[x]
                                    ELSE view[x]
    BY <2>1, <2>2, NoMoveType DEF Copied, Moved
  <2>4. NoUpdateIsLost'
    <3> SUFFICES ASSUME NEW x \in Cells, view'[x] # m_backupFrameBuffer'[x]
                 PROVE  m_absoluteRect \/ Mentions(cont, x) \/ Mentions(keeper, x)
      BY <2>1 DEF NoUpdateIsLost, OnItsWay, Mentions
    <3>1. CASE x \in upd.changed
      BY <2>1, <2>3, <3>1 DEF BufferIsCovered
    <3>2. CASE x \notin upd.changed
      BY <2>1, <2>2, <2>3, <3>2, NoMoveType DEF NoUpdateIsLost, OnItsWay, Mentions
    <3> QED BY <3>1, <3>2
  <2> QED BY <2>1, <2>4 DEF BufferIsCovered, Mentions
<1>6. CASE SenderWakes \/ ExtractReqRegions \/ RestoreReqRegions \/ SenderDone
  <2>1. Aside
    BY <1>6 DEF SenderWakes, ExtractReqRegions, RestoreReqRegions, SenderDone, Aside
  <2> QED BY <2>1, AsideKeeps
<1> QED BY <1>1, <1>2, <1>3, <1>4, <1>5, <1>6 DEF SenderRuns

LEMMA StepIInv ==
  ASSUME ~CopyRectEnabled, TypeOK, IInv, [Next]_vars
  PROVE  IInv'
<1>1. LocalsInv'
  BY StepLocals DEF IInv
<1>2. RequestHasFlag'
  BY StepFlag DEF IInv
<1>3. NoUpdateIsLost' /\ BufferIsCovered'
  <2> USE DEF screenVars, handlerVars, desktopVars, requestVars, senderVars,
              viewerVars, clientVars, serverVars
  <2>1. CASE DesktopRuns \/ \E m \in Moves \cup {NoMove} : ExtractGrabFails(m)
    BY <2>1, DesktopKeeps
  <2>2. CASE SenderRuns
    BY <2>2, SenderKeeps
  <2>3. CASE ~DesktopRuns /\ ~SenderRuns
             /\ ~\E m \in Moves \cup {NoMove} : ExtractGrabFails(m)
    <3>1. Aside
      BY <2>3 DEF Next, ScreenChanges, PropertiesChange, Detect, DispatcherRuns,
        CheckForUpdates, OnUpdateRequest, ReadUpdateRequest, OtherClientRequests,
        vars, Aside
    <3> QED BY <3>1, AsideKeeps DEF IInv
  <2> QED BY <2>1, <2>2, <2>3
<1>4. NoCopyIsSent'
  BY StepNoCopy DEF IInv
<1> QED BY <1>1, <1>2, <1>3, <1>4 DEF IInv

\* For a viewer without CopyRect, the sender's buffer is behind the backup
\* only where it will be copied again, the locals of the threads are
\* empty where they are not in use, and requests keep their flags.
THEOREM Inductive ==
  ASSUME ~CopyRectEnabled
  PROVE  SafetySpec => []IInv
<1>1. Init => TypeOK /\ IInv
  BY InitTypeOK, InitIInv
<1>2. TypeOK /\ IInv /\ [Next]_vars => TypeOK' /\ IInv'
  BY StepTypeOK, StepIInv
<1> QED BY <1>1, <1>2, PTL DEF SafetySpec

\* For a viewer without CopyRect, no change of the backup frame buffer is lost
\* between the desktop thread and the viewer, however desktop, sender and
\* dispatcher threads interleave, and whatever the viewer asks for.
THEOREM NothingIsLost ==
  ASSUME ~CopyRectEnabled
  PROVE  SafetySpec => []NoUpdateIsLost
<1>1. IInv => NoUpdateIsLost
  BY DEF IInv
<1> QED BY <1>1, Inductive, PTL

\* A region that waits for an answer keeps a flag that makes its client ready
\* for one, with CopyRect or without.
THEOREM RequestsKeepTheirFlags == SafetySpec => []RequestHasFlag
<1>1. Init => TypeOK /\ LocalsInv /\ RequestHasFlag
  BY InitTypeOK, InitIInv DEF IInv
<1>2. TypeOK /\ LocalsInv /\ RequestHasFlag /\ [Next]_vars =>
        TypeOK' /\ LocalsInv' /\ RequestHasFlag'
  BY StepTypeOK, StepLocals, StepFlag
<1> QED BY <1>1, <1>2, PTL DEF SafetySpec

--------------------------------------------------------------------------------
(* No update is skipped.                                                   *)

\* The sender has a request in hand, or one waits for it.
AtWork == spc \in {"extractUpd", "sync", "crop", "send"}
Flagged == m_incrUpdIsReq \/ m_fullUpdIsReq
Waiting == m_requestedIncrReg \cup m_requestedFullReg

\* A viewer with one request at a time has it either waiting or in hand.
OneRequest ==
  /\ Flagged => asked # 0 /\ ~AtWork
  /\ AtWork => asked # 0

\* What has come since the sender looked makes it look again.
SeenInHand ==
  spc \in {"sync", "crop", "send"} /\ HasUpdates(keeper, ReqRegion) =>
    m_newUpdatesEvent \/ dpc = "notify"

\* The dispatcher is about to look for all that may wait when it does.
CheckedForAll ==
  rpc = "check" =>
    Waiting \subseteq req.combined /\ (AtWork => ReqRegion \subseteq req.combined)

\* NoUpdateIsSkipped, before the sender waits.
SeenWaiting ==
  spc \in {"wait", "done"} /\ Flagged /\ HasUpdates(keeper, Waiting) =>
    m_newUpdatesEvent \/ dpc = "notify" \/ rpc = "check"

CallInv == OneRequest /\ SeenInHand /\ CheckedForAll /\ SeenWaiting

LEMMA MoreIsAskedFor ==
  ASSUME NEW u, NEW r, NEW s, r \subseteq s, HasUpdates(u, r)
  PROVE  HasUpdates(u, s)
BY DEF HasUpdates

LEMMA StepOneRequest ==
  ASSUME MaxAsked = 1, TypeOK, OneRequest, [Next]_vars
  PROVE  OneRequest'
<1> USE DEF OneRequest, Flagged, AtWork, screenVars, handlerVars, desktopVars,
            requestVars, senderVars, viewerVars, clientVars, serverVars
<1>1. ASSUME NEW r, NEW b, ReadUpdateRequest(r, b) PROVE OneRequest'
  <2>1. asked = 0 /\ asked' = 1 /\ UNCHANGED spc
    BY <1>1 DEF ReadUpdateRequest, TypeOK
  <2> QED BY <2>1
<1>2. CASE SenderRuns
  <2>1. CASE SenderWakes \/ ExtractReqRegions \/ ExtractUpdates
             \/ UpdateFrameBuffer
    BY <2>1 DEF SenderWakes, ExtractReqRegions, ExtractUpdates,
      UpdateFrameBuffer
  <2>2. CASE SendNewSize \/ CropUpdContForReqRegions \/ SendFramebufferUpdate
             \/ RestoreReqRegions \/ SenderDone
    BY <2>2 DEF SendNewSize, CropUpdContForReqRegions, SendFramebufferUpdate,
      RestoreReqRegions, SenderDone
  <2> QED BY <1>2, <2>1, <2>2 DEF SenderRuns
<1>3. UNCHANGED <<requestVars, spc, asked>> \/ SenderRuns
      \/ \E r \in Requests : ReadUpdateRequest(r[1], r[2])
  BY DEF Next, ScreenChanges, PropertiesChange, Detect, ExtractGrabFails,
    DesktopRuns, DesktopWakes, CheckReady, ExtractNewProperties, NothingToGive,
    NewUpdates, WakeSender, ClearFullRequests, Extract, DispatcherRuns,
    CheckForUpdates, OnUpdateRequest, OtherClientRequests, vars
<1> QED BY <1>1, <1>2, <1>3

\* Steps that leave the keeper, what is asked for and who is called alone.
NotCalling ==
  UNCHANGED <<keeper, requestVars, spc, taken, m_newUpdatesEvent, rpc, req>>

LEMMA NotCallingKeeps ==
  ASSUME SeenInHand, CheckedForAll, SeenWaiting, NotCalling,
         dpc # "notify" \/ dpc' = "notify"
  PROVE  SeenInHand' /\ CheckedForAll' /\ SeenWaiting'
<1> USE DEF NotCalling, requestVars, Flagged, Waiting, AtWork, ReqRegion
<1>1. SeenInHand'
  BY DEF SeenInHand, HasUpdates
<1>2. CheckedForAll'
  BY DEF CheckedForAll
<1>3. SeenWaiting'
  BY DEF SeenWaiting, HasUpdates
<1> QED BY <1>1, <1>2, <1>3

\* The threads besides the sender's.
LEMMA OthersCall ==
  ASSUME TypeOK, OneRequest, SeenInHand, CheckedForAll, SeenWaiting, MaxAsked = 1,
         [Next]_vars, ~SenderRuns
  PROVE  SeenInHand' /\ CheckedForAll' /\ SeenWaiting'
<1> USE DEF screenVars, handlerVars, desktopVars, requestVars, senderVars,
            viewerVars, clientVars, serverVars
<1>1. CASE NewUpdates
  <2>1. dpc' = "notify" /\ UNCHANGED <<requestVars, spc, taken, rpc, req>>
    BY <1>1 DEF NewUpdates
  <2>2. CheckedForAll'
    BY <2>1 DEF CheckedForAll, Waiting, AtWork, ReqRegion
  <2> QED BY <2>1, <2>2 DEF SeenInHand, SeenWaiting
<1>2. CASE WakeSender
  <2>1. m_newUpdatesEvent' = TRUE /\ UNCHANGED <<requestVars, spc, taken, rpc, req>>
    BY <1>2 DEF WakeSender
  <2>2. CheckedForAll'
    BY <2>1 DEF CheckedForAll, Waiting, AtWork, ReqRegion
  <2> QED BY <2>1, <2>2 DEF SeenInHand, SeenWaiting
<1>3. ASSUME NEW r, NEW b, ReadUpdateRequest(r, b)
      PROVE  SeenInHand' /\ CheckedForAll' /\ SeenWaiting'
  <2>1. asked = 0 /\ ~AtWork /\ spc' = spc /\ rpc' = "check"
    BY <1>3 DEF ReadUpdateRequest, TypeOK, OneRequest
  <2>2. req'.combined = Waiting'
    BY <1>3 DEF ReadUpdateRequest, Waiting
  <2>3. ~AtWork'
    BY <2>1 DEF AtWork
  <2> QED BY <2>1, <2>2, <2>3 DEF SeenInHand, CheckedForAll, SeenWaiting, AtWork
<1>4. CASE CheckForUpdates
  <2>1. /\ rpc = "check" /\ rpc' = "listen"
        /\ m_newUpdatesEvent \/ HasUpdates(keeper, req.combined) <=>
             m_newUpdatesEvent'
        /\ UNCHANGED <<keeper, requestVars, spc, taken, dpc>>
    BY <1>4 DEF CheckForUpdates, AlreadyHasUpdates, TypeOK, HasUpdates,
      Containers
  <2>2. Waiting \subseteq req.combined
    BY <2>1 DEF CheckedForAll
  <2>3. HasUpdates(keeper, Waiting) => HasUpdates(keeper, req.combined)
    BY <2>2, MoreIsAskedFor
  <2>4. SeenInHand'
    BY <2>1 DEF SeenInHand, HasUpdates, ReqRegion
  <2>5. SeenWaiting'
    <3>1. Waiting' = Waiting /\ Flagged' = Flagged /\ keeper' = keeper
          /\ spc' = spc
      BY <2>1 DEF Waiting, Flagged
    <3>2. HasUpdates(keeper, Waiting)' => m_newUpdatesEvent'
      BY <2>1, <2>3, <3>1 DEF HasUpdates
    <3> QED BY <3>2 DEF SeenWaiting
  <2> QED BY <2>1, <2>4, <2>5 DEF CheckedForAll
<1>5. CASE OnUpdateRequest
  <2>1. /\ rpc = "listen" /\ rpc' = "idle"
        /\ UNCHANGED <<keeper, requestVars, spc, taken, dpc, m_newUpdatesEvent>>
    BY <1>5 DEF OnUpdateRequest
  <2>2. SeenInHand'
    BY <2>1 DEF SeenInHand, HasUpdates, ReqRegion
  <2>3. SeenWaiting'
    BY <2>1 DEF SeenWaiting, HasUpdates, Waiting, Flagged
  <2> QED BY <2>1, <2>2, <2>3 DEF CheckedForAll
<1>6. \/ NewUpdates \/ WakeSender \/ CheckForUpdates \/ OnUpdateRequest
      \/ \E r \in Requests : ReadUpdateRequest(r[1], r[2])
      \/ NotCalling /\ (dpc # "notify" \/ dpc' = "notify")
  BY DEF Next, ScreenChanges, PropertiesChange, Detect, ExtractGrabFails,
    DesktopRuns, DesktopWakes, CheckReady, ExtractNewProperties, NothingToGive,
    ClearFullRequests, Extract, DispatcherRuns, OtherClientRequests, vars,
    NotCalling
<1> QED BY <1>1, <1>2, <1>3, <1>4, <1>5, <1>6, NotCallingKeeps

LEMMA SenderCalls ==
  ASSUME TypeOK, RequestHasFlag, OneRequest, SeenInHand, CheckedForAll,
         SeenWaiting, SenderRuns
  PROVE  SeenInHand' /\ CheckedForAll' /\ SeenWaiting'
<1> USE DEF screenVars, handlerVars, desktopVars, requestVars, senderVars,
            viewerVars, clientVars, serverVars
<1>1. UNCHANGED <<dpc, rpc, req>>
  BY DEF SenderRuns, SenderWakes, ExtractReqRegions, ExtractUpdates,
    UpdateFrameBuffer, SendNewSize, CropUpdContForReqRegions,
    SendFramebufferUpdate, RestoreReqRegions, SenderDone
<1>2. CASE SenderWakes
  <2>1. spc' = "extractReq" /\ UNCHANGED <<requestVars>>
    BY <1>2 DEF SenderWakes
  <2> QED BY <1>1, <2>1
      DEF SeenInHand, CheckedForAll, SeenWaiting, AtWork, Waiting
<1>3. CASE ExtractReqRegions
  <2>1. /\ taken'.incr = m_requestedIncrReg /\ taken'.full = m_requestedFullReg
        /\ Waiting' = {} /\ ~Flagged' /\ spc' \in {"extractUpd", "done"}
    BY <1>3 DEF ExtractReqRegions, Waiting, Flagged
  <2>2. ReqRegion' = Waiting
    BY <2>1 DEF ReqRegion, Waiting
  <2> QED BY <1>1, <2>1, <2>2 DEF SeenInHand, CheckedForAll, SeenWaiting
<1>4. CASE ExtractUpdates
  <2>1. /\ keeper' = Empty /\ spc = "extractUpd" /\ spc' = "sync"
        /\ UNCHANGED <<requestVars, taken>>
    BY <1>4 DEF ExtractUpdates
  <2>2. \A r : ~HasUpdates(Empty, r)
    BY NoMoveType DEF HasUpdates, Empty
  <2> QED BY <1>1, <2>1, <2>2
      DEF SeenInHand, CheckedForAll, SeenWaiting, AtWork, Waiting, ReqRegion
<1>5. CASE UpdateFrameBuffer
  <2>1. /\ spc = "sync" /\ spc' = "crop"
        /\ UNCHANGED <<requestVars, taken, keeper, m_newUpdatesEvent>>
    BY <1>5 DEF UpdateFrameBuffer
  <2>2. SeenInHand'
    BY <1>1, <2>1 DEF SeenInHand, HasUpdates, ReqRegion
  <2> QED BY <1>1, <2>1, <2>2
      DEF CheckedForAll, SeenWaiting, AtWork, Waiting, ReqRegion
<1>6. CASE SendNewSize \/ SendFramebufferUpdate
  <2>1. /\ AtWork /\ spc' = "done" /\ UNCHANGED requestVars
    BY <1>6 DEF SendNewSize, SendFramebufferUpdate, AtWork
  <2>2. ~Flagged'
    BY <2>1 DEF OneRequest, Flagged
  <2> QED BY <1>1, <2>1, <2>2
      DEF SeenInHand, CheckedForAll, SeenWaiting, AtWork, Waiting
<1>7. CASE CropUpdContForReqRegions
  <2>1. /\ spc = "crop" /\ spc' = "send"
        /\ keeper' = AddChanged(keeper, BackRegion)
        /\ UNCHANGED <<requestVars, taken, m_newUpdatesEvent>>
    BY <1>7 DEF CropUpdContForReqRegions
  <2>2. BackRegion \subseteq Cells /\ BackRegion \cap ReqRegion = {}
    <3>1. Dst(upd.copied) \subseteq Cells /\ upd.changed \subseteq Cells
      BY MoveType DEF TypeOK, Containers
    <3> QED BY <3>1 DEF BackRegion, ToSend, TypeOK, Taken
  <2>3. /\ keeper'.copied = keeper.copied /\ keeper'.resized = keeper.resized
        /\ keeper'.changed = keeper.changed \cup BackRegion
    BY <2>1, <2>2, AddChangedType DEF TypeOK
  <2>4. HasUpdates(keeper', ReqRegion) => HasUpdates(keeper, ReqRegion)
    BY <2>2, <2>3 DEF HasUpdates
  <2>5. ReqRegion' = ReqRegion
    BY <2>1 DEF ReqRegion
  <2>6. SeenInHand'
    BY <1>1, <2>1, <2>4, <2>5 DEF SeenInHand
  <2> QED BY <1>1, <2>1, <2>5, <2>6
      DEF CheckedForAll, SeenWaiting, AtWork, Waiting
<1>8. CASE RestoreReqRegions
  <2>1. /\ spc = "send" /\ spc' = "done"
        /\ UNCHANGED <<keeper, m_newUpdatesEvent>>
        /\ m_requestedIncrReg' = m_requestedIncrReg \cup taken.incr
        /\ m_requestedFullReg' = m_requestedFullReg \cup taken.full
    BY <1>8 DEF RestoreReqRegions
  <2>2. Waiting = {}
    <3>1. ~Flagged
      BY <2>1 DEF OneRequest, AtWork
    <3> QED BY <3>1 DEF RequestHasFlag, Flagged, Waiting
  <2>3. Waiting' = ReqRegion
    BY <2>1, <2>2 DEF Waiting, ReqRegion
  <2>4. SeenWaiting'
    BY <1>1, <2>1, <2>3 DEF SeenWaiting, SeenInHand, HasUpdates
  <2> QED BY <1>1, <2>1, <2>3, <2>4 DEF SeenInHand, CheckedForAll, AtWork
<1>9. CASE SenderDone
  <2>1. /\ spc = "done" /\ spc' = "wait"
        /\ UNCHANGED <<keeper, m_newUpdatesEvent, requestVars>>
    BY <1>9 DEF SenderDone
  <2>2. SeenWaiting'
    BY <1>1, <2>1 DEF SeenWaiting, HasUpdates, Waiting, Flagged
  <2> QED BY <1>1, <2>1, <2>2 DEF SeenInHand, CheckedForAll, AtWork, Waiting
<1> QED BY <1>2, <1>3, <1>4, <1>5, <1>6, <1>7, <1>8, <1>9 DEF SenderRuns

\* A viewer that asks for the next update when it has the last one, as those
\* of this repository do: whatever becomes of its request, while the desktop
\* thread gives and the sender takes updates, a request that already has some
\* is looked at.
THEOREM NothingIsSkipped ==
  ASSUME MaxAsked = 1
  PROVE  SafetySpec => []NoUpdateIsSkipped
<1> DEFINE Inv == TypeOK /\ LocalsInv /\ RequestHasFlag /\ CallInv
<1>1. Init => Inv
  <2>1. Init => CallInv
    BY DEF Init, CallInv, OneRequest, Flagged, AtWork, SeenInHand,
      CheckedForAll, SeenWaiting
  <2> QED BY <2>1, InitTypeOK, InitIInv DEF IInv
<1>2. Inv /\ [Next]_vars => Inv'
  <2> SUFFICES ASSUME Inv, [Next]_vars PROVE Inv'
    OBVIOUS
  <2>1. TypeOK' /\ LocalsInv' /\ RequestHasFlag'
    BY StepTypeOK, StepLocals, StepFlag
  <2>2. OneRequest'
    BY StepOneRequest DEF CallInv
  <2>3. SeenInHand' /\ CheckedForAll' /\ SeenWaiting'
    BY OthersCall, SenderCalls DEF CallInv
  <2> QED BY <2>1, <2>2, <2>3 DEF CallInv
<1>3. Inv => NoUpdateIsSkipped
  BY DEF CallInv, SeenWaiting, NoUpdateIsSkipped, SenderIsCalled, Waiting,
    Flagged
<1> QED BY <1>1, <1>2, <1>3, PTL DEF SafetySpec
================================================================================
