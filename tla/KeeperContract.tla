----------------------------- MODULE KeeperContract ----------------------------
(***************************************************************************)
(* What an UpdateKeeper promises to the one who extracts from it: a viewer *)
(* that shows the picture of the last extraction, does the copy the keeper *)
(* gives it and then takes the changed cells from the current picture,     *)
(* shows the current picture.                                              *)
(*                                                                         *)
(* Both keepers of the pipeline are used this way: addUpdateContainer() by *)
(* UpdateSender::newUpdates(), addCopyRect() and addChangedRegion() by the *)
(* UpdateHandler.  The picture is the backup frame buffer in both cases.   *)
(***************************************************************************)
EXTENDS UpdateKeeper

CONSTANT Contents  \* the contents of a cell

VARIABLES
  image,             \* the current picture
  shown,             \* what the viewer shows
  m_updateContainer  \* what has been added since the last extraction

contractVars == <<image, shown, m_updateContainer>>

Pictures == [Cells -> Contents]

ContractTypeOK ==
  /\ image \in Pictures /\ shown \in Pictures
  /\ m_updateContainer \in Containers

ContractInit ==
  /\ image \in Pictures /\ shown = image
  /\ m_updateContainer = Empty

\* The picture is moved by m, then any of the cells r change: one container.
Report(m, r) ==
  /\ image' \in {new \in Pictures :
                   \A x \in Cells \ r : new[x] = Moved(image, m)[x]}
  /\ m_updateContainer' = AddContainer(m_updateContainer,
                             [Empty EXCEPT !.copied = m, !.changed = r])
  /\ UNCHANGED shown

\* What a viewer shows that does the copy and takes the changes.
Applied(u) == Copied(Moved(shown, u.copied), image, u.changed)

TakeUpdate ==
  /\ shown' = Applied(m_updateContainer)
  /\ m_updateContainer' = Empty
  /\ UNCHANGED image

ContractNext ==
  \/ \E m \in Moves \cup {NoMove}, r \in SUBSET Cells : Report(m, r)
  \/ TakeUpdate

ContractSpec == ContractInit /\ [][ContractNext]_contractVars
--------------------------------------------------------------------------------
\* The source and the destination of every copy are apart.
DisjointMoves == \A m \in Moves : Src(m) \cap Dst(m) = {}

\* Nothing that was added is missing from what is extracted: "Create region
\* that is intersection of changedRegion and srcCopyRect" and "Move
\* addonChangedRegion and add it to changedRegion" (addCopyRect()) are meant
\* to keep the changes under the source of a copy.
KeeperIsExact == Applied(m_updateContainer) = image
================================================================================
