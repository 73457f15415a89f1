----------------------------- MODULE UpdateKeeper ------------------------------
(***************************************************************************)
(* UpdateKeeper: what is known to have changed since it was last asked.    *)
(*                                                                         *)
(* The UpdateHandler has one keeper for the detectors, every UpdateSender  *)
(* one for its client.  A cell is any part of the screen, a region a set   *)
(* of cells, a CopyRect a function from its destination cells to its       *)
(* source cells, which lie on the screen: the clipping by m_borderRect     *)
(* has been done.  Cursor and video updates are left out.                  *)
(***************************************************************************)
CONSTANTS Cells,  \* the cells of the screen
          Moves   \* the copies a detector may report

ASSUME MovesAssumption ==
  \A m \in Moves : DOMAIN m \subseteq Cells /\ \A x \in DOMAIN m : m[x] \in Cells

NoMove == [x \in {} |-> x]
Containers == [copied : Moves \cup {NoMove}, changed : SUBSET Cells,
               resized : BOOLEAN]
Empty == [copied |-> NoMove, changed |-> {}, resized |-> FALSE]

Dst(m) == DOMAIN m
Src(m) == {m[x] : x \in DOMAIN m}

AddChanged(u, r) == [u EXCEPT !.changed = @ \cup r]

\* (mutant) A second copy replaces the first.
AddCopyOverwriting(u, m) ==
  IF Dst(m) = {} THEN u ELSE [u EXCEPT !.copied = m, !.changed = @ \ Dst(m)]

\* (mutant) The source takes the place of the destination.
AddCopySwapped(u, m) ==
  IF Dst(m) = {} THEN u
  ELSE [u EXCEPT !.copied = [y \in Src(m) |-> CHOOSE x \in Dst(m) : m[x] = y]]

\* addCopyRect(): a second copy turns both into changes; otherwise the copy
\* is kept and the changes under its source are repeated at its destination.
AddCopy(u, m) ==
  LET rest == u.changed \ Dst(m)
  IN  IF Dst(m) = {} THEN u
      ELSE IF Dst(u.copied) # {}
      THEN [u EXCEPT !.changed = @ \cup Dst(u.copied) \cup Dst(m),
                     !.copied = NoMove]
      ELSE [u EXCEPT !.changed = rest \cup {x \in Dst(m) : m[x] \in rest},
                     !.copied = m]

AddContainer(u, v) ==
  LET w == AddCopy(u, v.copied)
  IN  [w EXCEPT !.changed = @ \cup v.changed, !.resized = @ \/ v.resized]

\* checkForUpdates()
HasUpdates(u, r) == u.resized \/ (u.changed \cup Dst(u.copied)) \cap r # {}

IsEmpty(u) == u = Empty

\* FrameBuffer::move() and FrameBuffer::copyFrom()
Moved(image, m) ==
  [x \in Cells |-> IF x \in Dst(m) THEN image[m[x]] ELSE image[x]]
Copied(to, from, r) == [x \in Cells |-> IF x \in r THEN from[x] ELSE to[x]]
================================================================================
