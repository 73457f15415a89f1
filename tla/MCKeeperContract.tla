--------------------------- MODULE MCKeeperContract ----------------------------
(* Model-checking instances of KeeperContract.                             *)
EXTENDS KeeperContract, TLC

ThreeCells == {1, 2, 3}

\* Windows of one cell; they move to a place they did not cover.
ApartMoves == {2 :> 1, 3 :> 1, 1 :> 3}
\* A window of two cells that moves by one.
OverlappingMove == {2 :> 1 @@ 3 :> 2}
================================================================================
