CONSTANTS
  Cells <- ThreeCells
  Moves <- ApartMoves
  Contents = {v0, v1}
SPECIFICATION ContractSpec
INVARIANTS
  KeeperIsExact
