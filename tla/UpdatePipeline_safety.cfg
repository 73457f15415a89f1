\* A viewer without CopyRect that asks for the whole screen or a part.
CONSTANTS
  Cells <- TwoCells
  Values = {v0, v1}
  Blank = Blank
  Moves <- OneMove
  Requests <- PartsToo
  CopyRectEnabled = FALSE
  DesktopSizeEnabled = TRUE
  OtherClients = FALSE
  MaxChanges = 2
  MaxResizes = 0
  MaxAsked = 1
SYMMETRY ValueSymmetry
SPECIFICATION SafetySpec
INVARIANTS
  NoUpdateIsLost
  NoUpdateIsSkipped
  RequestHasFlag
CHECK_DEADLOCK FALSE
