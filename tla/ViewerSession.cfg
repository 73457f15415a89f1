SPECIFICATION LiveSpec
CONSTANTS
  Parts = {"wide", "high"}
  Dimensions <- MCDimensions
  Formats = {"bgr233", "rgb888"}
  ServerFormat = "rgb888"
  ConfigFormat = "bgr233"
  ServerDimension = {"wide"}
  MaxUiActions = 2
  MaxChanges = 1
CHECK_DEADLOCK FALSE
INVARIANTS ViewerTypeOK OneRequestAtATime FormatAgreed NothingIsForgotten
PROPERTIES WindowCatchesUp CloseEndsTheThreads
