\* One cell, a poller, several viewers, and a change of the screen's size.
CONSTANTS
  Cells = {1}
  Values = {v0, v1}
  Blank = Blank
  Moves = {}
  Requests <- WholeScreen
  CopyRectEnabled = FALSE
  DesktopSizeEnabled = TRUE
  OtherClients = TRUE
  MaxChanges = 1
  MaxResizes = 1
  MaxAsked = 1
SPECIFICATION PolledSpec
PROPERTY Converges
CHECK_DEADLOCK FALSE
