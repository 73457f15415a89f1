CONSTANT MaxChannels <- ManyProcesses
SPECIFICATION Spec
INVARIANTS
  InUseIsAlive
  MessagesStayWhole
PROPERTIES
  CloseReachesTheUser
  CloseReleasesTheWaiting
CHECK_DEADLOCK FALSE
