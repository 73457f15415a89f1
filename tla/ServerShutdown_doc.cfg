CONSTANTS
  Clients = {c1, c2}
  NoClient = NoClient
  ServerConfigs <- FlagDecides
SPECIFICATION ShutdownSpec
PROPERTY ShutdownReturns
CHECK_DEADLOCK FALSE
