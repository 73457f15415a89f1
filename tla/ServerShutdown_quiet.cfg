CONSTANTS
  Clients = {c1, c2}
  NoClient = NoClient
  ServerConfigs <- FlagDecides
SPECIFICATION ShutdownSpec
INVARIANTS
  NothingOutlivesTheManager
PROPERTIES
  QuietShutdownReturns
  QuietClientsAreDeleted
CHECK_DEADLOCK FALSE
