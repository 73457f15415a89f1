CONSTANTS
  Callers = {c1, c2}
  NoCaller = NoCaller
  Passwords = {"p", "q"}
  failureTimeInterval = 1
  failureMaxCount = 1
  DwordRange = 16
  MaxTime = 1
  Commands = {"SET_CONFIG", "DISCONNECT_ALL", "RELOAD_CONFIG"}
  MaxCommands = 2
  ControlConfigs <- MCOneConfig
SPECIFICATION Spec
CHECK_DEADLOCK FALSE
INVARIANTS BanHolds InStep
PROPERTIES PaidByCommand SessionsEndFirst ShutdownEnds
