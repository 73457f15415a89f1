CONSTANTS
  Sessions = {s1, s2}
  Clients = {c1}
  Free = Free
  Configs <- MCConfigs
  MaxReloads = 2
SPECIFICATION Spec
CHECK_DEADLOCK FALSE
INVARIANTS ServersMatchConfig
PROPERTIES QuietReloadsEnd
