\* Three connections, two of which may overlap with the destructor.
CONSTANTS
  Clients = {c1, c2, c3}
  NoClient = NoClient
  ServerConfigs <- TwoConfigs
SPECIFICATION SafetySpec
SYMMETRY ClientSymmetry
INVARIANTS
  CallsReachLivingHandlers
  DesktopOutlivesItsUsers
  ExactlyOneOwner
  NeverSharedIsExclusive
PROPERTY SharesOneDesktop
