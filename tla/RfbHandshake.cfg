SPECIFICATION LiveSpec
CONSTANTS
    Conns = {c1, c2}
    Kinds <- MCKinds
    Configurations <- MCConfigurations
    MAX_BAN_COUNT = 1
    MaxSessions = 4
    MaxConfigChanges = 1
INVARIANTS
    InStep
    RightsFollowThePassword
    GuessesAreBounded
PROPERTY HandshakeEnds
CHECK_DEADLOCK FALSE
