SPECIFICATION LiveSpec
CONSTANTS
    Roots <- MCRoots
    Kids <- MCKids
    Size <- MCSize
    EarlyReplies = FALSE
    LateCancels = FALSE
    ReopenFails = FALSE
    MaxOperations = 2
INVARIANTS
    DownloadTypeOK
    ReplyFits
    CopiedIsWhole
    EachOneOnce
    
PROPERTY DownloadEnds
CHECK_DEADLOCK FALSE
