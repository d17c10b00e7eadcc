SPECIFICATION FairSpec
CONSTANTS
    TIMEOUT = 1
    MAX_GEN = 2
PROPERTIES
    PendingEnds
