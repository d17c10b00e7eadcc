SPECIFICATION Spec
CONSTANTS
    TIMEOUT = 1
    MAX_GEN = 4
INVARIANTS
    SecurityInv
    AcceptedWasShown
PROPERTIES
    FailedSticks
