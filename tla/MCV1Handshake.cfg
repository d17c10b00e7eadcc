SPECIFICATION FairSpec
CONSTANTS
    TIMEOUT = 2
    SEQ_MAX = 2
    MAX_GEN = 6
INVARIANTS
    HandshakeInv
    DrainWipesNothing
    NextPongFresh
PROPERTIES
    HandshakeSettles
    SlotGivenBack
CHECK_DEADLOCK FALSE
