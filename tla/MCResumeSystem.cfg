SPECIFICATION SysFairSpec
CONSTANTS
    V11 = TRUE
    Peers = {7}
    Sids = {1, 2, 3}
    Nonces = {1, 2, 3}
    PNonces = {1}
    TTL = 3
    PENDING = 1
    MAX_USES = 2
    REPLAY_CAPACITY = 3
    SEQ_MAX = 2
    MaxFull = 6
    MaxRuns = 3
    MaxFaults = 2
    Rounds = 2
    RunTicks = 1
INVARIANTS
    SystemInv
    BothSecureAgree
    CleanRunSucceeds
PROPERTIES
    RunEnds
