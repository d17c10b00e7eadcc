SPECIFICATION Spec
CONSTANTS
    V11 = TRUE
    Peers = {p1, p2}
    Sids = {s1, s2}
    Nonces = {n1, n2}
    PNonces = {q1}
    TTL = 2
    PENDING = 1
    MAX_USES = 2
    REPLAY_CAPACITY = 2
    SEQ_MAX = 1
    MaxFull = 2
SYMMETRY Symmetry
INVARIANTS
    TypeOK
    ResumedOnBondedLink
    RevokedGone
    ExpiryArmed
    NextNonceUnused
PROPERTIES
    KeysNeverRederived
