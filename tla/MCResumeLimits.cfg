SPECIFICATION Spec
CONSTANTS
    V11 = TRUE
    Peers = {p1, p2}
    Sids = {s1, s2, s3}
    Nonces = {n1, n2, n3}
    PNonces = {q1}
    TTL = 3
    PENDING = 2
    MAX_USES = 2
    REPLAY_CAPACITY = 2
    SEQ_MAX = 2
    MaxFull = 1
SYMMETRY Symmetry
INVARIANTS
    UsesBounded
    KeyInv
PROPERTIES
    ImplementsPolicy
