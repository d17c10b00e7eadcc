SPECIFICATION FairSpec
CONSTANTS
    V11 = FALSE
    Peers = {p1}
    Sids = {s1, s2, s3}
    Nonces = {n1, n2}
    PNonces = {q1}
    TTL = 3
    PENDING = 2
    MAX_USES = 2
    REPLAY_CAPACITY = 2
    SEQ_MAX = 1
    MaxFull = 2
INVARIANTS
    PendingHasTicket
PROPERTIES
    TicketExpires
    PendingResolves
