SPECIFICATION FairSpec
CONSTANTS
    LABELS = 1
    MAX_GEN = 3
    MaxStarts = 2
INVARIANTS
    SessionInv
    TransferOwned
    SentOnce
    ConfirmedFirst
PROPERTY
    PhaseEnds
