SPECIFICATION V1FairSpec
CONSTANTS
    TIMEOUT = 1
    SEQ_MAX = 3
    MAX_GEN = 12
    Checkpoints = {"cp1", "cp2", "cp3", "cp4"}
    MaxRuns = 2
    MaxFaults = 1
INVARIANTS V1CentralInv V1UndisturbedPasses PassIsEarned CeremonyClean
PROPERTY ProcessEnds
