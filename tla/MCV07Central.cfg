SPECIFICATION CentralFairSpec
CONSTANTS
    LABELS = 2
    MAX_GEN = 4
    MaxStarts = 2
    Flows = {"phase2", "phase3", "phase5", "phase6", "c2p", "hybrid", "phase7"}
    Rounds = 3
    MaxRuns = 2
    MaxFaults = 1
INVARIANTS CentralInv UndisturbedRunPasses ZeroIsEarned OwnAnswers
PROPERTY RunEnds
