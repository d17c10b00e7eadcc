SPECIFICATION CentralSpec
CONSTANTS
    LABELS = 2
    MAX_GEN = 2
    MaxStarts = 1
    Flows = {"phase7"}
    Rounds = 2
    MaxRuns = 1
    MaxFaults = 0
INVARIANT TrafficFollowsFinished
