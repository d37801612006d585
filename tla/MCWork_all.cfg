SPECIFICATION MCSpec
SYMMETRY ThreadSymmetry
CONSTANTS
    Parts = {"queue", "threads"}
    MaxTasks = 3
    MaxAttempts = 2
    MaxBegins = 2
    MaxLeases = 0
    Workers = {}
    NoWorker = NoWorker
    Lanes = {lane1}
    NoLane = NoLane
    Keys = {key1}
    NoKey = NoKey
    Publications = {}
    MaxWork = 2
    MaxRuns = 2
    MaxClaims = 2
    Threads = {w1, w2}
    MaxFaults = 1
INVARIANTS
    LaneFIFO
    OneLiveRetry
    IdempotentCreation
    ThreadsOwnTheirTasks
CHECK_DEADLOCK FALSE
