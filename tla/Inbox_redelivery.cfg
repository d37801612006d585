SPECIFICATION FairSpec
CONSTANTS
    Last = 2
    Foreign = {}
    MaxAttempts = 3
    MaxDeliveries = 2
    MaxMishaps = 0
INVARIANTS
    FailuresAreRedelivered
CHECK_DEADLOCK FALSE
