SPECIFICATION FairSpec
CONSTANTS
    Keys = {stopped, progress}
    Edits = {stopped, progress}
    Tracked = {progress}
    Terminal = {stopped}
    Deferred = {}
    NoKey = NoKey
    Providers <- Legacy
    MaxAttempts = 5
    MaxGenerations = 1
    AttemptBound = 2
PROPERTIES
    TerminalStatusStays
CHECK_DEADLOCK FALSE
