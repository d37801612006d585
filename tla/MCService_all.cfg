SPECIFICATION MCSpec
CONSTANTS
    Parts = {"inbox", "threads", "publication", "extension", "commands", "operations",
             "requests", "calls", "notices"}
    Last = 3
    Foreign = {2}
    MaxAttempts = 2
    MaxDeliveries = 2
    MaxMishaps = 2
    MaxFaults = 1
    TaskAttempts = 2
    MaxWork = 1
    MaxBegins = 3
    MaxLeases = 3
    Threads = {1, 2}
    NoTaskThread = 0
    MaxContents = 2
    RepairLimit = 1
    MaxCrashes = 1
    MaxRetries = 1
    MaxEventful = 3
    MaxProcesses = 2
    Capabilities = {1}
    MaxCommands = 2
    MaxRequests = 2
    MaxRevision = 3
    MaxEdits = 2
    Messages = 2
    MaxActions = 2
    MaxRequested = 4
    MaxRuns = 3
    MaxSessions = 2
    Sends = {reply}
    FinalEdits = {final}
    NoNotice = NoNotice
    MaxGenerations = 2
    ClaimBound = 2
INVARIANTS
    StatesAreTyped
    AcknowledgedLast
    ExtensionsHearInOrder
    WorkIsGoverned
    ConversationsAreFaithful
PROPERTIES
    CommandNotRepeated
    CapturesArePublished
    EndsAreReported
    TasksSettle
    NobodyWaits
CHECK_DEADLOCK FALSE
