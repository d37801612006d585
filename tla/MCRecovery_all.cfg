SPECIFICATION MCSpec
CONSTANTS
    Parts = {"queue", "journal"}
    MaxTasks = 2
    MaxAttempts = 2
    MaxBegins = 2
    MaxLeases = 2
    Workers = {w1}
    NoWorker = NoWorker
    Lanes = {}
    NoLane = NoLane
    Keys = {}
    NoKey = NoKey
    Publications <- CapturedOrPublished
    Messages = {warning, progress, final}
    Edits = {progress, final}
    Tracked = {progress, final}
    Terminal = {final}
    Deferred = {warning}
    NoMessage = NoMessage
    Providers <- AllProviders
    MaxDeliveries = 2
    MaxGenerations = 2
    AttemptBound = 2
INVARIANTS
    TypeOK
    Placement
    NoStaleOwnership
    JournalIsHonest
PROPERTIES
    HistoryIsMonotonic
    RecoveryKeepsOutcome
    DeliveriesStaySettled
CHECK_DEADLOCK FALSE
