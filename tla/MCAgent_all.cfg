SPECIFICATION MCSpec
CONSTANTS
  Parts = {"reviews", "lineage", "evolution", "curation", "learning", "memory", "migration",
           "private", "environments", "quota", "outbound", "upload", "intake"}
  MaxFaults = 1
  MaxEvents = 2
  MaxCommands = 2
  MaxPushes = 1
  MaxAttempts = 3
  Pulls = {1, 2}
  MaxChanges = 2
  MaxOverlap = 1
  ScanLimit = 2
  MaxDaemons = 2
  Turns = {1}
  Studied = {11}
  BatchSize = 1
  Observations = {1}
  Titles = {1}
  MaxProposals = 2
  MaxApprovals = 1
  MaxClaims = 1
  MaxSettings = 1
  PoolSize = 3
  EndedTasks = {1}
  CitedReviews = {0, 1, 2}
  PoolLimit = 2
  EvidenceLimit = 1
  MaxCurations = 1
  MaxRegressions = 1
  MaxDecisions = 1
  Contents = {"x", "y"}
  LearningTasks = {1, 2}
  Words = {1, 2}
  Savers = {1, 2}
  MemoryLength = 1
  MaxDays = 2
  MaxReplies = 2
  MaxForgets = 1
  StateFaults = 2
  Hosts = {1, 2, 3}
  FirstHost = 1
  Overlap = FALSE
  Leftovers = FALSE
  MaxVersion = 3
  MaxStarts = 3
  MaxBundles = 2
  Files = {1, 2, 3}
  MaxWrites = 1
  Doctors = {1, 2}
  Starts = {3, 4}
  MaxDamages = 1
  MaxTime = 4
  Length = 4
  Jitter = 1
  MaxMoves = 2
  Attachments = {1, 2}
  Limit = 1
  MaxReplyRuns = 1
  UploadFaults = 4
  Messages = {1, 2, 3}
  Ignored = {3}
  Listeners = {1}
  Keep = 1
  MaxRedeliveries = 1
INVARIANTS ReviewsAreFaithful ChangesAreAccountedFor EvidenceIsAccountedFor
  KnowledgeIsSound StateSurvives MessagesAreWhole WarningsAreTrue
PROPERTIES NothingGoesBack
CHECK_DEADLOCK FALSE
