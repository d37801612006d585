CONSTANTS
  MaxTasks = 1
  MaxAttempts = 2
  MaxBegins = 2
  MaxLeases = 2
  Workers = {w1, w2}
  NoWorker = NoWorker
  MaxFaults = 0
SPECIFICATION Spec
INVARIANT StoppedWorkersKnow
