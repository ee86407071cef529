\* Workers that lose their warm executors must see the same past.
CONSTANTS
  w1 = w1
  w2 = w2
  Workers = {w1, w2}
  Programs <- PollProgram
  FnResults = {"x"}
  MaxSignals = 1
  MaxFaults = 0
  MaxHistoryEvents = 50000
  TaskTimeout = 1
  RunTimeout = 0
  ScheduleToStart = 0
  StartToClose = 0
  ScheduleToClose = 0
  HeartbeatTimeout = 0
  TimerDelay = 1
  Backoff = 1
  MaxAttempts = 1
SPECIFICATION Spec
PROPERTY CacheIsOnlyAnOptimisation
CHECK_DEADLOCK FALSE
