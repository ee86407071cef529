\* Four workflows, two workers, a failure and a signal; old and new builds.
CONSTANTS
  w1 = w1
  w2 = w2
  Workers = {w1, w2}
  Programs <- SmallPrograms
  FnResults = {"x", "y", "error", "panic"}
  MaxSignals = 1
  MaxFaults = 1
  MaxHistoryEvents = 50000
  TaskTimeout = 1
  RunTimeout = 0
  ScheduleToStart = 0
  StartToClose = 0
  ScheduleToClose = 0
  HeartbeatTimeout = 0
  TimerDelay = 1
  Backoff = 1
  MaxAttempts = 1
SPECIFICATION Spec
SYMMETRY Symmetry
INVARIANTS ColdReplayIsExact CachesSound AnswersFit
CONSTRAINT Exactly
CHECK_DEADLOCK FALSE
