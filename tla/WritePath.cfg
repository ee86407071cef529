\* Three calls, one of which closes the run, two replicas, one failure.
CONSTANTS
  c1 = c1
  c2 = c2
  c3 = c3
  Calls = {c1, c2, c3}
  Closers = {c1}
  Replicas = {r1, r2}
  NoCall = NoCall
  MaxAttempts = 2
  MaxFaults = 1
SPECIFICATION FairSpec
INVARIANTS HitIsCurrent EffectsMatchLog
PROPERTIES DecidedOnCurrent ImplementsSerial CallsEnd
CHECK_DEADLOCK FALSE
