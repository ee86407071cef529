\* Three keys, one of them failing for ever; pages of two; three writes, one crash.
CONSTANTS
  Keys = {1, 2, 3}
  Broken = {1}
  Batch = 2
  Interval = 1
  MaxWait = 1
  Jitter = 0
  MaxTime = 1
  MaxFailures = 1
  MaxArms = 3
  MaxCrashes = 1
SPECIFICATION Spec
INVARIANT LoopSound
PROPERTIES OnlyServedAreRemoved DueIsServed
CHECK_DEADLOCK FALSE
