\* One replica, one SignalWithStart that is repeated after its reply was lost.
CONSTANTS
  r1 = r1
  r2 = r2
  c1 = c1
  c2 = c2
  Replicas = {r1}
  Clients = {c1}
  Kinds <- MixedKinds
  MaximumAttempts = 2
  MaxRuns = 2
  MaxTries = 2
SPECIFICATION Spec
INVARIANT NoSelfWait
CHECK_DEADLOCK FALSE
