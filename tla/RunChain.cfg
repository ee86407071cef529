\* Two clients race through two replicas; requests are repeated, replicas crash.
CONSTANTS
  r1 = r1
  r2 = r2
  c1 = c1
  c2 = c2
  Replicas = {r1, r2}
  Clients = {c1, c2}
  Kinds <- MixedKinds
  MaximumAttempts = 2
  MaxRuns = 3
  MaxTries = 2
SPECIFICATION Spec
SYMMETRY Symmetry
INVARIANTS RunsSound StoresAgree RequestsKept
PROPERTY ReuseHonoured
CHECK_DEADLOCK FALSE
