SPECIFICATION Spec
CONSTANTS
  Replicas = {r1, r2}
  Restarting = {r1}
  Callers = {c1}
  Slots <- MCSlots
  Ops <- MCOps
  Other = Other
  MaxRuns = 3
  MaxExtra = 1
  MaxWrites = 1
  MaxFaults = 1
  MaxAttempts = 2
INVARIANTS WaitersCounted StartedOnce AnswersAreTrue
PROPERTIES ResultReturns DrainEnds
CHECK_DEADLOCK FALSE
