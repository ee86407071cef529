\* A run under each of the settings of MCEngine.
CONSTANTS
  w1 = w1
  w2 = w2
  a1 = a1
  t1 = t1
  Options <- MCOptions
SPECIFICATION FairSpec
INVARIANTS Recoverable CompletionsAreCurrent NothingFiresEarly NoLostWakeup HasWaker
PROPERTY NothingForgotten
CHECK_DEADLOCK FALSE
