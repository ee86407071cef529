\* Two coroutines, two calls each, and a third one spawned; one event from history.
CONSTANTS
  Programs <- Pairs
  Capacities = {0, 1}
  MaxEvents = 1
SPECIFICATION Spec
INVARIANTS ChannelSound AllBlocked
PROPERTY RunsEnd
CHECK_DEADLOCK FALSE
