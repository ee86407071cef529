SPECIFICATION Spec
CONSTANTS
  p1 = p1
  p2 = p2
  p3 = p3
  a1 = a1
  w1 = w1
  Pollers = {p1, p2, p3}
  Tasks = {a1, w1}
  KindOf <- MCKindOf
  Capacity <- MCCapacity
  MaxBackoff = 1
  MaxFaults = 1
INVARIANTS SlotsSound StopIsClean
PROPERTIES StopReturns CancelArrives
CHECK_DEADLOCK FALSE
