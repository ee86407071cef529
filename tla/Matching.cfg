\* Three Adds, two pollers and a backlog of two, with Close at any point.
SPECIFICATION FairSpec
CONSTANTS
  Tasks = {t1, t2, t3}
  Pollers = {p1, p2}
  MaxBacklog = 2
  NoTask = NoTask
INVARIANT QueueSound
PROPERTIES ImplementsPool AcceptedIsServed
\* A closed matcher whose pollers have all returned does nothing more.
CHECK_DEADLOCK FALSE
