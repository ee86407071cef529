------------------------------- MODULE TaskPool -------------------------------
(***************************************************************************)
(* What one task queue of internal/matching promises the engine: a task    *)
(* that Add accepted stays in the pool until exactly one poll returns it;  *)
(* only a matcher that is shutting down may throw pooled tasks away.       *)
(* Matching.tla implements this specification.                             *)
(***************************************************************************)
EXTENDS Naturals

CONSTANT Tasks

VARIABLES
  pool,       \* accepted tasks no poll has returned yet
  returned,   \* how many polls returned each task
  open        \* FALSE once the matcher shuts down

Init ==
  /\ pool = {}
  /\ returned = [t \in Tasks |-> 0]
  /\ open = TRUE

Accept(t) ==
  /\ returned[t] = 0
  /\ pool' = pool \cup {t}
  /\ UNCHANGED <<returned, open>>

Return(t) ==
  /\ t \in pool
  /\ pool' = pool \ {t}
  /\ returned' = [returned EXCEPT ![t] = @ + 1]
  /\ UNCHANGED open

Shut ==
  /\ open' = FALSE
  /\ UNCHANGED <<pool, returned>>

Discard ==
  /\ ~open
  /\ pool' \in SUBSET pool
  /\ UNCHANGED <<returned, open>>

Next == (\E t \in Tasks : Accept(t) \/ Return(t)) \/ Shut \/ Discard

Spec == Init /\ [][Next]_<<pool, returned, open>>
===============================================================================
