---------------------------- MODULE WorkerProofs ------------------------------
(***************************************************************************)
(* For any number of pollers, tasks and slots, the worker of Worker.tla    *)
(* keeps its books and stops cleanly.  Slots are counted: a step takes one *)
(* with a poll, gives one back with a poll or a task that ends, or passes  *)
(* it from the poll to the task.  That Stop leaves nothing behind rests on *)
(* two facts: a goroutine of a task that has ended has no heartbeat under  *)
(* way, and while Stop is within its deadline the tasks' context is live.  *)
(***************************************************************************)
EXTENDS Worker, FiniteSetTheorems, TLAPS

Beats == [pending : BOOLEAN, recent : BOOLEAN, closed : BOOLEAN,
          own : {"off", "idle", "sending"}, loop : {"off", "idle", "sending"}]
Working == {"run", "respond", "close"}

PollingOf(k) == {p \in Pollers : poller[p] = "polling" /\ KindOf[p] = k}
WorkingOf(k) == {t \in Tasks : hand[t] \in Working /\ KindOf[t] = k}
Dropped == {t \in Tasks : task[t] = "dropped"}

\* What TypeOK leaves out.
Shapes == slots \in [Kinds -> Nat] /\ beat \in [Tasks -> Beats] /\ faults \in Nat

\* A task in a goroutine's hands has not been answered; no heartbeat outlives the
\* goroutine it belongs to, and only activities have one.
Quiet ==
  \A t \in Tasks :
    /\ hand[t] \in {"run", "respond"} => task[t] = "held"
    /\ KindOf[t] # "activity" => beat[t].own = "off"
    /\ hand[t] \in {"none", "done"} => beat[t].loop = "off"
    /\ hand[t] # "run" => beat[t].own # "sending"

\* How far the worker is in its life, and what has ended by then.
Life ==
  /\ ~started => \A p \in Pollers : poller[p] = "off"
  /\ ~started => \A t \in Tasks : hand[t] = "none"
  /\ stop # "none" => started /\ stopped
  /\ stop = "returned" => Drained /\ ~warm
  /\ started /\ stop # "returned" /\ ~late => tasking

Inv == TypeOK /\ SlotsCounted /\ Shapes /\ Quiet /\ Life /\ StopIsGraceful

-------------------------------------------------------------------------------
\* Counting.

LEMMA CountsFinite ==
  \A k \in Kinds :
    /\ IsFiniteSet(PollingOf(k)) /\ Cardinality(PollingOf(k)) \in Nat
    /\ IsFiniteSet(WorkingOf(k)) /\ Cardinality(WorkingOf(k)) \in Nat
<1> TAKE k \in Kinds
<1>1. PollingOf(k) \in SUBSET Pollers /\ WorkingOf(k) \in SUBSET Tasks
  BY DEF PollingOf, WorkingOf
<1>2. IsFiniteSet(PollingOf(k)) /\ IsFiniteSet(WorkingOf(k))
  BY <1>1, FS_Subset, WorkerAssumption
<1> QED BY <1>2, FS_CardinalityType

LEMMA CountedBy ==
  SlotsCounted <=>
    \A k \in Kinds : slots[k] = Cardinality(PollingOf(k)) + Cardinality(WorkingOf(k))
BY DEF SlotsCounted, PollingOf, WorkingOf, Working

\* The books after a step, from what it does to the polls, the tasks and the slots.
Books == SlotsCounted' /\ slots' \in [Kinds -> Nat] /\ \A k \in Kinds : slots'[k] \in 0 .. Capacity[k]

\* A poll begins: it has taken a free slot.
LEMMA PollBegins ==
  ASSUME TypeOK, SlotsCounted, Shapes, NEW p \in Pollers, poller[p] # "polling",
         poller' = [poller EXCEPT ![p] = "polling"], hand' = hand,
         slots[KindOf[p]] < Capacity[KindOf[p]], slots' = Acquired(KindOf[p])
  PROVE  Books
<1>1. KindOf[p] \in Kinds
  BY WorkerAssumption
<1>2. ASSUME NEW k \in Kinds
      PROVE  /\ Cardinality(PollingOf(k)') = Cardinality(PollingOf(k)) + (IF k = KindOf[p] THEN 1 ELSE 0)
             /\ WorkingOf(k)' = WorkingOf(k)
  <2>1. PollingOf(k)' = IF k = KindOf[p] THEN PollingOf(k) \cup {p} ELSE PollingOf(k)
    BY DEF PollingOf, TypeOK
  <2>2. p \notin PollingOf(k)
    BY DEF PollingOf
  <2>3. WorkingOf(k)' = WorkingOf(k)
    BY DEF WorkingOf
  <2>4. Cardinality(PollingOf(k) \cup {p}) = Cardinality(PollingOf(k)) + 1
    BY <2>2, CountsFinite, FS_AddElement
  <2> QED BY <2>1, <2>3, <2>4, CountsFinite
<1>3. \A k \in Kinds : slots'[k] = slots[k] + (IF k = KindOf[p] THEN 1 ELSE 0)
  BY <1>1 DEF Acquired, Shapes
<1>4. ASSUME NEW k \in Kinds
      PROVE  slots'[k] = Cardinality(PollingOf(k)') + Cardinality(WorkingOf(k)')
  BY <1>2, <1>3, CountedBy, CountsFinite DEF Shapes
<1>5. SlotsCounted'
  BY <1>4 DEF SlotsCounted, PollingOf, WorkingOf, Working
<1>6. \A k \in Kinds : slots'[k] \in 0 .. Capacity[k]
  BY <1>3, WorkerAssumption DEF TypeOK, Shapes
<1>7. slots' \in [Kinds -> Nat]
  BY <1>1 DEF Acquired, Shapes
<1> QED BY <1>5, <1>6, <1>7 DEF Books

\* A poll ends without a task and gives its slot back.
LEMMA PollEnds ==
  ASSUME TypeOK, SlotsCounted, Shapes, NEW p \in Pollers, poller[p] = "polling",
         NEW x, x # "polling", poller' = [poller EXCEPT ![p] = x], hand' = hand,
         slots' = Release(KindOf[p])
  PROVE  Books
<1>1. KindOf[p] \in Kinds
  BY WorkerAssumption
<1>2. ASSUME NEW k \in Kinds
      PROVE  /\ Cardinality(PollingOf(k)') = Cardinality(PollingOf(k)) - (IF k = KindOf[p] THEN 1 ELSE 0)
             /\ WorkingOf(k)' = WorkingOf(k)
             /\ k = KindOf[p] => Cardinality(PollingOf(k)) > 0
  <2>1. PollingOf(k)' = IF k = KindOf[p] THEN PollingOf(k) \ {p} ELSE PollingOf(k)
    BY DEF PollingOf, TypeOK
  <2>2. k = KindOf[p] => p \in PollingOf(k)
    BY DEF PollingOf
  <2>3. WorkingOf(k)' = WorkingOf(k)
    BY DEF WorkingOf
  <2>4. k = KindOf[p] => Cardinality(PollingOf(k)) # 0
    BY <2>2, CountsFinite, FS_EmptySet
  <2>5. k = KindOf[p] => Cardinality(PollingOf(k) \ {p}) = Cardinality(PollingOf(k)) - 1
    BY <2>2, CountsFinite, FS_RemoveElement
  <2> QED BY <2>1, <2>3, <2>4, <2>5, CountsFinite
<1>3. \A k \in Kinds : slots'[k] = slots[k] - (IF k = KindOf[p] THEN 1 ELSE 0)
  BY <1>1 DEF Release, Shapes
<1>4. ASSUME NEW k \in Kinds
      PROVE  /\ slots'[k] = Cardinality(PollingOf(k)') + Cardinality(WorkingOf(k)')
             /\ slots'[k] \in Nat /\ slots'[k] <= slots[k]
  BY <1>2, <1>3, CountedBy, CountsFinite DEF Shapes
<1>5. SlotsCounted'
  BY <1>4 DEF SlotsCounted, PollingOf, WorkingOf, Working
<1>6. \A k \in Kinds : slots'[k] \in 0 .. Capacity[k]
  BY <1>4, WorkerAssumption DEF TypeOK, Shapes
<1>7. slots' \in [Kinds -> Nat]
  BY <1>4 DEF Release, Shapes
<1> QED BY <1>5, <1>6, <1>7 DEF Books

\* A poll passes its slot to the task it has brought.
LEMMA SlotPassed ==
  ASSUME TypeOK, SlotsCounted, Shapes, NEW p \in Pollers, poller[p] = "polling",
         NEW x, x # "polling", poller' = [poller EXCEPT ![p] = x],
         NEW t \in Tasks, hand[t] \notin Working, KindOf[t] = KindOf[p],
         NEW y \in Working, hand' = [hand EXCEPT ![t] = y], slots' = slots
  PROVE  Books
<1>1. ASSUME NEW k \in Kinds
      PROVE  Cardinality(PollingOf(k)') + Cardinality(WorkingOf(k)')
               = Cardinality(PollingOf(k)) + Cardinality(WorkingOf(k))
  <2>1. PollingOf(k)' = IF k = KindOf[p] THEN PollingOf(k) \ {p} ELSE PollingOf(k)
    BY DEF PollingOf, TypeOK
  <2>2. WorkingOf(k)' = IF k = KindOf[p] THEN WorkingOf(k) \cup {t} ELSE WorkingOf(k)
    BY DEF WorkingOf, TypeOK
  <2>3. t \notin WorkingOf(k) /\ (k = KindOf[p] => p \in PollingOf(k))
    BY DEF PollingOf, WorkingOf
  <2>4. k = KindOf[p] => Cardinality(PollingOf(k) \ {p}) = Cardinality(PollingOf(k)) - 1
    BY <2>3, CountsFinite, FS_RemoveElement
  <2>5. Cardinality(WorkingOf(k) \cup {t}) = Cardinality(WorkingOf(k)) + 1
    BY <2>3, CountsFinite, FS_AddElement
  <2> QED BY <2>1, <2>2, <2>4, <2>5, CountsFinite
<1>2. SlotsCounted'
  BY <1>1, CountedBy DEF SlotsCounted, PollingOf, WorkingOf, Working
<1> QED BY <1>2 DEF Books, TypeOK, Shapes

\* The goroutine of a task ends and gives its slot back.
LEMMA TaskGone ==
  ASSUME TypeOK, SlotsCounted, Shapes, NEW t \in Tasks, hand[t] \in Working,
         hand' = [hand EXCEPT ![t] = "done"], poller' = poller, slots' = Release(KindOf[t])
  PROVE  Books
<1>1. KindOf[t] \in Kinds
  BY WorkerAssumption
<1>2. ASSUME NEW k \in Kinds
      PROVE  /\ Cardinality(WorkingOf(k)') = Cardinality(WorkingOf(k)) - (IF k = KindOf[t] THEN 1 ELSE 0)
             /\ PollingOf(k)' = PollingOf(k)
             /\ k = KindOf[t] => Cardinality(WorkingOf(k)) > 0
  <2>1. WorkingOf(k)' = IF k = KindOf[t] THEN WorkingOf(k) \ {t} ELSE WorkingOf(k)
    BY DEF WorkingOf, TypeOK, Working
  <2>2. k = KindOf[t] => t \in WorkingOf(k)
    BY DEF WorkingOf
  <2>3. PollingOf(k)' = PollingOf(k)
    BY DEF PollingOf
  <2>4. k = KindOf[t] => Cardinality(WorkingOf(k)) # 0
    BY <2>2, CountsFinite, FS_EmptySet
  <2>5. k = KindOf[t] => Cardinality(WorkingOf(k) \ {t}) = Cardinality(WorkingOf(k)) - 1
    BY <2>2, CountsFinite, FS_RemoveElement
  <2> QED BY <2>1, <2>3, <2>4, <2>5, CountsFinite
<1>3. \A k \in Kinds : slots'[k] = slots[k] - (IF k = KindOf[t] THEN 1 ELSE 0)
  BY <1>1 DEF Release, Shapes
<1>4. ASSUME NEW k \in Kinds
      PROVE  /\ slots'[k] = Cardinality(PollingOf(k)') + Cardinality(WorkingOf(k)')
             /\ slots'[k] \in Nat /\ slots'[k] <= slots[k]
  BY <1>2, <1>3, CountedBy, CountsFinite DEF Shapes
<1>5. SlotsCounted'
  BY <1>4 DEF SlotsCounted, PollingOf, WorkingOf, Working
<1>6. \A k \in Kinds : slots'[k] \in 0 .. Capacity[k]
  BY <1>4, WorkerAssumption DEF TypeOK, Shapes
<1>7. slots' \in [Kinds -> Nat]
  BY <1>4 DEF Release, Shapes
<1> QED BY <1>5, <1>6, <1>7 DEF Books

\* Nobody begins or ends to hold a slot.
LEMMA BooksSame ==
  ASSUME TypeOK, SlotsCounted, Shapes, slots' = slots,
         \A p \in Pollers : poller'[p] = "polling" <=> poller[p] = "polling",
         \A t \in Tasks : hand'[t] \in Working <=> hand[t] \in Working
  PROVE  Books
<1>1. \A k \in Kinds : PollingOf(k)' = PollingOf(k) /\ WorkingOf(k)' = WorkingOf(k)
  BY DEF PollingOf, WorkingOf
<1>2. SlotsCounted'
  BY <1>1, CountedBy DEF SlotsCounted, PollingOf, WorkingOf, Working
<1> QED BY <1>2 DEF Books, TypeOK, Shapes

\* A task is dropped by a failed call, or after the deadline.
LEMMA DropsCounted ==
  ASSUME StopIsGraceful, Shapes, TypeOK, NEW t \in Tasks, NEW x,
         task' = [task EXCEPT ![t] = x], task[t] # "dropped",
         faults' \in Nat, faults <= faults', late' = late,
         x = "dropped" => late \/ faults' = faults + 1
  PROVE  StopIsGraceful'
<1>1. IsFiniteSet(Dropped) /\ Cardinality(Dropped) \in Nat
  <2>1. Dropped \in SUBSET Tasks
    BY DEF Dropped
  <2> QED BY <2>1, FS_Subset, FS_CardinalityType, WorkerAssumption
<1>2. Dropped' = IF x = "dropped" THEN Dropped \cup {t} ELSE Dropped
  BY DEF Dropped, TypeOK
<1>3. t \notin Dropped
  BY DEF Dropped
<1>4. Cardinality(Dropped \cup {t}) = Cardinality(Dropped) + 1
  BY <1>1, <1>3, FS_AddElement
<1>5. ~late => Cardinality(Dropped) <= faults
  BY DEF StopIsGraceful, Dropped
<1>6. ~late' => Cardinality(Dropped') <= faults'
  BY <1>1, <1>2, <1>4, <1>5 DEF Shapes
<1> QED BY <1>6 DEF StopIsGraceful, Dropped

LEMMA DropsSame ==
  ASSUME StopIsGraceful, Shapes, task' = task, faults' \in Nat, faults <= faults', late => late'
  PROVE  StopIsGraceful'
<1>1. IsFiniteSet(Dropped) /\ Cardinality(Dropped) \in Nat
  <2>1. Dropped \in SUBSET Tasks
    BY DEF Dropped
  <2> QED BY <2>1, FS_Subset, FS_CardinalityType, WorkerAssumption
<1>2. Dropped' = Dropped
  BY DEF Dropped
<1>3. ~late => Cardinality(Dropped) <= faults
  BY DEF StopIsGraceful, Dropped
<1>4. ~late' => Cardinality(Dropped') <= faults'
  BY <1>1, <1>2, <1>3 DEF Shapes
<1> QED BY <1>4 DEF StopIsGraceful, Dropped

-------------------------------------------------------------------------------
\* One action at a time.

LEMMA StartKeeps == ASSUME Inv, Start PROVE Inv'
<1>1. Books
  BY BooksSame DEF Inv, Start, Life, taskVars
<1>2. TypeOK' /\ Shapes'
  BY <1>1 DEF Inv, Start, taskVars, TypeOK, Shapes, Books
<1>3. Quiet' /\ Life'
  BY DEF Inv, Start, taskVars, Quiet, Life, Drained, TypeOK
<1>4. StopIsGraceful'
  BY DropsSame DEF Inv, Start, taskVars, Shapes
<1> QED BY <1>1, <1>2, <1>3, <1>4 DEF Inv, Books

LEMMA StopKeeps ==
  ASSUME Inv, Stop \/ StopUnstarted \/ StopDeadline \/ StopReturn
  PROVE  Inv'
<1> USE DEF Stop, StopUnstarted, StopDeadline, StopReturn, taskVars, pollVars
<1>1. Books
  BY BooksSame DEF Inv
<1>2. TypeOK' /\ Shapes'
  BY <1>1 DEF Inv, TypeOK, Shapes, Books
<1>3. Quiet'
  BY DEF Inv, Quiet
<1>4. Life'
  BY DEF Inv, Life, Drained, TypeOK
<1>5. StopIsGraceful'
  BY DropsSame DEF Inv, Shapes
<1> QED BY <1>1, <1>2, <1>3, <1>4, <1>5 DEF Inv, Books

\* A poller that is at work: the worker was started and Stop has not returned.
LEMMA PollerAlive ==
  ASSUME Life, NEW p \in Pollers, poller[p] \in {"top", "polling", "backoff"}
  PROVE  started /\ stop # "returned"
BY DEF Life, Drained

LEMMA AcquireKeeps == ASSUME Inv, NEW p \in Pollers, Acquire(p) PROVE Inv'
<1> USE DEF Acquire, lifeVars, taskVars
<1>1. Books
  BY PollBegins DEF Inv
<1>2. TypeOK' /\ Shapes'
  BY <1>1 DEF Inv, TypeOK, Shapes, Books
<1>3. Quiet' /\ Life'
  BY PollerAlive DEF Inv, Quiet, Life
<1>4. StopIsGraceful'
  BY DropsSame DEF Inv, Shapes
<1> QED BY <1>1, <1>2, <1>3, <1>4 DEF Inv, Books

LEMMA LeaveKeeps == ASSUME Inv, NEW p \in Pollers, Leave(p) \/ EndBackoff(p) PROVE Inv'
<1> USE DEF Leave, EndBackoff, lifeVars, taskVars
<1>1. Books
  BY BooksSame DEF Inv, TypeOK
<1>2. TypeOK' /\ Shapes'
  BY <1>1 DEF Inv, TypeOK, Shapes, Books
<1>3. Quiet' /\ Life'
  BY PollerAlive DEF Inv, Quiet, Life
<1>4. StopIsGraceful'
  BY DropsSame DEF Inv, Shapes
<1> QED BY <1>1, <1>2, <1>3, <1>4 DEF Inv, Books

LEMMA PollFailsKeeps == ASSUME Inv, NEW p \in Pollers, PollFails(p) PROVE Inv'
<1> DEFINE x == IF polling THEN "backoff" ELSE "gone"
<1>1. Books
  <2>1. x # "polling" /\ poller' = [poller EXCEPT ![p] = x] /\ hand' = hand
        /\ poller[p] = "polling" /\ slots' = Release(KindOf[p])
    BY DEF PollFails
  <2> HIDE DEF x
  <2> QED BY <2>1, PollEnds DEF Inv
<1>2. faults' \in Nat /\ faults <= faults' /\ faults' <= MaxFaults
  BY WorkerAssumption DEF PollFails, Inv, Shapes, TypeOK
<1>3. /\ task' \in [Tasks -> {"queued", "held", "answered", "lost", "dropped"}]
      /\ \A t \in Tasks : task'[t] # task[t] => task[t] = "queued" /\ task'[t] = "lost"
  BY DEF PollFails, Inv, TypeOK
<1>4. errors' \in [Pollers -> 0 .. MaxBackoff] /\ poller' \in [Pollers -> {"off", "top", "polling", "backoff", "gone"}]
  BY WorkerAssumption DEF PollFails, Inv, TypeOK, NextBackoff
<1>5. TypeOK' /\ Shapes'
  BY <1>1, <1>2, <1>3, <1>4 DEF PollFails, lifeVars, Inv, TypeOK, Shapes, Books
<1>6. Quiet' /\ Life'
  <2>1. Quiet'
    BY <1>3 DEF PollFails, Inv, Quiet
  <2>2. Life'
    BY PollerAlive DEF PollFails, lifeVars, Inv, Life
  <2> QED BY <2>1, <2>2
<1>7. StopIsGraceful'
  <2>1. CASE task' = task
    BY <1>2, <2>1, DropsSame DEF Inv, PollFails, lifeVars
  <2>2. ASSUME NEW t \in Tasks, task[t] = "queued", task' = [task EXCEPT ![t] = "lost"]
        PROVE  StopIsGraceful'
    BY <1>2, <2>2, DropsCounted DEF Inv, PollFails, lifeVars
  <2> QED BY <2>1, <2>2 DEF PollFails
<1> QED BY <1>1, <1>5, <1>6, <1>7 DEF Inv, Books

LEMMA PollEmptyKeeps == ASSUME Inv, NEW p \in Pollers, PollEmpty(p) PROVE Inv'
<1> USE DEF PollEmpty, lifeVars, taskVars
<1>1. Books
  BY PollEnds DEF Inv
<1>2. TypeOK' /\ Shapes'
  BY <1>1, WorkerAssumption DEF Inv, TypeOK, Shapes, Books
<1>3. Quiet' /\ Life'
  BY PollerAlive DEF Inv, Quiet, Life
<1>4. StopIsGraceful'
  BY DropsSame DEF Inv, Shapes
<1> QED BY <1>1, <1>2, <1>3, <1>4 DEF Inv, Books

LEMMA PollTaskKeeps ==
  ASSUME Inv, NEW p \in Pollers, NEW t \in Tasks, PollTask(p, t)
  PROVE  Inv'
<1>1. PICK registered \in BOOLEAN :
       /\ registered \/ KindOf[t] = "activity"
       /\ hand' = [hand EXCEPT ![t] = IF registered THEN "run" ELSE "respond"]
       /\ ctx' = [ctx EXCEPT ![t] = TRUE]
       /\ beat' = [beat EXCEPT ![t] = IF registered /\ KindOf[t] = "activity"
                     THEN [Silent EXCEPT !.own = "idle", !.loop = "idle"] ELSE @]
  BY DEF PollTask
<1> DEFINE y == IF registered THEN "run" ELSE "respond"
<1>2. /\ hand[t] = "none" /\ task[t] = "queued" /\ poller[p] = "polling"
      /\ KindOf[t] = KindOf[p] /\ poller' = [poller EXCEPT ![p] = "top"] /\ slots' = slots
      /\ task' = [task EXCEPT ![t] = "held"]
  BY DEF PollTask, Inv, TypeOK
<1>3. y \in Working /\ y \in {"run", "respond"} /\ hand[t] \notin Working
  BY <1>2 DEF Working
<1>4. Books
  <2> HIDE DEF y
  <2>1. hand' = [hand EXCEPT ![t] = y]
    BY <1>1 DEF y
  <2> QED BY <1>2, <1>3, <2>1, SlotPassed DEF Inv
<1>5. beat' \in [Tasks -> Beats] /\ (beat'[t] = beat[t] \/ beat'[t].own = "idle")
      /\ \A u \in Tasks \ {t} : beat'[u] = beat[u]
      /\ KindOf[t] # "activity" => beat'[t] = beat[t]
  <2>1. [Silent EXCEPT !.own = "idle", !.loop = "idle"] \in Beats
        /\ [Silent EXCEPT !.own = "idle", !.loop = "idle"].own = "idle"
    BY DEF Silent, Beats
  <2> QED BY <1>1, <2>1 DEF Inv, Shapes
<1>6. TypeOK' /\ Shapes'
  <2>1. /\ task' \in [Tasks -> {"queued", "held", "answered", "lost", "dropped"}]
        /\ hand' \in [Tasks -> {"none", "run", "respond", "close", "done"}]
        /\ ctx' \in [Tasks -> BOOLEAN] /\ cancel' = cancel /\ faults' = faults
        /\ \A u \in Tasks : hand'[u] = "none" <=> task'[u] \in {"queued", "lost"}
    BY <1>1, <1>2 DEF PollTask, Inv, TypeOK
  <2>2. /\ poller' \in [Pollers -> {"off", "top", "polling", "backoff", "gone"}]
        /\ errors' \in [Pollers -> 0 .. MaxBackoff]
    BY WorkerAssumption DEF PollTask, Inv, TypeOK
  <2>3. UNCHANGED <<stop, started, stopped, late, polling, tasking, warm>>
    BY DEF PollTask, lifeVars
  <2> QED BY <1>4, <1>5, <2>1, <2>2, <2>3 DEF Inv, TypeOK, Shapes, Books
<1>7. Quiet'
  BY <1>1, <1>2, <1>5 DEF Inv, Quiet, TypeOK, Working
<1>8. Life'
  BY <1>2, PollerAlive DEF PollTask, lifeVars, Inv, Life
<1>9. StopIsGraceful'
  <2>1. faults' = faults /\ faults \in Nat /\ late' = late
    BY DEF PollTask, lifeVars, Inv, Shapes
  <2>2. StopIsGraceful /\ Shapes /\ TypeOK /\ faults' \in Nat /\ faults <= faults'
        /\ task[t] # "dropped" /\ "held" # "dropped"
    BY <1>2, <2>1 DEF Inv
  <2> QED BY <1>2, <2>1, <2>2, DropsCounted
<1> QED BY <1>4, <1>6, <1>7, <1>8, <1>9 DEF Inv, Books

\* A task in a goroutine's hands: the worker was started and Stop has not returned.
LEMMA TaskAlive ==
  ASSUME Life, NEW t \in Tasks, hand[t] \in Working
  PROVE  started /\ stop # "returned" /\ (~late => tasking)
BY DEF Life, Drained, Working

LEMMA RunEndsKeeps ==
  ASSUME Inv, NEW t \in Tasks, HandleWorkflowTask(t) \/ ActivityReturns(t)
  PROVE  Inv'
<1> USE DEF HandleWorkflowTask, ActivityReturns, lifeVars, pollVars
<1>1. Books
  BY BooksSame DEF Inv, TypeOK, Working
<1>2. TypeOK' /\ Shapes'
  BY <1>1 DEF Inv, TypeOK, Shapes, Books
<1>3. Quiet'
  <2>1. beat[t].own # "sending"
    BY DEF Inv, Quiet
  <2> QED BY <2>1 DEF Inv, Quiet, TypeOK, Working
<1>4. Life'
  BY TaskAlive DEF Inv, Life, Working
<1>5. StopIsGraceful'
  BY DropsSame DEF Inv, Shapes
<1> QED BY <1>1, <1>2, <1>3, <1>4, <1>5 DEF Inv, Books

LEMMA RespondKeeps ==
  ASSUME Inv, NEW t \in Tasks, NEW ok \in BOOLEAN, Respond(t, ok)
  PROVE  Inv'
<1>0. hand[t] = "respond" /\ hand[t] \in Working /\ task[t] = "held" /\ task' = [task EXCEPT ![t] = IF ok THEN "answered" ELSE "dropped"]
  BY DEF Respond, Working, Inv, Quiet
<1>1. Books
  <2>1. CASE beat[t].loop # "off"
    BY <1>0, <2>1, BooksSame DEF Respond, pollVars, Inv, TypeOK, Working
  <2>2. CASE beat[t].loop = "off"
    BY <1>0, <2>2, TaskGone DEF Respond, pollVars, Inv
  <2> QED BY <2>1, <2>2
<1>2. faults' \in Nat /\ faults <= faults' /\ faults' <= MaxFaults
  BY WorkerAssumption DEF Respond, Inv, Shapes, TypeOK
<1>3. /\ beat' \in [Tasks -> Beats]
      /\ \A u \in Tasks : beat'[u].own = beat[u].own /\ beat'[u].loop = beat[u].loop
  BY DEF Respond, Inv, Shapes, Beats
<1>4. TypeOK' /\ Shapes'
  BY <1>0, <1>1, <1>2, <1>3 DEF Respond, lifeVars, pollVars, Inv, TypeOK, Shapes, Books
<1>5. Quiet'
  BY <1>0, <1>3 DEF Respond, Inv, Quiet, TypeOK, Working
<1>6. Life'
  BY <1>0, TaskAlive DEF Respond, lifeVars, pollVars, Inv, Life, Working
<1>7. StopIsGraceful'
  <2>1. ~ok => late \/ faults' = faults + 1
    BY <1>0, TaskAlive DEF Respond, Inv
  <2> QED BY <1>0, <1>2, <2>1, DropsCounted DEF Respond, lifeVars, Inv
<1> QED BY <1>1, <1>4, <1>5, <1>6, <1>7 DEF Inv, Books

LEMMA HandlerReturnsKeeps == ASSUME Inv, NEW t \in Tasks, HandlerReturns(t) PROVE Inv'
<1> USE DEF HandlerReturns, lifeVars, pollVars
<1>0. hand[t] \in Working
  BY DEF Working
<1>1. Books
  BY <1>0, TaskGone DEF Inv
<1>2. TypeOK' /\ Shapes'
  BY <1>1 DEF Inv, TypeOK, Shapes, Books
<1>3. Quiet'
  BY DEF Inv, Quiet, TypeOK, LoopEnded, Working
<1>4. Life'
  BY <1>0, TaskAlive DEF Inv, Life
<1>5. StopIsGraceful'
  BY DropsSame DEF Inv, Shapes
<1> QED BY <1>1, <1>2, <1>3, <1>4, <1>5 DEF Inv, Books

\* What changes the heartbeater alone, and the context of its activity.
LEMMA BeatKeeps ==
  ASSUME Inv, NEW t \in Tasks, NEW b \in Beats, beat' = [beat EXCEPT ![t] = b],
         hand[t] \in {"none", "done"} => b.loop = "off",
         hand[t] # "run" => b.own # "sending", KindOf[t] # "activity" => b.own = "off",
         ctx' \in [Tasks -> BOOLEAN], faults' \in Nat, faults <= faults', faults' <= MaxFaults,
         UNCHANGED <<lifeVars, pollVars, slots, task, hand, cancel, warm>>
  PROVE  Inv'
<1> USE DEF lifeVars, pollVars
<1>1. Books
  BY BooksSame DEF Inv
<1>2. TypeOK' /\ Shapes'
  BY <1>1 DEF Inv, TypeOK, Shapes, Books
<1>3. Quiet'
  BY DEF Inv, Quiet, Shapes
<1>4. Life'
  BY DEF Inv, Life, Drained
<1>5. StopIsGraceful'
  BY DropsSame DEF Inv
<1> QED BY <1>1, <1>2, <1>3, <1>4, <1>5 DEF Inv, Books

LEMMA HeartbeatKeeps ==
  ASSUME Inv, NEW t \in Tasks,
         RecordHeartbeat(t) \/ IntervalPasses(t) \/ Tick(t) \/ LoopEnds(t)
  PROVE  Inv'
<1>0. beat \in [Tasks -> Beats] /\ beat[t] \in Beats /\ ctx \in [Tasks -> BOOLEAN]
      /\ faults \in Nat /\ faults <= MaxFaults
      /\ (hand[t] \in {"none", "done"} => beat[t].loop = "off")
      /\ (hand[t] # "run" => beat[t].own # "sending")
      /\ (KindOf[t] # "activity" => beat[t].own = "off")
  BY DEF Inv, Shapes, TypeOK, Quiet
<1>1. ASSUME NEW b \in Beats, beat' = [beat EXCEPT ![t] = b],
             hand[t] \in {"none", "done"} => b.loop = "off", hand[t] # "run" => b.own # "sending",
             KindOf[t] # "activity" => b.own = "off",
             UNCHANGED <<lifeVars, pollVars, slots, task, hand, ctx, cancel, warm, faults>>
      PROVE  Inv'
  <2>1. ctx' \in [Tasks -> BOOLEAN] /\ faults' \in Nat /\ faults <= faults' /\ faults' <= MaxFaults
        /\ UNCHANGED <<lifeVars, pollVars, slots, task, hand, cancel, warm>>
    BY <1>0, <1>1
  <2> QED BY <1>1, <2>1, BeatKeeps
<1>2. CASE RecordHeartbeat(t)
  <2> DEFINE b == IF beat[t].recent THEN [beat[t] EXCEPT !.pending = TRUE]
                  ELSE [beat[t] EXCEPT !.pending = FALSE, !.recent = TRUE, !.own = "sending"]
  <2>1. b \in Beats /\ b.loop = beat[t].loop /\ (b.own = beat[t].own \/ b.own = "sending")
    BY <1>0 DEF Beats
  <2>2. beat' = [beat EXCEPT ![t] = b]
    BY <1>0, <1>2 DEF RecordHeartbeat
  <2> HIDE DEF b
  <2> QED BY <1>0, <1>1, <1>2, <2>1, <2>2 DEF RecordHeartbeat
<1>3. CASE IntervalPasses(t)
  <2> DEFINE b == [beat[t] EXCEPT !.recent = FALSE]
  <2>1. b \in Beats /\ b.loop = beat[t].loop /\ b.own = beat[t].own
    BY <1>0 DEF Beats
  <2>2. beat' = [beat EXCEPT ![t] = b]
    BY <1>0, <1>3 DEF IntervalPasses
  <2> HIDE DEF b
  <2> QED BY <1>0, <1>1, <1>3, <2>1, <2>2 DEF IntervalPasses
<1>4. CASE Tick(t)
  <2> DEFINE b == [beat[t] EXCEPT !.pending = FALSE, !.recent = TRUE, !.loop = "sending"]
  <2>1. b \in Beats /\ b.own = beat[t].own /\ beat[t].loop # "off"
    BY <1>0, <1>4 DEF Beats, Tick
  <2>2. beat' = [beat EXCEPT ![t] = b]
    BY <1>0, <1>4 DEF Tick
  <2> HIDE DEF b
  <2> QED BY <1>0, <1>1, <1>4, <2>1, <2>2 DEF Tick
<1>5. CASE LoopEnds(t)
  <2> DEFINE b == [beat[t] EXCEPT !.loop = "off"]
  <2>1. b \in Beats /\ b.own = beat[t].own /\ b.loop = "off"
    BY <1>0 DEF Beats
  <2>2. beat' = [beat EXCEPT ![t] = b]
    BY <1>0, <1>5 DEF LoopEnds
  <2> HIDE DEF b
  <2> QED BY <1>0, <1>1, <1>5, <2>1, <2>2 DEF LoopEnds
<1> QED BY <1>2, <1>3, <1>4, <1>5

LEMMA BeatReturnsKeeps ==
  ASSUME Inv, NEW t \in Tasks, NEW who \in {"own", "loop"}, NEW ok \in BOOLEAN,
         BeatReturns(t, who, ok)
  PROVE  Inv'
<1>0. beat \in [Tasks -> Beats] /\ beat[t] \in Beats
      /\ (hand[t] \in {"none", "done"} => beat[t].loop = "off")
      /\ (hand[t] # "run" => beat[t].own # "sending")
      /\ (KindOf[t] # "activity" => beat[t].own = "off")
  BY DEF Inv, Shapes, TypeOK, Quiet
<1>1. /\ ctx' \in [Tasks -> BOOLEAN] /\ faults' \in Nat /\ faults <= faults' /\ faults' <= MaxFaults
      /\ UNCHANGED <<lifeVars, pollVars, slots, task, hand, cancel, warm>>
  BY WorkerAssumption DEF BeatReturns, Inv, TypeOK, Shapes
<1>2. CASE who = "own"
  <2> DEFINE b == [beat[t] EXCEPT !.own = "idle"]
  <2>1. b \in Beats /\ b.loop = beat[t].loop /\ b.own = "idle" /\ beat[t].own = "sending"
    BY <1>0, <1>2 DEF Beats, BeatReturns
  <2>2. beat' = [beat EXCEPT ![t] = b]
    BY <1>0, <1>2 DEF BeatReturns
  <2> HIDE DEF b
  <2> QED BY <1>0, <1>1, <2>1, <2>2, BeatKeeps
<1>3. CASE who = "loop"
  <2> DEFINE b == [beat[t] EXCEPT !.loop = "idle"]
  <2>1. b \in Beats /\ b.own = beat[t].own /\ beat[t].loop # "off"
    BY <1>0, <1>3 DEF Beats, BeatReturns
  <2>2. beat' = [beat EXCEPT ![t] = b]
    BY <1>0, <1>3 DEF BeatReturns
  <2> HIDE DEF b
  <2> QED BY <1>0, <1>1, <2>1, <2>2, BeatKeeps
<1> QED BY <1>2, <1>3

LEMMA RequestCancelKeeps == ASSUME Inv, NEW t \in Tasks, RequestCancel(t) PROVE Inv'
<1> USE DEF RequestCancel, lifeVars, pollVars
<1>1. Books
  BY BooksSame DEF Inv
<1>2. TypeOK' /\ Shapes'
  BY <1>1 DEF Inv, TypeOK, Shapes, Books
<1>3. Quiet' /\ Life'
  BY DEF Inv, Quiet, Life, Drained
<1>4. StopIsGraceful'
  BY DropsSame DEF Inv, Shapes
<1> QED BY <1>1, <1>2, <1>3, <1>4 DEF Inv, Books

-------------------------------------------------------------------------------
\* The results.

LEMMA InitInv == Init => Inv
<1> SUFFICES ASSUME Init PROVE Inv
  OBVIOUS
<1> USE WorkerAssumption DEF Init
<1>1. TypeOK /\ Shapes
  <2>1. Silent \in Beats
    BY DEF Silent, Beats
  <2>2. Shapes
    BY <2>1 DEF Shapes
  <2>3. \A k \in Kinds : slots[k] \in 0 .. Capacity[k]
    OBVIOUS
  <2>4. {started, stopped, late, polling, tasking, warm} \subseteq BOOLEAN
    OBVIOUS
  <2>5. /\ poller \in [Pollers -> {"off", "top", "polling", "backoff", "gone"}]
        /\ errors \in [Pollers -> 0..MaxBackoff]
        /\ task \in [Tasks -> {"queued", "held", "answered", "lost", "dropped"}]
        /\ hand \in [Tasks -> {"none", "run", "respond", "close", "done"}]
        /\ ctx \in [Tasks -> BOOLEAN] /\ cancel \subseteq Activities
        /\ \A t \in Tasks : hand[t] = "none" <=> task[t] \in {"queued", "lost"}
        /\ faults <= MaxFaults /\ stop = "none"
    OBVIOUS
  <2> HIDE DEF Init
  <2> QED BY <2>2, <2>3, <2>4, <2>5 DEF TypeOK
<1>2. Quiet /\ Life
  BY DEF Quiet, Life, Silent, Working
<1>3. SlotsCounted
  <2>1. \A k \in Kinds : PollingOf(k) = {} /\ WorkingOf(k) = {}
    BY DEF PollingOf, WorkingOf, Working
  <2>2. \A k \in Kinds : slots[k] = 0 + 0
    OBVIOUS
  <2>3. \A k \in Kinds : Cardinality(PollingOf(k)) = 0 /\ Cardinality(WorkingOf(k)) = 0
    BY <2>1, FS_EmptySet
  <2> QED BY <2>2, <2>3, CountedBy
<1>4. StopIsGraceful
  <2>1. {t \in Tasks : task[t] = "dropped"} = {}
    OBVIOUS
  <2>2. Cardinality({t \in Tasks : task[t] = "dropped"}) = 0
    BY <2>1, FS_EmptySet
  <2>3. faults = 0
    OBVIOUS
  <2> HIDE DEF Init
  <2> QED BY <2>2, <2>3 DEF StopIsGraceful
<1> QED BY <1>1, <1>2, <1>3, <1>4 DEF Inv

LEMMA Invariance == Spec => []Inv
<1>1. Inv /\ [Next]_vars => Inv'
  <2> SUFFICES ASSUME Inv, [Next]_vars PROVE Inv'
    OBVIOUS
  <2>1. CASE UNCHANGED vars
    BY <2>1 DEF vars, Inv, TypeOK, SlotsCounted, Shapes, Quiet, Life, Drained, StopIsGraceful
  <2>2. ASSUME NEW p \in Pollers, PollerStep(p) PROVE Inv'
    BY <2>2, AcquireKeeps, LeaveKeeps, PollFailsKeeps, PollEmptyKeeps, PollTaskKeeps
       DEF PollerStep
  <2>3. ASSUME NEW t \in Tasks,
               \/ TaskEnds(t) \/ ActivityReturns(t) \/ RecordHeartbeat(t)
               \/ IntervalPasses(t) \/ BeatStep(t) \/ RequestCancel(t)
        PROVE  Inv'
    BY <2>3, RunEndsKeeps, RespondKeeps, HandlerReturnsKeeps, HeartbeatKeeps, BeatReturnsKeeps,
       RequestCancelKeeps DEF TaskEnds, BeatStep
  <2> QED BY <2>1, <2>2, <2>3, StartKeeps, StopKeeps DEF Next
<1> QED BY <1>1, InitInv, PTL DEF Spec

\* Slots stay within their capacity, and every poll and every task at work holds
\* exactly one, whatever way a poll or a task ends (acquire, release).
THEOREM SlotsAreCounted == Spec => []SlotsSound
<1>1. Inv => SlotsSound
  BY DEF Inv, SlotsSound
<1> QED BY <1>1, Invariance, PTL

\* When Stop has returned, no goroutine, call, slot or warm instance is left; and while
\* it is within its deadline only a failed call keeps an answer back (Stop).
THEOREM StopLeavesNothing == Spec => []StopIsClean
<1>1. Inv => StopDrains
  <2> SUFFICES ASSUME Inv, stop = "returned" PROVE StopDrains
    BY DEF StopDrains
  <2>1. Drained /\ ~warm
    BY DEF Inv, Life
  <2>2. \A k \in Kinds : PollingOf(k) = {} /\ WorkingOf(k) = {}
    BY <2>1 DEF Drained, PollingOf, WorkingOf, Working
  <2>3. \A k \in Kinds : slots[k] = 0
    BY <2>2, CountedBy, FS_EmptySet DEF Inv
  <2> QED BY <2>1, <2>3 DEF StopDrains, Inv, Quiet, Drained
<1>2. Inv => StopIsClean
  BY <1>1 DEF StopIsClean, Inv
<1> QED BY <1>2, Invariance, PTL
===============================================================================
