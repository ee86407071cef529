------------------------------- MODULE Worker -------------------------------
(***************************************************************************)
(* One worker process (pkg/worker): pollers that take a slot before they   *)
(* poll, the goroutine that handles a task, the heartbeater beside an      *)
(* activity, and Start and Stop.  What a workflow task does is module      *)
(* Replay's; here it only warms the sticky cache.                          *)
(*                                                                         *)
(*   started, stopped  the flags of the same names                         *)
(*   stop       where Stop is: "none", "waiting" for the goroutines,       *)
(*              "expired" once its deadline has passed, "returned"         *)
(*   late       Stop's deadline passed before the goroutines had ended     *)
(*   polling    pollCtx is live                                            *)
(*   tasking    taskCtx is live                                            *)
(*   poller     where each poller is: "off", "top" of its loop, "polling", *)
(*              "backoff", "gone"                                          *)
(*   errors     backoff.attempt of each poller                             *)
(*   slots      how many slots of each kind are taken                      *)
(*   task       per task, on the server: "queued", "held" by a worker,     *)
(*              "answered"; "lost" when the poll that took it failed, and  *)
(*              "dropped" when its answer could not be delivered           *)
(*   hand       per task, its goroutine: "none", "run", "respond", "close" *)
(*              (the deferred heartbeat.stop), "done"                      *)
(*   ctx        per task, whether the activity's context is live           *)
(*   cancel     the activities the server has been asked to cancel         *)
(*   beat       per task, the heartbeater: pending (hasPending), recent    *)
(*              (sent within the interval), closed, and the two goroutines *)
(*              that may be in flush: the activity's own and the loop's,   *)
(*              "off", "idle", or "sending"                                *)
(*   warm       the sticky cache holds an instance                         *)
(*   faults     how many calls have failed                                 *)
(***************************************************************************)
EXTENDS Naturals, FiniteSets

CONSTANTS Pollers, Tasks,
          KindOf,      \* "workflow" or "activity", of a poller or a task
          Capacity,    \* MaxConcurrentWorkflowTasks, MaxConcurrentActivityTasks
          MaxBackoff,  \* the attempt at which backoff.next reaches its maximum
          MaxFaults    \* bound on the calls that fail

Kinds == {"workflow", "activity"}

ASSUME WorkerAssumption ==
  /\ IsFiniteSet(Pollers) /\ IsFiniteSet(Tasks)
  /\ \A x \in Pollers \cup Tasks : KindOf[x] \in Kinds
  /\ \A k \in Kinds : Capacity[k] \in Nat \ {0}
  /\ {MaxBackoff, MaxFaults} \subseteq Nat

VARIABLES started, stopped, stop, late, polling, tasking, poller, errors, slots,
          task, hand, ctx, cancel, beat, warm, faults

vars == <<started, stopped, stop, late, polling, tasking, poller, errors, slots,
          task, hand, ctx, cancel, beat, warm, faults>>
lifeVars == <<started, stopped, stop, late, polling, tasking>>
pollVars == <<poller, errors>>
taskVars == <<task, hand, ctx, cancel, beat>>

Activities == {t \in Tasks : KindOf[t] = "activity"}
Silent == [pending |-> FALSE, recent |-> FALSE, closed |-> FALSE, own |-> "off", loop |-> "off"]

Init ==
  /\ started = FALSE /\ stopped = FALSE /\ stop = "none" /\ late = FALSE
  /\ polling = FALSE /\ tasking = FALSE
  /\ poller = [p \in Pollers |-> "off"] /\ errors = [p \in Pollers |-> 0]
  /\ slots = [k \in Kinds |-> 0]
  /\ task = [t \in Tasks |-> "queued"] /\ hand = [t \in Tasks |-> "none"]
  /\ ctx = [t \in Tasks |-> FALSE] /\ cancel = {}
  /\ beat = [t \in Tasks |-> Silent]
  /\ warm = FALSE /\ faults = 0

Acquired(k) == [slots EXCEPT ![k] = @ + 1]
Release(k) == [slots EXCEPT ![k] = @ - 1]

-----------------------------------------------------------------------------
(* The life of the worker.                                                 *)

Start ==
  /\ ~stopped /\ ~started
  /\ started' = TRUE /\ polling' = TRUE /\ tasking' = TRUE
  /\ poller' = [p \in Pollers |-> "top"]
  /\ UNCHANGED <<stopped, stop, late, errors, slots, taskVars, warm, faults>>

\* Stop on a worker that was not started.
StopUnstarted ==
  /\ ~started /\ ~stopped
  /\ stopped' = TRUE
  /\ UNCHANGED <<started, stop, late, polling, tasking, pollVars, slots, taskVars, warm, faults>>

\* Fault: Stop ends the tasks together with the polls.
StopCancelsTasks ==
  /\ started /\ ~stopped
  /\ stopped' = TRUE /\ stop' = "waiting"
  /\ polling' = FALSE /\ tasking' = FALSE
  /\ UNCHANGED <<started, late, pollVars, slots, taskVars, warm, faults>>

\* Stop, up to its wait.
Stop ==
  /\ started /\ ~stopped
  /\ stopped' = TRUE /\ stop' = "waiting"
  /\ polling' = FALSE
  /\ UNCHANGED <<started, late, tasking, pollVars, slots, taskVars, warm, faults>>

\* wg.Wait: the pollers and the goroutines of the tasks.
Drained ==
  /\ \A p \in Pollers : poller[p] = "gone"
  /\ \A t \in Tasks : hand[t] \in {"none", "done"}

\* Fault: the tasks are not canceled when the deadline passes.
StopDeadlineKeepsTasks ==
  /\ stop = "waiting" /\ ~Drained
  /\ stop' = "expired" /\ late' = TRUE
  /\ UNCHANGED <<started, stopped, polling, tasking, pollVars, slots, taskVars, warm, faults>>

StopDeadline ==
  /\ stop = "waiting" /\ ~Drained
  /\ stop' = "expired" /\ late' = TRUE /\ tasking' = FALSE
  /\ UNCHANGED <<started, stopped, polling, pollVars, slots, taskVars, warm, faults>>

\* The rest of Stop, cache.Clear included.
StopReturn ==
  /\ stop \in {"waiting", "expired"} /\ Drained
  /\ stop' = "returned" /\ tasking' = FALSE /\ warm' = FALSE
  /\ UNCHANGED <<started, stopped, late, polling, pollVars, slots, taskVars, faults>>

-----------------------------------------------------------------------------
(* A poller.                                                               *)

\* Fault: the poll is made before a slot is free.
AcquireOverfull(p) ==
  /\ poller[p] = "top"
  /\ poller' = [poller EXCEPT ![p] = "polling"]
  /\ slots' = Acquired(KindOf[p])
  /\ UNCHANGED <<lifeVars, errors, taskVars, warm, faults>>

\* acquire: select chooses freely when a slot is free and the context has ended.
Acquire(p) ==
  /\ poller[p] = "top" /\ slots[KindOf[p]] < Capacity[KindOf[p]]
  /\ poller' = [poller EXCEPT ![p] = "polling"]
  /\ slots' = Acquired(KindOf[p])
  /\ UNCHANGED <<lifeVars, errors, taskVars, warm, faults>>

\* The top of the loop, acquire or sleepCtx find the context ended.
Leave(p) ==
  /\ poller[p] \in {"top", "backoff"} /\ ~polling
  /\ poller' = [poller EXCEPT ![p] = "gone"]
  /\ UNCHANGED <<lifeVars, errors, slots, taskVars, warm, faults>>

\* backoff.next: the delay doubles with every error in a row, up to its maximum.
NextBackoff(n) == IF n < MaxBackoff THEN n + 1 ELSE n

\* The poll fails.  The server may have handed a task out to it.
PollFails(p) ==
  /\ poller[p] = "polling"
  /\ ~polling \/ faults < MaxFaults
  /\ faults' = IF polling THEN faults + 1 ELSE faults
  /\ slots' = Release(KindOf[p])
  /\ poller' = [poller EXCEPT ![p] = IF polling THEN "backoff" ELSE "gone"]
  /\ errors' = [errors EXCEPT ![p] = IF polling THEN NextBackoff(@) ELSE @]
  /\ \/ UNCHANGED task
     \/ \E t \in Tasks : /\ task[t] = "queued" /\ KindOf[t] = KindOf[p]
                         /\ task' = [task EXCEPT ![t] = "lost"]
  /\ UNCHANGED <<lifeVars, hand, ctx, cancel, beat, warm>>

EndBackoff(p) ==
  /\ poller[p] = "backoff"
  /\ poller' = [poller EXCEPT ![p] = "top"]
  /\ UNCHANGED <<lifeVars, errors, slots, taskVars, warm, faults>>

\* Fault: the slot of a poll that expired is kept.
PollEmptyKeepsSlot(p) ==
  /\ poller[p] = "polling"
  /\ poller' = [poller EXCEPT ![p] = "top"] /\ errors' = [errors EXCEPT ![p] = 0]
  /\ UNCHANGED <<lifeVars, slots, taskVars, warm, faults>>

PollEmpty(p) ==
  /\ poller[p] = "polling"
  /\ poller' = [poller EXCEPT ![p] = "top"] /\ errors' = [errors EXCEPT ![p] = 0]
  /\ slots' = Release(KindOf[p])
  /\ UNCHANGED <<lifeVars, taskVars, warm, faults>>

\* A task: its goroutine keeps the slot.  activityContext derives from taskCtx, and
\* an activity whose type is registered gets a heartbeater.
PollTask(p, t) ==
  /\ poller[p] = "polling" /\ task[t] = "queued" /\ KindOf[t] = KindOf[p]
  /\ poller' = [poller EXCEPT ![p] = "top"] /\ errors' = [errors EXCEPT ![p] = 0]
  /\ task' = [task EXCEPT ![t] = "held"]
  /\ \E registered \in BOOLEAN :
       /\ registered \/ KindOf[t] = "activity"
       /\ hand' = [hand EXCEPT ![t] = IF registered THEN "run" ELSE "respond"]
       /\ ctx' = [ctx EXCEPT ![t] = TRUE]
       /\ beat' = [beat EXCEPT ![t] = IF registered /\ KindOf[t] = "activity"
                     THEN [Silent EXCEPT !.own = "idle", !.loop = "idle"] ELSE @]
  /\ UNCHANGED <<lifeVars, slots, cancel, warm, faults>>

-----------------------------------------------------------------------------
(* The goroutine of a task.                                                *)

\* handleWorkflowTask, from the replay to its answer; the instance goes back to the
\* cache.
HandleWorkflowTask(t) ==
  /\ hand[t] = "run" /\ KindOf[t] = "workflow"
  /\ hand' = [hand EXCEPT ![t] = "respond"]
  /\ warm' = TRUE
  /\ UNCHANGED <<lifeVars, pollVars, slots, task, ctx, cancel, beat, faults>>

\* executeActivity returns, with a result, an error or a panic.
ActivityReturns(t) ==
  /\ hand[t] = "run" /\ KindOf[t] = "activity" /\ beat[t].own = "idle"
  /\ hand' = [hand EXCEPT ![t] = "respond"]
  /\ UNCHANGED <<lifeVars, pollVars, slots, task, ctx, cancel, beat, warm, faults>>

\* The answer, with taskCtx: the only thing that keeps it from the server is a
\* failed call.  After it the deferred calls run.
Respond(t, ok) ==
  /\ hand[t] = "respond"
  /\ ok => tasking
  /\ ~ok => ~tasking \/ faults < MaxFaults
  /\ faults' = IF ~ok /\ tasking THEN faults + 1 ELSE faults
  /\ task' = [task EXCEPT ![t] = IF ok THEN "answered" ELSE "dropped"]
  /\ hand' = [hand EXCEPT ![t] = IF beat[t].loop # "off" THEN "close" ELSE "done"]
  /\ beat' = [beat EXCEPT ![t].closed = beat[t].loop # "off"]
  /\ slots' = IF beat[t].loop # "off" THEN slots ELSE Release(KindOf[t])
  /\ ctx' = [ctx EXCEPT ![t] = ctx[t] /\ beat[t].loop # "off"]
  /\ UNCHANGED <<lifeVars, pollVars, cancel, warm>>

\* Fault: stop does not wait for the loop.
LoopEndedNot(t) == TRUE

\* heartbeat.stop waits for the loop to be done.
LoopEnded(t) == beat[t].loop = "off"

\* The deferred calls end: heartbeat.stop, cancel, release, wg.Done.
HandlerReturns(t) ==
  /\ hand[t] = "close" /\ LoopEnded(t)
  /\ hand' = [hand EXCEPT ![t] = "done"]
  /\ slots' = Release(KindOf[t])
  /\ ctx' = [ctx EXCEPT ![t] = FALSE]
  /\ UNCHANGED <<lifeVars, pollVars, task, cancel, beat, warm, faults>>

-----------------------------------------------------------------------------
(* Heartbeats.                                                             *)

\* record: the details are kept, and flushed at once when the throttle allows.
RecordHeartbeat(t) ==
  /\ hand[t] = "run" /\ beat[t].own = "idle"
  /\ beat' = [beat EXCEPT ![t] = IF @.recent THEN [@ EXCEPT !.pending = TRUE]
                                 ELSE [@ EXCEPT !.pending = FALSE, !.recent = TRUE, !.own = "sending"]]
  /\ UNCHANGED <<lifeVars, pollVars, slots, task, hand, ctx, cancel, warm, faults>>

\* The interval passes.
IntervalPasses(t) ==
  /\ beat[t].recent
  /\ beat' = [beat EXCEPT ![t].recent = FALSE]
  /\ UNCHANGED <<lifeVars, pollVars, slots, task, hand, ctx, cancel, warm, faults>>

\* Fault: the loop drops what is pending.
TickNothing(t) ==
  /\ beat[t].loop = "idle" /\ beat[t].pending /\ ~beat[t].closed
  /\ beat' = [beat EXCEPT ![t].pending = FALSE]
  /\ UNCHANGED <<lifeVars, pollVars, slots, task, hand, ctx, cancel, warm, faults>>

\* The loop's ticker: flush, which does nothing without pending details.
Tick(t) ==
  /\ beat[t].loop = "idle" /\ beat[t].pending /\ ~beat[t].closed
  /\ beat' = [beat EXCEPT ![t] = [@ EXCEPT !.pending = FALSE, !.recent = TRUE, !.loop = "sending"]]
  /\ UNCHANGED <<lifeVars, pollVars, slots, task, hand, ctx, cancel, warm, faults>>

\* The loop sees stopCh closed, or its context ended.
LoopEnds(t) ==
  /\ beat[t].loop = "idle" /\ (beat[t].closed \/ ~tasking)
  /\ beat' = [beat EXCEPT ![t].loop = "off"]
  /\ UNCHANGED <<lifeVars, pollVars, slots, task, hand, ctx, cancel, warm, faults>>

\* The call of flush returns, in the activity's goroutine or in the loop.  An answer
\* that asks for it cancels the activity's context; an error is only logged.
BeatReturns(t, who, ok) ==
  /\ beat[t][who] = "sending"
  /\ ok => tasking
  /\ ~ok => ~tasking \/ faults < MaxFaults
  /\ faults' = IF ~ok /\ tasking THEN faults + 1 ELSE faults
  /\ beat' = [beat EXCEPT ![t][who] = "idle"]
  /\ ctx' = [ctx EXCEPT ![t] = ctx[t] /\ ~(ok /\ t \in cancel)]
  /\ UNCHANGED <<lifeVars, pollVars, slots, task, hand, cancel, warm>>

\* The workflow asks for the activity to be canceled; it learns of it from a
\* heartbeat's answer.
RequestCancel(t) ==
  /\ t \in Activities \ cancel /\ task[t] = "held"
  /\ cancel' = cancel \cup {t}
  /\ UNCHANGED <<lifeVars, pollVars, slots, task, hand, ctx, beat, warm, faults>>

-----------------------------------------------------------------------------
PollerStep(p) ==
  \/ Acquire(p) \/ Leave(p) \/ PollFails(p) \/ EndBackoff(p) \/ PollEmpty(p)
  \/ \E t \in Tasks : PollTask(p, t)

\* What ends a poll once its context has ended.
PollerEnds(p) == Leave(p) \/ (~polling /\ PollFails(p))

TaskEnds(t) ==
  \/ HandleWorkflowTask(t) \/ HandlerReturns(t) \/ \E ok \in BOOLEAN : Respond(t, ok)

BeatStep(t) ==
  \/ Tick(t) \/ LoopEnds(t)
  \/ \E who \in {"own", "loop"}, ok \in BOOLEAN : BeatReturns(t, who, ok)

Next ==
  \/ Start \/ StopUnstarted \/ Stop \/ StopDeadline \/ StopReturn
  \/ \E p \in Pollers : PollerStep(p)
  \/ \E t \in Tasks : \/ TaskEnds(t) \/ ActivityReturns(t) \/ RecordHeartbeat(t)
                      \/ IntervalPasses(t) \/ BeatStep(t) \/ RequestCancel(t)

\* Goroutines run, calls return, the ticker ticks, and the context given to Stop has a
\* deadline (Run gives it DefaultStopTimeout).  Activities are assumed to return once
\* their context has ended, and to go on heartbeating until then.
Spec ==
  /\ Init /\ [][Next]_vars
  /\ WF_vars(StopReturn) /\ WF_vars(StopDeadline)
  /\ \A p \in Pollers : WF_vars(PollerEnds(p))
  /\ \A t \in Tasks : /\ WF_vars(TaskEnds(t))
                      /\ SF_vars((~ctx[t] \/ ~tasking) /\ ActivityReturns(t))
                      /\ WF_vars(RecordHeartbeat(t))
                      /\ WF_vars(Tick(t)) /\ WF_vars(LoopEnds(t))
                      /\ \A who \in {"own", "loop"} :
                           WF_vars(\E ok \in BOOLEAN : BeatReturns(t, who, ok))

-----------------------------------------------------------------------------
\* Types.  Slots stay within their capacity, and a task is in a goroutine's hands
\* exactly when a poll has brought it here (acquire).
TypeOK ==
  /\ stop \in {"none", "waiting", "expired", "returned"}
  /\ {started, stopped, late, polling, tasking, warm} \subseteq BOOLEAN
  /\ poller \in [Pollers -> {"off", "top", "polling", "backoff", "gone"}]
  /\ errors \in [Pollers -> 0..MaxBackoff]
  /\ \A k \in Kinds : slots[k] \in 0..Capacity[k]
  /\ task \in [Tasks -> {"queued", "held", "answered", "lost", "dropped"}]
  /\ hand \in [Tasks -> {"none", "run", "respond", "close", "done"}]
  /\ ctx \in [Tasks -> BOOLEAN] /\ cancel \subseteq Activities
  /\ \A t \in Tasks : hand[t] = "none" <=> task[t] \in {"queued", "lost"}
  /\ faults <= MaxFaults

\* Every poll and every task at work holds exactly one slot, so that the worker never
\* takes a task it has no slot for and never loses one on any way out of a poll
\* (pollWorkflowTasks, pollActivityTasks).
SlotsCounted ==
  \A k \in Kinds :
    slots[k] = Cardinality({p \in Pollers : poller[p] = "polling" /\ KindOf[p] = k})
               + Cardinality({t \in Tasks : hand[t] \in {"run", "respond", "close"} /\ KindOf[t] = k})

\* The worker's books: slots within their capacity, one for each poll and each task
\* (acquire, release).
SlotsSound == TypeOK /\ SlotsCounted

\* When Stop has returned nothing of the worker is left: no goroutine, no call under
\* way, no slot, no warm instance (Stop, heartbeater.stop).
StopDrains ==
  stop = "returned" =>
    /\ \A p \in Pollers : poller[p] = "gone"
    /\ \A t \in Tasks : /\ hand[t] \in {"none", "done"}
                        /\ beat[t].loop = "off" /\ beat[t].own # "sending"
    /\ \A k \in Kinds : slots[k] = 0
    /\ ~warm

\* A task the worker has begun is answered when Stop was given the time: only a failed
\* call, or a deadline that passed, keeps an answer back (Stop).
StopIsGraceful ==
  ~late => Cardinality({t \in Tasks : task[t] = "dropped"}) <= faults

\* Stop leaves nothing behind and, given the time, cuts nothing short (Stop).
StopIsClean == StopDrains /\ StopIsGraceful

\* Stop returns, whatever the pollers, the tasks and their heartbeats are doing.
StopReturns == (stop = "waiting") ~> (stop = "returned")

\* An activity that goes on heartbeating learns that it is to stop, also when the
\* throttle held its heartbeat back or a call failed (flush, loop).
CancelArrives ==
  \A t \in Activities : (t \in cancel /\ hand[t] = "run" /\ beat[t].loop # "off") ~> (~ctx[t] \/ ~tasking \/ hand[t] # "run")
=============================================================================
