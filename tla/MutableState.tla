----------------------------- MODULE MutableState -----------------------------
(***************************************************************************)
(* internal/execution: the state machine of one workflow run.  A state is  *)
(* a record derived from the event log; every transition is an operator    *)
(* from a state and the clock reading t to the next state and the effects  *)
(* the engine must carry out.  A rejected transition yields a state with   *)
(* ok = FALSE, which the engine throws away.  The zero time is 0.          *)
(*                                                                         *)
(* All activities share one set of timeouts and one retry policy, and a    *)
(* backoff takes the constant Backoff.  held stands for a non-empty        *)
(* ActivityState.RequestID.                                                *)
(***************************************************************************)
EXTENDS History, FiniteSets, TLC, SequencesExt

CONSTANTS
  MaxHistoryEvents,
  TaskTimeout,                  \* DefaultTaskTimeout
  RunTimeout,                   \* earliest of run and execution timeout, 0 = none
  ScheduleToStart,              \* activity timeouts, 0 = not set
  StartToClose,
  ScheduleToClose,
  HeartbeatTimeout,
  TimerDelay,                   \* StartToFireTimeout of every user timer
  Backoff,                      \* RetryPolicy.backoff
  MaxAttempts                   \* RetryPolicy.MaximumAttempts, 0 = unlimited

ASSUME DurationsAssumption ==
  /\ {MaxHistoryEvents, TaskTimeout, TimerDelay, Backoff} \subseteq Nat \ {0}
  /\ {RunTimeout, ScheduleToStart, StartToClose, ScheduleToClose,
      HeartbeatTimeout, MaxAttempts} \subseteq Nat

NoTask == [sched |-> 0, started |-> 0, deadline |-> 0, who |-> ""]
NoEntry == [e \in {} |-> 0]
Deadline(t, d) == IF d > 0 THEN t + d ELSE 0

\* Fault: a resolved activity or timer stays pending.
Remove1Nothing(f, e) == f

Remove1(f, e) == [x \in DOMAIN f \ {e} |-> f[x]]
Put1(f, e, v) == [x \in DOMAIN f \cup {e} |-> IF x = e THEN v ELSE f[x]]

NewMutableState ==
  [ok |-> TRUE, status |-> "Running", events |-> <<>>, wt |-> NoTask,
   acts |-> NoEntry, timers |-> NoEntry, cancel |-> FALSE, runDl |-> 0]

Terminal(ms) == ms.status # "Running"
Scheduled(ms) == ms.wt.sched # 0 /\ ms.wt.started = 0
Started(ms) == ms.wt.started # 0
NextEventID(ms) == Len(ms.events) + 1
Reject(ms) == [ms EXCEPT !.ok = FALSE]

-------------------------------------------------------------------------------
\* apply: which events a state accepts, and what they do to it.

Applicable(ms, e) ==
  CASE e.type = "Started" -> ms.events = <<>>
    [] e.type = "TaskScheduled" -> ms.wt.sched = 0
    [] e.type = "TaskStarted" -> Scheduled(ms)
    [] e.type \in {"TaskCompleted", "TaskFailed", "TaskTimedOut"} -> Started(ms)
    [] e.type = "ActScheduled" -> \A a \in DOMAIN ms.acts : ms.acts[a].id # e.id
    [] e.type = "ActStarted" -> e.ref \in DOMAIN ms.acts /\ ms.acts[e.ref].started = 0
    [] e.type \in {"ActCompleted", "ActFailed", "ActTimedOut", "ActCanceled",
                   "ActCancelRequested"} -> e.ref \in DOMAIN ms.acts
    [] e.type = "TimerStarted" -> \A k \in DOMAIN ms.timers : ms.timers[k].id # e.id
    [] e.type \in {"TimerFired", "TimerCanceled"} -> e.ref \in DOMAIN ms.timers
    [] OTHER -> TRUE

NewActivity(e) ==
  [id |-> e.id, at |-> e.time, started |-> 0, attempt |-> 1, held |-> FALSE,
   attemptDl |-> 0, beatDl |-> 0, closeDl |-> Deadline(e.time, ScheduleToClose),
   cancel |-> FALSE]

StartedActivity(act, e, n) ==
  [act EXCEPT !.started = n, !.attempt = e.n, !.held = TRUE,
              !.attemptDl = IF StartToClose > 0 THEN e.time + StartToClose ELSE @,
              !.beatDl = IF HeartbeatTimeout > 0 THEN e.time + HeartbeatTimeout ELSE @]

Close(ms, status) ==
  [ms EXCEPT !.status = status, !.acts = NoEntry, !.timers = NoEntry, !.wt = NoTask]

\* The new state, for an applicable event that becomes event n.
Changed(ms, e, n) ==
  CASE e.type = "Started" -> [ms EXCEPT !.runDl = Deadline(e.time, RunTimeout)]
    [] e.type = "TaskScheduled" -> [ms EXCEPT !.wt = [NoTask EXCEPT !.sched = n]]
    [] e.type = "TaskStarted" ->
         [ms EXCEPT !.wt.started = n, !.wt.who = e.id, !.wt.deadline = e.time + TaskTimeout]
    [] e.type \in {"TaskCompleted", "TaskFailed", "TaskTimedOut"} ->
         [ms EXCEPT !.wt = NoTask]
    [] e.type = "ActScheduled" -> [ms EXCEPT !.acts = Put1(@, n, NewActivity(e))]
    [] e.type = "ActStarted" -> [ms EXCEPT !.acts[e.ref] = StartedActivity(@, e, n)]
    [] e.type \in {"ActCompleted", "ActFailed", "ActTimedOut", "ActCanceled"} ->
         [ms EXCEPT !.acts = Remove1(@, e.ref)]
    [] e.type = "ActCancelRequested" -> [ms EXCEPT !.acts[e.ref].cancel = TRUE]
    [] e.type = "TimerStarted" ->
         [ms EXCEPT !.timers = Put1(@, n, [id |-> e.id, at |-> e.time + TimerDelay])]
    [] e.type \in {"TimerFired", "TimerCanceled"} ->
         [ms EXCEPT !.timers = Remove1(@, e.ref)]
    [] e.type = "CancelRequested" -> [ms EXCEPT !.cancel = TRUE]
    [] e.type \in ClosedTypes -> Close(ms, e.type)
    [] OTHER -> ms

Apply(ms, e) ==
  IF ms.ok /\ Applicable(ms, e)
    THEN [Changed(ms, e, NextEventID(ms)) EXCEPT !.events = Append(@, e)]
    ELSE Reject(ms)

AppendEvent(ms, e) == IF Terminal(ms) THEN Reject(ms) ELSE Apply(ms, e)

\* Fault: a log that has just reached the limit is refused.
ValidateShort(h) == Len(h) < MaxHistoryEvents /\ WellFormed(h)

\* History.Validate: the log that Rebuild accepts.  Only a reader applies the limit;
\* nothing stops a writer from passing it.
Validate(h) == Len(h) <= MaxHistoryEvents /\ WellFormed(h)

\* The state a log stands for, however long the log is.
FromLog(h) ==
  LET after[n \in 0 .. Len(h)] == IF n = 0 THEN NewMutableState ELSE Apply(after[n - 1], h[n])
  IN IF WellFormed(h) THEN after[Len(h)] ELSE Reject(NewMutableState)

Rebuild(h) == IF Validate(h) THEN FromLog(h) ELSE Reject(NewMutableState)

-------------------------------------------------------------------------------
\* Transitions.  eff lists what the engine must do once the write commits:
\* dispatch a workflow task, dispatch an activity task, or arm a retry timer.

Result(ms, eff) == [ms |-> ms, eff |-> eff]
Effect(kind, ev, at) == [kind |-> kind, ev |-> ev, at |-> at]

ScheduleWorkflowTask(ms, t) ==
  IF ~ms.ok \/ Terminal(ms) \/ ms.wt.sched # 0
    THEN Result(ms, <<>>)
    ELSE Result(AppendEvent(ms, Event("TaskScheduled", t)),
                <<Effect("workflow", NextEventID(ms), 0)>>)

\* The event e, then wakeWorkflow.
Record(ms, e) == ScheduleWorkflowTask(AppendEvent(ms, e), e.time)

Start(t, deferred) ==
  LET ms == AppendEvent(NewMutableState, Event("Started", t))
  IN IF deferred THEN Result(ms, <<>>) ELSE ScheduleWorkflowTask(ms, t)

StartWorkflowTask(ms, who, t) ==
  IF Scheduled(ms)
    THEN AppendEvent(ms, [Event("TaskStarted", t) EXCEPT !.ref = ms.wt.sched, !.id = who])
    ELSE Reject(ms)

\* A command is [do, id, ev]: what to do, the ID it creates, the event it names.
Closing == {"Complete", "Fail", "Cancel", "ContinueAsNew"}

ValidateBatch(cmds) == \A i \in DOMAIN cmds : cmds[i].do \in Closing => i = Len(cmds)

PrecheckCommands(ms, cmds) ==
  \A i \in DOMAIN cmds :
    LET Fresh(kind, pending) ==
          cmds[i].do = kind =>
            /\ \A x \in DOMAIN pending : pending[x].id # cmds[i].id
            /\ \A j \in 1 .. (i - 1) : cmds[j].do = kind => cmds[j].id # cmds[i].id
    IN /\ Fresh("ScheduleActivity", ms.acts)
       /\ Fresh("StartTimer", ms.timers)
       /\ cmds[i].do = "CancelTimer" => cmds[i].ev \in DOMAIN ms.timers
       /\ cmds[i].do = "CancelActivity" => cmds[i].ev \in DOMAIN ms.acts

CommandEvent(do) ==
  CASE do = "ScheduleActivity" -> "ActScheduled"
    [] do = "CancelActivity" -> "ActCancelRequested"
    [] do = "StartTimer" -> "TimerStarted"
    [] do = "CancelTimer" -> "TimerCanceled"
    [] do = "Marker" -> "Marker"
    [] do = "Complete" -> "Completed"
    [] do = "Fail" -> "Failed"
    [] do = "Cancel" -> "Canceled"
    [] do = "ContinueAsNew" -> "ContinuedAsNew"

ApplyCommand(r, cmd, by, t) ==
  Result(AppendEvent(r.ms, [Event(CommandEvent(cmd.do), t)
                              EXCEPT !.ref = cmd.ev, !.id = cmd.id, !.by = by]),
         IF cmd.do = "ScheduleActivity"
           THEN Append(r.eff, Effect("activity", NextEventID(r.ms), 0))
           ELSE r.eff)

CompleteWorkflowTask(ms, seen, cmds, t) ==
  IF Started(ms) /\ ValidateBatch(cmds) /\ PrecheckCommands(ms, cmds)
    THEN LET done == AppendEvent(ms, [Event("TaskCompleted", t)
                                        EXCEPT !.ref = ms.wt.started, !.seen = seen])
             after[n \in 0 .. Len(cmds)] ==
               IF n = 0 THEN Result(done, <<>>)
               ELSE ApplyCommand(after[n - 1], cmds[n], NextEventID(ms), t)
         IN after[Len(cmds)]
    ELSE Result(Reject(ms), <<>>)

\* The engine's side of an answer.

\* Fault: any worker may answer for the task in flight.
OwnsTaskAnyone(ms, who) == ~Terminal(ms) /\ Started(ms)

\* checkTaskOwnership: an answer names no task, only the worker, and a worker need not.
OwnsTask(ms, who) ==
  ~Terminal(ms) /\ Started(ms) /\ (who = "" \/ ms.wt.who = "" \/ ms.wt.who = who)

\* Fault: events that arrived while the worker was busy are overlooked.
CompletedTaskUnbuffered(ms, seen, cmds, t) == CompleteWorkflowTask(ms, seen, cmds, t)

\* Events that arrived while the worker was busy get a fresh task.
CompletedTask(ms, seen, cmds, t) ==
  LET done == CompleteWorkflowTask(ms, seen, cmds, t)
      buffered == NextEventID(ms) - ms.wt.started > 1
      woken == ScheduleWorkflowTask(done.ms, t)
  IN IF buffered /\ ~Terminal(done.ms) THEN Result(woken.ms, done.eff \o woken.eff)
                                       ELSE done

FailWorkflowTask(ms, t) ==
  IF Started(ms) THEN Record(ms, [Event("TaskFailed", t) EXCEPT !.ref = ms.wt.started])
                 ELSE Result(Reject(ms), <<>>)

TimeoutWorkflowTask(ms, t) ==
  IF Started(ms) THEN Record(ms, [Event("TaskTimedOut", t) EXCEPT !.ref = ms.wt.started])
                 ELSE Result(ms, <<>>)

-------------------------------------------------------------------------------
\* Activities.

StartActivity(ms, ev, t) ==
  AppendEvent(ms, [Event("ActStarted", t) EXCEPT !.ref = ev, !.n = ms.acts[ev].attempt])

\* Fault: the completion does not name the started event.
CompleteActivityUnlinked(ms, ev, t) ==
  Record(ms, [Event("ActCompleted", t) EXCEPT !.ref = ev])

CompleteActivity(ms, ev, t) ==
  IF ms.acts[ev].started # 0
    THEN Record(ms, [Event("ActCompleted", t)
                       EXCEPT !.ref = ev, !.start = ms.acts[ev].started])
    ELSE Result(Reject(ms), <<>>)

\* RetryPolicy.ShouldRetry, and the schedule-to-close budget over the backoff.
Retries(act, retryable, t) ==
  /\ retryable
  /\ MaxAttempts = 0 \/ act.attempt < MaxAttempts
  /\ act.closeDl = 0 \/ t + Backoff <= act.closeDl

RetryActivity(ms, ev, t) ==
  LET act == ms.acts[ev]
  IN Result([ms EXCEPT !.acts[ev] = [act EXCEPT !.attempt = @ + 1, !.started = 0,
                                                !.attemptDl = 0, !.beatDl = 0, !.held = FALSE]],
            <<Effect("retry", ev, t + Backoff)>>)

FailActivity(ms, ev, retryable, t) ==
  IF ms.acts[ev].started = 0 THEN Result(Reject(ms), <<>>)
  ELSE IF Retries(ms.acts[ev], retryable, t) THEN RetryActivity(ms, ev, t)
  ELSE Record(ms, [Event("ActFailed", t) EXCEPT !.ref = ev])

TimeoutActivity(ms, ev, kind, t) ==
  IF Retries(ms.acts[ev], kind # "ScheduleToClose", t) THEN RetryActivity(ms, ev, t)
  ELSE Record(ms, [Event("ActTimedOut", t) EXCEPT !.ref = ev])

CancelActivity(ms, ev, t) == Record(ms, [Event("ActCanceled", t) EXCEPT !.ref = ev])

RecordActivityHeartbeat(ms, ev, t) ==
  IF ms.acts[ev].started = 0 THEN Reject(ms)
  ELSE [ms EXCEPT !.acts[ev].beatDl = IF HeartbeatTimeout > 0 THEN t + HeartbeatTimeout
                                      ELSE @]

-------------------------------------------------------------------------------
\* Timers, signals and closing.

FireTimer(ms, ev, t) ==
  IF ev \in DOMAIN ms.timers THEN Record(ms, [Event("TimerFired", t) EXCEPT !.ref = ev])
                             ELSE Result(ms, <<>>)

Signal(ms, t) == Record(ms, Event("Signaled", t))

RequestCancel(ms, t) ==
  IF ms.cancel THEN Result(ms, <<>>) ELSE Record(ms, Event("CancelRequested", t))

Terminate(ms, t) == AppendEvent(ms, Event("Terminated", t))

TimeoutExecution(ms, t) == AppendEvent(ms, Event("TimedOut", t))
===============================================================================
