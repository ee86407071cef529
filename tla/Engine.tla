-------------------------------- MODULE Engine --------------------------------
(***************************************************************************)
(* internal/engine over one workflow run: the write path, the durable      *)
(* timer index and its scan loop, task dispatch, the worker-facing calls   *)
(* and recovery.  A call runs its transition and its commit while holding  *)
(* the execution's lock, so each call is one action; what a worker or the  *)
(* scan loop does between two calls is a separate step.                    *)
(*                                                                         *)
(*   hist    the durable event log                                         *)
(*   index   the durable due-time index of this run                        *)
(*   cache   the rebuilt state and the timers this engine believes armed   *)
(*   refs    references in matching, or popped and not yet acted on        *)
(*   held    tasks in workers' hands, answered at some later time or never *)
(*   page    due timers the current scan has read and not yet dispatched   *)
(*   del     the key the scan loop is about to delete                      *)
(*   given   attempts handed to workers, per activity, to tell them apart  *)
(*   lost, faults   how many references and calls have failed so far       *)
(*                                                                         *)
(* A call whose store write fails changes nothing durable and drops the    *)
(* cache entry, which is what Evict does; a failing poll also loses its    *)
(* reference, which is LoseRef.  Another replica's write is an Evict here. *)
(***************************************************************************)
EXTENDS History, FiniteSets, TLC, SequencesExt, Bags

CONSTANT Options    \* the settings a run may be started under, records of the fields below

ASSUME OptionsAssumption ==
  \A o \in Options :
    /\ {o.TaskTimeout, o.TimerDelay, o.Backoff, o.MaxHistoryEvents, o.MaxTime}
          \subseteq Nat \ {0}
    /\ {o.RunTimeout, o.ScheduleToStart, o.StartToClose, o.ScheduleToClose,
        o.HeartbeatTimeout, o.MaxAttempts, o.Redispatch, o.MaxCommands, o.MaxLost,
        o.MaxFaults} \subseteq Nat
    /\ o.StartToClose > 0 \/ o.ScheduleToClose > 0

VARIABLES opt, hist, index, cache, refs, held, now, page, del, given, lost, faults
store == <<hist, index>>
scanner == <<page, del>>
vars == <<opt, hist, index, cache, refs, held, now, page, del, given, lost, faults>>

Workers == opt.Workers          \* worker identities
ActivityIds == opt.ActivityIds  \* IDs workflow code may use, each once
TimerIds == opt.TimerIds
CommandKinds == opt.CommandKinds \* commands workflow code issues
ClientCalls == opt.ClientCalls  \* which of "signal", "cancel", "terminate" clients make
MaxCommands == opt.MaxCommands  \* bound: commands per completed task
MaxSignals == opt.MaxSignals    \* bound: accepted signals
MaxLost == opt.MaxLost          \* bound: references matching loses
MaxFaults == opt.MaxFaults      \* bound: other failures
MaxTime == opt.MaxTime          \* bound: the clock
Redispatch == opt.Redispatch    \* DefaultActivityRedispatch
TaskTimeout == opt.TaskTimeout  \* the rest: see MutableState
RunTimeout == opt.RunTimeout
ScheduleToStart == opt.ScheduleToStart
StartToClose == opt.StartToClose
ScheduleToClose == opt.ScheduleToClose
HeartbeatTimeout == opt.HeartbeatTimeout
TimerDelay == opt.TimerDelay
Backoff == opt.Backoff
MaxAttempts == opt.MaxAttempts
MaxHistoryEvents == opt.MaxHistoryEvents

INSTANCE MutableState

NoState == [ms |-> NewMutableState, armed |-> {}]
NoKey == <<"none", 0>>

-------------------------------------------------------------------------------
\* The durable timer set.

Timer(kind, ev, at, attempt) == [kind |-> kind, ev |-> ev, at |-> at, attempt |-> attempt]
Key(r) == <<r.kind, r.ev>>
Keys(S) == {Key(r) : r \in S}
Without(S, keys) == {r \in S : Key(r) \notin keys}

\* earliest: the smallest non-zero instant, 0 when there is none.
Earliest(times) ==
  IF times \subseteq {0} THEN 0
  ELSE CHOOSE t \in times \ {0} : \A u \in times \ {0} : t <= u

ScheduleToStartDl(act) == IF act.attempt <= 1 THEN Deadline(act.at, ScheduleToStart) ELSE 0

\* Fault: the attempt's own clock is forgotten.
ActivityDeadlineNoAttempt(act) == Earliest({act.beatDl, act.closeDl})

ActivityDeadline(act) ==
  IF act.held THEN Earliest({act.attemptDl, act.beatDl, act.closeDl})
              ELSE Earliest({ScheduleToStartDl(act), act.attemptDl, act.closeDl})

\* Fault: user timers are armed one tick before they are due.
DerivedTimersEarly(ms) ==
  (IF ms.runDl # 0 THEN {Timer("Execution", 1, ms.runDl, 0)} ELSE {}) \cup
  (IF Started(ms) THEN {Timer("Task", ms.wt.started, ms.wt.deadline, 0)} ELSE {}) \cup
  {Timer("User", k, ms.timers[k].at - 1, 0) : k \in DOMAIN ms.timers} \cup
  {Timer("Activity", a, ActivityDeadline(ms.acts[a]), ms.acts[a].attempt) :
     a \in {a \in DOMAIN ms.acts : ActivityDeadline(ms.acts[a]) # 0}}

DerivedTimers(ms) ==
  (IF ms.runDl # 0 THEN {Timer("Execution", 1, ms.runDl, 0)} ELSE {}) \cup
  (IF Started(ms) THEN {Timer("Task", ms.wt.started, ms.wt.deadline, 0)} ELSE {}) \cup
  {Timer("User", k, ms.timers[k].at, 0) : k \in DOMAIN ms.timers} \cup
  {Timer("Activity", a, ActivityDeadline(ms.acts[a]), ms.acts[a].attempt) :
     a \in {a \in DOMAIN ms.acts : ActivityDeadline(ms.acts[a]) # 0}}

DesiredTimers(ms, armed, arm, drop) ==
  LET carried == {r \in armed : \/ r.kind = "WorkflowRetry"
                                \/ r.kind = "Retry" /\ r.ev \in DOMAIN ms.acts}
      derived == IF Terminal(ms) THEN {} ELSE DerivedTimers(ms)
  IN Without(Without(carried \cup derived, Keys(arm)) \cup arm, drop)

-------------------------------------------------------------------------------
\* The write path.

\* load: a miss rebuilds the state from the log and knows of no armed timer.  A log that
\* has outgrown MaxHistoryEvents is refused, and with it every call on the run.
Loads == cache # NoState \/ Rebuild(hist).ok
State == IF cache = NoState THEN FromLog(hist) ELSE cache.ms
Armed == IF cache = NoState THEN {} ELSE cache.armed

\* outcome: what a transition body reports to the write path.
Outcome(r) == [ms |-> r.ms, eff |-> r.eff, drop |-> {}, noop |-> FALSE]
Dropping(r, key) == [Outcome(r) EXCEPT !.drop = {key}]
Quiet(ms) == Outcome(Result(ms, <<>>))
Noop == [Quiet(State) EXCEPT !.noop = TRUE]
Rejected == Quiet(Reject(State))

TaskRef(ev) == [kind |-> "wf", ev |-> ev, attempt |-> 0]
ActivityRef(ms, ev) ==
  [kind |-> "act", ev |-> ev,
   attempt |-> IF ev \in DOMAIN ms.acts THEN ms.acts[ev].attempt ELSE 1]

\* postCommit: the references the effects put into matching.
Dispatched(ms, eff) ==
  LET Ref(e) == IF e.kind = "workflow" THEN TaskRef(e.ev) ELSE ActivityRef(ms, e.ev)
      sends == {i \in DOMAIN eff : eff[i].kind \in {"workflow", "activity"}}
  IN [ref \in {Ref(eff[i]) : i \in sends} |-> Cardinality({i \in sends : Ref(eff[i]) = ref})]

\* timerRecordsFromEffects: the only timer a state cannot reproduce.
RetryTimers(ms, eff) ==
  {Timer("Retry", eff[i].ev, eff[i].at, ms.acts[eff[i].ev].attempt) :
     i \in {i \in DOMAIN eff : eff[i].kind = "retry"}}

\* What is armed against what should be: a record that differs is written again.
DiffTimers(armed, want) ==
  [upserts |-> want \ armed, deletes |-> Keys(armed) \ Keys(want)]

\* Fault: an upsert adds a row instead of replacing the one with its key.
CommitAppends(out) ==
  LET want == DesiredTimers(out.ms, Armed, RetryTimers(out.ms, out.eff), out.drop)
  IN /\ hist' = out.ms.events
     /\ index' = IF Terminal(out.ms) THEN {}
                 ELSE Without(index, (Keys(Armed) \cup out.drop) \ Keys(want)) \cup want
     /\ cache' = [ms |-> out.ms, armed |-> want]

\* Fault: a close deletes what this engine believes armed, and nothing else.
CommitKeepsTimers(out) ==
  LET want == DesiredTimers(out.ms, Armed, RetryTimers(out.ms, out.eff), out.drop)
  IN /\ hist' = out.ms.events
     /\ index' = Without(index, Keys(Armed) \cup out.drop \cup Keys(want)) \cup want
     /\ cache' = [ms |-> out.ms, armed |-> want]

\* Fault: an armed timer is deleted although it is still wanted.
CommitDeletesWanted(out) ==
  LET want == DesiredTimers(out.ms, Armed, RetryTimers(out.ms, out.eff), out.drop)
  IN /\ hist' = out.ms.events
     /\ index' = IF Terminal(out.ms) THEN {}
                 ELSE Without(index, Keys(Armed) \cup out.drop) \cup (want \ Armed)
     /\ cache' = [ms |-> out.ms, armed |-> want]

\* AppendHistory applies deletes, then upserts, and a closed run keeps nothing.
Commit(out) ==
  LET armed == Armed
      want == DesiredTimers(out.ms, armed, RetryTimers(out.ms, out.eff), out.drop)
      diff == DiffTimers(armed, want)
      deletes == diff.deletes \cup (out.drop \ Keys(want))
  IN /\ hist' = out.ms.events
     /\ index' = IF Terminal(out.ms) THEN {}
                 ELSE Without(index, deletes \cup Keys(diff.upserts)) \cup diff.upserts
     /\ cache' = [ms |-> out.ms, armed |-> want]

\* mutate: a rejected transition drops the cache entry, a no-op keeps it.
Mutate(out) ==
  IF ~(Loads /\ out.ms.ok) THEN cache' = NoState /\ UNCHANGED store
  ELSE IF out.noop THEN cache' = [ms |-> out.ms, armed |-> Armed] /\ UNCHANGED store
  ELSE Commit(out)

\* A call that takes nothing out of matching.
Call(out) ==
  /\ Mutate(out)
  /\ refs' = IF Loads /\ out.ms.ok THEN refs (+) Dispatched(out.ms, out.eff) ELSE refs

-------------------------------------------------------------------------------
\* Client calls.

Open(out) == IF Terminal(State) THEN Rejected ELSE out

SignalWorkflow ==
  /\ "signal" \in ClientCalls
  /\ Len(SelectSeq(hist, LAMBDA e : e.type = "Signaled")) < MaxSignals
  /\ Call(Open(Outcome(Signal(State, now))))
  /\ UNCHANGED <<held, now, scanner, given, lost, faults>>

CancelWorkflow ==
  /\ "cancel" \in ClientCalls
  /\ Call(Open(Outcome(RequestCancel(State, now))))
  /\ UNCHANGED <<held, now, scanner, given, lost, faults>>

TerminateWorkflow ==
  /\ "terminate" \in ClientCalls
  /\ Call(Open(Quiet(Terminate(State, now))))
  /\ UNCHANGED <<held, now, scanner, given, lost, faults>>

-------------------------------------------------------------------------------
\* Workflow tasks.

Task(kind, ev, who, nth) == [kind |-> kind, ev |-> ev, who |-> who, nth |-> nth]
Take(ref) == BagIn(ref, refs) /\ refs' = refs (-) SetToBag({ref})

\* A poll pops a reference and starts the task it names; a stale one is dropped, and
\* so is one whose run does not load.  The pollers of a worker share its identity.
PollWorkflowTask(w, ref) ==
  LET ms == State
      current == Loads /\ ~Terminal(ms) /\ Scheduled(ms) /\ ms.wt.sched = ref.ev
  IN /\ ref.kind = "wf" /\ Take(ref)
     /\ Mutate(IF current THEN Quiet(StartWorkflowTask(ms, w, now)) ELSE Noop)
     /\ held' = IF current
                  THEN held \cup {Task("wf", NextEventID(ms), w, 0)}
                  ELSE held
     /\ UNCHANGED <<now, scanner, given, lost, faults>>

\* A worker that got no answer to its call makes it again.
Answered(h) ==
  \/ held' = held \ {h} /\ UNCHANGED faults
  \/ held' = held /\ faults < MaxFaults /\ faults' = faults + 1

\* What workflow code can ask for, having replayed the first n events.
Commands(n) ==
  LET view == FromLog(SubSeq(hist, 1, n))
      Used(type) == {hist[i].id : i \in {i \in 1 .. n : hist[i].type = type}}
      Cmd(do, id, ev) == [do |-> do, id |-> id, ev |-> ev]
      all == {Cmd("ScheduleActivity", a, 0) : a \in ActivityIds \ Used("ActScheduled")}
        \cup {Cmd("StartTimer", k, 0) : k \in TimerIds \ Used("TimerStarted")}
        \cup {Cmd("CancelTimer", "", k) : k \in DOMAIN view.timers}
        \cup {Cmd("CancelActivity", "", a) :
                a \in {a \in DOMAIN view.acts : ~view.acts[a].cancel}}
        \cup {Cmd(do, "", 0) : do \in Closing \cup {"Marker"}}
  IN {c \in all : c.do \in CommandKinds}

Batches(n) == {b \in SeqOf(Commands(n), MaxCommands) : IsInjective(b)}

RespondWorkflowTaskCompleted(h, cmds) ==
  /\ h.kind = "wf"
  /\ Call(IF OwnsTask(State, h.who) THEN Outcome(CompletedTask(State, h.ev, cmds, now))
                                    ELSE Rejected)
  /\ Answered(h)
  /\ UNCHANGED <<now, scanner, given, lost>>

\* The worker could not process the task (bound: counted as a fault).
RespondWorkflowTaskFailed(h) ==
  /\ h.kind = "wf" /\ faults < MaxFaults
  /\ Call(IF OwnsTask(State, h.who) THEN Outcome(FailWorkflowTask(State, now)) ELSE Rejected)
  /\ held' = held \ {h} /\ faults' = faults + 1
  /\ UNCHANGED <<now, scanner, given, lost>>

-------------------------------------------------------------------------------
\* Activity tasks.

\* beginRetryAttempt: a retried attempt starts without an event.
BeginRetryAttempt(ms, ev, attempt) ==
  LET act == ms.acts[ev]
  IN [ms EXCEPT !.acts[ev] =
        [act EXCEPT !.attempt = IF attempt > @ THEN attempt ELSE @, !.held = TRUE,
                    !.attemptDl = Deadline(now, StartToClose),
                    !.beatDl = Deadline(now, HeartbeatTimeout)]]

\* startActivityTask.
StartAttempt(ms, ref) ==
  IF ms.acts[ref.ev].started = 0 THEN StartActivity(ms, ref.ev, now)
                                 ELSE BeginRetryAttempt(ms, ref.ev, ref.attempt)

PollActivityTask(ref) ==
  LET ms == State
      act == ms.acts[ref.ev]
      current == /\ Loads /\ ~Terminal(ms) /\ ref.ev \in DOMAIN ms.acts
                 /\ \/ act.started = 0
                    \/ ref.attempt > act.attempt
                    \/ ref.attempt = act.attempt /\ ~act.held
  IN /\ ref.kind = "act" /\ Take(ref)
     /\ Mutate(IF current THEN Dropping(Result(StartAttempt(ms, ref), <<>>), <<"Retry", ref.ev>>)
                          ELSE Noop)
     /\ IF current
          THEN /\ held' = held \cup {Task("act", ref.ev, "", given[act.id] + 1)}
               /\ given' = [given EXCEPT ![act.id] = @ + 1]
          ELSE UNCHANGED <<held, given>>
     /\ UNCHANGED <<now, scanner, lost, faults>>

\* checkActivityOwnership: the answer names the activity, not the attempt.
OwnsActivity(ms, ev) == ev \in DOMAIN ms.acts /\ ms.acts[ev].held

\* Fault: the retry's cleared started event is left cleared.
RestoredNot(ms, r, ev) == r

\* restoreStartedEvent.
Restored(ms, r, ev) ==
  IF r.ms.ok /\ ev \in DOMAIN r.ms.acts
    THEN [r EXCEPT !.ms.acts[ev].started = IF @ = 0 THEN ms.acts[ev].started ELSE @]
    ELSE r

RespondActivityTaskCompleted(h) ==
  /\ h.kind = "act"
  /\ Call(IF OwnsActivity(State, h.ev) THEN Outcome(CompleteActivity(State, h.ev, now))
                                       ELSE Rejected)
  /\ Answered(h)
  /\ UNCHANGED <<now, scanner, given, lost>>

RespondActivityTaskFailed(h, retryable) ==
  /\ h.kind = "act"
  /\ Call(IF OwnsActivity(State, h.ev)
            THEN Outcome(Restored(State, FailActivity(State, h.ev, retryable, now), h.ev))
            ELSE Rejected)
  /\ Answered(h)
  /\ UNCHANGED <<now, scanner, given, lost>>

\* A worker reports a cancellation once a heartbeat told it of the request.
RespondActivityTaskCanceled(h) ==
  /\ h.kind = "act"
  /\ \E i \in DOMAIN hist : hist[i].type = "ActCancelRequested" /\ hist[i].ref = h.ev
  /\ Call(IF h.ev \in DOMAIN State.acts THEN Outcome(CancelActivity(State, h.ev, now))
                                        ELSE Rejected)
  /\ Answered(h)
  /\ UNCHANGED <<now, scanner, given, lost>>

Heartbeat(h) ==
  /\ h.kind = "act" /\ HeartbeatTimeout > 0
  /\ Call(IF OwnsActivity(State, h.ev) THEN Quiet(RecordActivityHeartbeat(State, h.ev, now))
                                       ELSE Rejected)
  /\ UNCHANGED <<held, now, scanner, given, lost, faults>>

\* A worker dies, or gives up on a task, without answering.
WorkerCrash(h) ==
  /\ held' = held \ {h}
  /\ UNCHANGED <<store, cache, refs, now, scanner, given, lost, faults>>

-------------------------------------------------------------------------------
\* onTimer.

FireUserTimer(r) ==
  IF Terminal(State) THEN Noop ELSE Dropping(FireTimer(State, r.ev, now), Key(r))

RedispatchActivity(r) ==
  LET ms == State
      act == ms.acts[r.ev]
      redispatched ==
        [ms EXCEPT !.acts[r.ev] = [act EXCEPT !.attempt = r.attempt, !.held = FALSE,
                                              !.beatDl = 0, !.attemptDl = now + Redispatch]]
  IN IF \/ Terminal(ms) \/ r.ev \notin DOMAIN ms.acts
        \/ r.attempt < act.attempt
        \/ r.attempt = act.attempt /\ act.held
       THEN Noop
       ELSE Dropping(Result(redispatched, <<Effect("activity", r.ev, 0)>>), Key(r))

\* expiredTimeout: innermost clock first, "" when none ran out.
ExpiredTimeout(act) ==
  LET Expired(t) == t # 0 /\ now >= t
  IN CASE act.held /\ Expired(act.beatDl) -> "Heartbeat"
       [] act.held /\ ~Expired(act.beatDl) /\ Expired(act.attemptDl) -> "StartToClose"
       [] ~act.held /\ (Expired(act.attemptDl) \/ Expired(ScheduleToStartDl(act))) ->
            "ScheduleToStart"
       [] OTHER -> IF Expired(act.closeDl) THEN "ScheduleToClose" ELSE ""

\* timeoutActivity.
ActivityTimedOut(r) ==
  LET ms == [State EXCEPT !.acts[r.ev].attempt = r.attempt]
      kind == ExpiredTimeout(ms.acts[r.ev])
  IN IF Terminal(State) \/ r.ev \notin DOMAIN State.acts \/ r.attempt < State.acts[r.ev].attempt
       THEN Noop
     ELSE IF kind = "" THEN Dropping(Result(ms, <<>>), Key(r))
     ELSE Dropping(Restored(ms, TimeoutActivity(ms, r.ev, kind, now), r.ev), Key(r))

\* timeoutWorkflowTask.
TaskTimedOut(r) ==
  IF Terminal(State) \/ ~Started(State) \/ State.wt.started # r.ev THEN Noop
  ELSE IF now < State.wt.deadline THEN Dropping(Result(State, <<>>), Key(r))
  ELSE Dropping(TimeoutWorkflowTask(State, now), Key(r))

\* timeoutExecution.
ExecutionTimedOut(r) ==
  IF Terminal(State) \/ State.runDl = 0 \/ now < State.runDl THEN Noop
  ELSE Dropping(Result(TimeoutExecution(State, now), <<>>), Key(r))

StartDeferredRun(r) ==
  IF Terminal(State) THEN Noop ELSE Dropping(ScheduleWorkflowTask(State, now), Key(r))

OnTimer(r) ==
  CASE r.kind = "User" -> FireUserTimer(r)
    [] r.kind = "Retry" -> RedispatchActivity(r)
    [] r.kind = "Activity" -> ActivityTimedOut(r)
    [] r.kind = "Task" -> TaskTimedOut(r)
    [] r.kind = "Execution" -> ExecutionTimedOut(r)
    [] r.kind = "WorkflowRetry" -> StartDeferredRun(r)

\* The scan loop: read a page, then for each entry dispatch it and delete its key.
Scan ==
  /\ page = {} /\ del = NoKey
  /\ page' = {r \in index : r.at <= now} /\ page' # {}
  /\ UNCHANGED <<store, cache, refs, held, now, del, given, lost, faults>>

NextDue(r) == r \in page /\ del = NoKey /\ \A s \in page : r.at <= s.at

\* No handler's transition is rejected: each checks first that it still applies.
Dispatch(r) ==
  /\ NextDue(r) /\ Loads
  /\ Call(OnTimer(r))
  /\ page' = page \ {r} /\ del' = Key(r)
  /\ UNCHANGED <<held, now, given, lost, faults>>

\* The callback returned an error: the entry stays for the next scan.
DispatchFails(r) ==
  /\ NextDue(r)
  /\ IF Loads THEN faults < MaxFaults /\ faults' = faults + 1 ELSE UNCHANGED faults
  /\ page' = page \ {r} /\ cache' = NoState
  /\ UNCHANGED <<store, refs, held, now, del, given, lost>>

\* Fault: the entry is acted on and never removed.
DeleteNothing ==
  /\ del # NoKey /\ del' = NoKey
  /\ UNCHANGED <<store, cache, refs, held, now, page, given, lost, faults>>

Delete ==
  /\ del # NoKey
  /\ index' = Without(index, {del}) /\ del' = NoKey
  /\ UNCHANGED <<hist, cache, refs, held, now, page, given, lost, faults>>

DeleteFails ==
  /\ del # NoKey /\ faults < MaxFaults
  /\ del' = NoKey /\ faults' = faults + 1
  /\ UNCHANGED <<store, cache, refs, held, now, page, given, lost>>

-------------------------------------------------------------------------------
\* Failures, recovery and time.

\* Matching refuses a reference (backlog full), or a poll that popped one fails
\* before it could start the task (caller gone, store error).
LoseRef(ref) ==
  /\ lost < MaxLost /\ lost' = lost + 1
  /\ Take(ref)
  /\ UNCHANGED <<store, cache, held, now, scanner, given, faults>>

Evict ==
  /\ cache # NoState /\ faults < MaxFaults
  /\ cache' = NoState /\ faults' = faults + 1
  /\ UNCHANGED <<store, refs, held, now, scanner, given, lost>>

\* Fault: recovery puts activities back into matching and forgets the workflow task.
RestartForgetsTask ==
  LET ms == FromLog(hist)
      want == DesiredTimers(ms, {}, {}, {})
  IN /\ faults < MaxFaults /\ faults' = faults + 1
     /\ page' = {} /\ del' = NoKey /\ cache' = NoState
     /\ refs' = SetToBag({ActivityRef(ms, a) : a \in {a \in DOMAIN ms.acts : ms.acts[a].started = 0}})
     /\ index' = Without(index, Keys(want)) \cup want
     /\ UNCHANGED <<hist, held, now, given, lost>>

\* The process dies; the next one runs Recover before it serves anything.  Recover
\* visits open runs and skips one that does not load.
Restart ==
  LET ms == Rebuild(hist)
      want == DesiredTimers(ms, {}, {}, {})
      waiting == {a \in DOMAIN ms.acts : ms.acts[a].started = 0}
  IN /\ faults < MaxFaults /\ faults' = faults + 1
     /\ page' = {} /\ del' = NoKey
     /\ IF ~ms.ok \/ Terminal(ms)
          THEN cache' = NoState /\ refs' = EmptyBag /\ UNCHANGED index
          ELSE /\ cache' = [ms |-> ms, armed |-> want]
               /\ refs' = SetToBag((IF Scheduled(ms) THEN {TaskRef(ms.wt.sched)} ELSE {})
                                     \cup {ActivityRef(ms, a) : a \in waiting})
               /\ index' = Without(index, Keys(want)) \cup want
     /\ UNCHANGED <<hist, held, now, given, lost>>

Tick ==
  /\ now < MaxTime /\ now' = now + 1
  /\ UNCHANGED <<store, cache, refs, held, scanner, given, lost, faults>>

\* A run is created ready to go, or as the successor of a failed run: behind a
\* workflow-level backoff, and not in the cache.
Init ==
  /\ opt \in Options
  /\ \E deferred \in BOOLEAN :
       LET first == Start(1, deferred)
           arm == IF deferred THEN {Timer("WorkflowRetry", 1, 1 + Backoff, 0)} ELSE {}
           want == DesiredTimers(first.ms, {}, arm, {})
       IN /\ hist = first.ms.events
          /\ index = want
          /\ cache = IF deferred THEN NoState ELSE [ms |-> first.ms, armed |-> want]
          /\ refs = Dispatched(first.ms, first.eff)
  /\ held = {} /\ now = 1 /\ page = {} /\ del = NoKey
  /\ given = [a \in ActivityIds |-> 0] /\ lost = 0 /\ faults = 0

Step ==
  \/ SignalWorkflow \/ CancelWorkflow \/ TerminateWorkflow
  \/ \E ref \in BagToSet(refs) :
       \/ \E w \in Workers : PollWorkflowTask(w, ref)
       \/ PollActivityTask(ref)
       \/ LoseRef(ref)
  \/ \E h \in held :
       \/ h.kind = "wf" /\ \E b \in Batches(h.ev) : RespondWorkflowTaskCompleted(h, b)
       \/ RespondWorkflowTaskFailed(h)
       \/ RespondActivityTaskCompleted(h)
       \/ \E retryable \in BOOLEAN : RespondActivityTaskFailed(h, retryable)
       \/ RespondActivityTaskCanceled(h)
       \/ Heartbeat(h)
       \/ WorkerCrash(h)
  \/ Scan \/ Delete \/ DeleteFails
  \/ \E r \in page : Dispatch(r) \/ DispatchFails(r)
  \/ Evict \/ Restart \/ Tick

Next == Step /\ UNCHANGED opt

Spec == Init /\ [][Next]_vars

-------------------------------------------------------------------------------
\* Fairness: pollers keep polling, a worker answers or gives up, the scan loop
\* runs.  The clock, the clients and the failures owe nothing.  Each step is
\* given by its guard and the variable it changes; under Next only the action
\* meant and the bounded failures make that change, so this is fairness of the
\* poll, answer, scan, dispatch and delete actions themselves.

PollStep ==
  \E ref \in BagToSet(refs) :
    /\ refs' = refs (-) SetToBag({ref}) /\ lost' = lost /\ faults' = faults

AnswerStep == \E h \in held : held' = held \ {h}

DispatchStep == \E r \in page : NextDue(r) /\ page' = page \ {r} /\ del' = Key(r)

ScanStep == page = {} /\ del = NoKey /\ page' = {r \in index : r.at <= now}

DeleteStep == del # NoKey /\ del' = NoKey

FairSpec ==
  /\ Spec
  /\ WF_refs(PollStep) /\ WF_held(AnswerStep)
  /\ WF_page(ScanStep) /\ WF_page(DispatchStep) /\ WF_del(DeleteStep)

-------------------------------------------------------------------------------
\* Properties.

\* What the log says.  ReplayAgrees is what lets the properties after it read State instead.
Replayed == FromLog(hist)

\* The durable state and the bookkeeping keep their shape, and at most one
\* index entry exists per key, which is what upsert by key must ensure.
TypeOK ==
  /\ \A i \in DOMAIN hist : hist[i].time \in 1 .. now
  /\ \A r, s \in index : Key(r) = Key(s) => r = s
  /\ \A r \in index \cup page : r.ev \in DOMAIN hist /\ r.at > 0
  /\ \A h \in held : h.kind \in {"wf", "act"} /\ h.ev \in DOMAIN hist
  /\ IsABag(refs)
  /\ now \in 1 .. MaxTime /\ lost \in 0 .. MaxLost /\ faults \in 0 .. MaxFaults

\* Whatever order calls, timers and failures come in, the log that was written is well
\* formed and replays to its end.  Its length is the one thing that can make it
\* unloadable (History.Validate): up to MaxHistoryEvents a fresh process gets its state,
\* and beyond that no process ever will.
Loadable ==
  /\ Replayed.ok /\ Replayed.events = hist
  /\ Rebuild(hist).ok <=> Len(hist) <= MaxHistoryEvents

\* The part of a state that the log determines.
Durable(ms) ==
  [status |-> ms.status, events |-> ms.events, wt |-> ms.wt, timers |-> ms.timers,
   cancel |-> ms.cancel, runDl |-> ms.runDl,
   acts |-> [a \in DOMAIN ms.acts |->
               [id |-> ms.acts[a].id, started |-> ms.acts[a].started,
                closeDl |-> ms.acts[a].closeDl, cancel |-> ms.acts[a].cancel]]]

\* "Correctness never depends on a hit" (cachedState): a cached state, mutated in
\* place by many calls, is the state a replay of the log would build.
ReplayAgrees == cache # NoState => Durable(cache.ms) = Durable(Replayed)

\* Nothing that should wake the workflow sits unread in the log of an idle run:
\* with no task scheduled, every such event was in the history handed out with a task
\* that was completed, even one that arrived while a task was in flight.
WakeTypes == {"Signaled", "CancelRequested", "TimerFired", "ActCompleted", "ActFailed",
              "ActTimedOut", "ActCanceled"}
NoLostWakeup ==
  ~Terminal(State) /\ State.wt.sched = 0 =>
    \A i \in DOMAIN hist : hist[i].type \in WakeTypes =>
      \E c \in DOMAIN hist : hist[c].type = "TaskCompleted" /\ hist[c].ref > i

\* checkTaskOwnership: a completion is accepted from the worker of the task in flight,
\* and from one that stalled past its timeout, with commands computed from an older
\* history, only where the identities recorded for the two tasks do not tell them apart:
\* they are the same, or one of them is empty.
CompletionsAreCurrent ==
  \A i \in DOMAIN hist :
    LET answered == hist[i].ref
        replayed == hist[i].seen
    IN hist[i].type = "TaskCompleted" =>
         /\ {answered, replayed} \subseteq 1 .. (i - 1)
         /\ hist[replayed].type = "TaskStarted" /\ replayed <= answered
         /\ \/ replayed = answered
            \/ hist[replayed].id = hist[answered].id
            \/ "" \in {hist[replayed].id, hist[answered].id}

\* No timer fires early, whatever the scan loop read and however long ago: a
\* user timer, a workflow task timeout and the run timeout each wait out their
\* full duration.
NothingFiresEarly ==
  \A i \in DOMAIN hist :
    LET Waited(d) == hist[i].time >= hist[hist[i].ref].time + d
    IN /\ hist[i].type = "TimerFired" => Waited(TimerDelay)
       /\ hist[i].type = "TaskTimedOut" => Waited(TaskTimeout)
       /\ hist[i].type = "TimedOut" => hist[i].time >= hist[1].time + RunTimeout

\* An open run never waits for a clock nobody watches: a started task, each user
\* timer, the run timeout and a deferred first task have their entry in the index,
\* through failed calls, dropped cache entries, restarts and entries deleted by key.
RunHasWaker ==
  ~Terminal(State) =>
    /\ DerivedTimers([State EXCEPT !.acts = NoEntry]) \subseteq index
    /\ Len(hist) = 1 => <<"WorkflowRetry", 1>> \in Keys(index)

\* A pending activity is always going to be looked at again: one that has a timeout has
\* its entry in the index, and one that no worker has started has a reference in matching,
\* as long as the log loads and matching has lost none.  Where something moves an
\* activity's clock (a retry, a heartbeat, a start that ends the wait for one) that is not
\* so: timeoutActivity drops by key an entry that a worker's call has replaced since the
\* scan read it.
ActivityHasWaker ==
  MaxAttempts = 1 /\ ScheduleToStart = 0 /\ HeartbeatTimeout = 0 =>
    \A a \in DOMAIN State.acts :
      LET started == State.acts[a].started # 0
      IN /\ started \/ ScheduleToClose > 0 => <<"Activity", a>> \in Keys(index)
         /\ ~started /\ lost = 0 /\ Loads =>
              \E ref \in BagToSet(refs) : ref.kind = "act" /\ ref.ev = a

\* However often an activity is started, retried, timed out and answered late,
\* the workflow sees one result for it.
ActivityResolvedOnce ==
  \A i, j \in DOMAIN hist :
    /\ {hist[i].type, hist[j].type} \subseteq {"ActCompleted", "ActFailed", "ActTimedOut", "ActCanceled"}
    /\ hist[i].ref = hist[j].ref
    => i = j

\* A fresh process gets back what this one has: everything keeps its shape, and the log
\* loads while it is not longer than Rebuild accepts, gives each activity one result, and
\* replays to the cached state.
Recoverable == TypeOK /\ Loadable /\ ActivityResolvedOnce /\ ReplayAgrees

\* The index is what the run waits for: while it is open everything it waits for is
\* there, and once it is closed nothing is (commit).
HasWaker == RunHasWaker /\ ActivityHasWaker /\ (Terminal(State) => index = {})

\* "A rejected task is delayed, never lost" (matching.Config.MaxBacklog): a
\* scheduled workflow task is started, or its run closed, in the end, as long as
\* matching has lost no reference; nothing offers a lost one again before a restart.
\* A run whose log no longer loads is past help.
ScheduledStarts == (lost = 0 /\ Scheduled(State)) ~> (lost > 0 \/ ~Loads \/ ~Scheduled(State))

\* Whatever is due in the index of a run that loads is acted on and removed in the end.
DueTimersServed ==
  (\E r \in index : r.at <= now) ~> (~Loads \/ \A r \in index : r.at > now)

\* Neither a task in matching nor a timer in the index is forgotten (PollWorkflowTask,
\* the timer handlers, Recover).
NothingForgotten == ScheduledStarts /\ DueTimersServed
===============================================================================
