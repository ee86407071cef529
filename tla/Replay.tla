-------------------------------- MODULE Replay --------------------------------
(***************************************************************************)
(* The workflow SDK: internal/workflow's Environment and Executor, which   *)
(* run workflow code against a recorded history, pkg/worker's handler of   *)
(* workflow tasks with its sticky cache of warm executors, and the run's   *)
(* state machine on the server (MutableState).                             *)
(*                                                                         *)
(* Workflow code is a straight-line program of SDK calls run by the main   *)
(* coroutine; Dispatcher models how several coroutines share it.  What a   *)
(* user function (a side effect, a local activity) returns is chosen anew  *)
(* for every live task.  An event's time is its position in the log.       *)
(*                                                                         *)
(*   ms       the run's state on the server, its event log included        *)
(*   build    the deployed code: the new build has a version gate          *)
(*   polled   per worker, tasks its pollers hold, by their started events  *)
(*   busy     per worker, executors that are about to answer               *)
(*   putting  per worker, executors whose answer was accepted and that are *)
(*            on their way back into the cache                             *)
(*   cache    per worker, the warm executor of the run, or Cold            *)
(*   log      what the accepted tasks let workflow code observe            *)
(*   faults   failures so far                                              *)
(***************************************************************************)
EXTENDS MutableState

CONSTANTS
  Workers,
  Programs,                     \* workflow code, chosen once for a behaviour
  FnResults,                    \* what user functions do: a value, "error", "app" or "panic"
  MaxSignals, MaxFaults         \* bounds

VARIABLES prog, ms, build, polled, busy, putting, cache, log, faults
vars == <<prog, ms, build, polled, busy, putting, cache, log, faults>>

None == "none"

\* The cache holds no executor of the run.
Cold == [cold |-> TRUE]

-------------------------------------------------------------------------------
\* An executor and the environment it owns.  fut holds the futures of
\* activities and timers in the order workflow code created them.

NewEnvironment ==
  [closed |-> FALSE, now |-> 0, outstanding |-> <<>>, fut |-> <<>>, pending |-> <<>>,
   applying |-> FALSE, canceled |-> FALSE, signals |-> <<>>, markers |-> {},
   acts |-> 0, timers |-> 0, sides |-> 0, locals |-> 0, muts |-> 0,
   mutable |-> None, version |-> None, drawn |-> [rand |-> 0, uuid |-> 0]]

\* next is the last event applied, pc where workflow code stands, log what it saw.
NewExecutor == [next |-> 0, err |-> None, pc |-> 1, log |-> <<>>] @@ NewEnvironment

Cmd(do, id, ev) == [do |-> do, id |-> id, ev |-> ev]
Saw(x, op, val) == [x EXCEPT !.log = Append(@, <<op, val, x.now>>)]

\* An error poisons the executor; FailureCause tells workflow code's own panic from
\* a disagreement with the history.
Failed(x) == x.err # None
Panicked(x) == [x EXCEPT !.err = "panic"]
Broken(x) == [x EXCEPT !.err = "nondeterminism"]

Enqueue(x, cmd) == IF x.closed THEN x ELSE [x EXCEPT !.outstanding = Append(@, cmd)]

\* ExecuteActivity, NewTimer: the ID is taken even when the context is cancelled.
Future(kind, id) ==
  [kind |-> kind, id |-> id, ev |-> 0, closed |-> FALSE, canceled |-> FALSE, val |-> None]

Create(x, kind, id, do) ==
  LET f == Future(kind, id)
  IN IF x.canceled THEN [x EXCEPT !.fut = Append(@, [f EXCEPT !.val = "canceled"])]
     ELSE [Enqueue(x, Cmd(do, id, 0)) EXCEPT !.fut = Append(@, f)]

ExecuteActivity(x) ==
  Create([x EXCEPT !.acts = @ + 1], "act", x.acts + 1, "ScheduleActivity")
NewTimer(x) == Create([x EXCEPT !.timers = @ + 1], "timer", x.timers + 1, "StartTimer")

\* Fault: a cancel is sent for work the server has closed meanwhile.
EmitCancelClosed(x, i) ==
  LET f == x.fut[i]
  IN IF f.ev = 0 THEN x
     ELSE Enqueue(x, Cmd(IF f.kind = "act" THEN "CancelActivity" ELSE "CancelTimer", "", f.ev))

\* The cancel command of future i, unless the server has closed it or does not know it.
EmitCancel(x, i) ==
  LET f == x.fut[i]
  IN IF f.closed \/ f.ev = 0 THEN x
     ELSE Enqueue(x, Cmd(IF f.kind = "act" THEN "CancelActivity" ELSE "CancelTimer", "", f.ev))

\* Fault: a cancel that arrives with the history is emitted on the spot.
CancelFutureAtOnce(x, i) ==
  IF x.fut[i].canceled \/ x.fut[i].val # None THEN x
  ELSE [EmitCancel(x, i) EXCEPT !.fut[i].canceled = TRUE, !.fut[i].val = "canceled"]

\* cancelActivity, cancelTimer: the future resolves now; the command waits for the
\* next task when the server does not know the activity yet or history is applied.
\* A resolved future has removed its handler.
CancelFuture(x, i) ==
  IF x.fut[i].canceled \/ x.fut[i].val # None THEN x
  ELSE LET y == IF x.fut[i].ev = 0 \/ x.applying
                  THEN [x EXCEPT !.pending = Append(@, i)]
                  ELSE EmitCancel(x, i)
       IN [y EXCEPT !.fut[i].canceled = TRUE, !.fut[i].val = "canceled"]

CancelContext(x) ==
  IF x.canceled THEN x
  ELSE FoldLeft(CancelFuture, [x EXCEPT !.canceled = TRUE], [i \in DOMAIN x.fut |-> i])

FlushPendingCancels(x) == FoldLeft(EmitCancel, [x EXCEPT !.pending = <<>>], x.pending)

\* resolveActivity, fireTimer: only the first Set of a future counts.
Resolve(x, kind, ev, val) ==
  LET known == {i \in DOMAIN x.fut : x.fut[i].kind = kind /\ x.fut[i].ev = ev}
  IN [x EXCEPT !.fut = [i \in DOMAIN @ |->
        IF i \notin known THEN @[i]
        ELSE [@[i] EXCEPT !.closed = TRUE, !.val = IF @ = None THEN val ELSE @]]]

-------------------------------------------------------------------------------
\* Recorded values.  A marker is identified by its name and index.

Marker(name, n, val) == [name |-> name, n |-> n, val |-> val]
Recorded(x, name, n) == {m \in x.markers : m.name = name /\ m.n = n}
RecordMarker(x, m) == Enqueue(x, Cmd("Marker", m, 0))

\* AsApplicationError: a marker holds an error in its wire form, an ApplicationError.
\* Replay gives that one, the live task the error the function returned.
Failures == {"error", "app"}
AsApplicationError(v) == IF v \in Failures THEN "app" ELSE v

\* Fault: an error is not recorded.
OnceOnlyDropsErrors(x, name, n, live, v) ==
  IF Recorded(x, name, n) # {}
    THEN LET m == CHOOSE m \in Recorded(x, name, n) : TRUE
         IN Saw(RecordMarker(x, m), name, m.val)
  ELSE IF ~live THEN Broken(x)
  ELSE IF v = "panic" THEN Panicked(x)
  ELSE IF v \in Failures THEN Saw(x, name, v)
  ELSE Saw(RecordMarker(x, Marker(name, n, v)), name, v)

\* The function runs once, in a live task; replay gives what was recorded of it.
OnceOnly(x, name, n, live, v) ==
  IF Recorded(x, name, n) # {}
    THEN LET m == CHOOSE m \in Recorded(x, name, n) : TRUE
         IN Saw(RecordMarker(x, m), name, m.val)
  ELSE IF ~live THEN Broken(x)
  ELSE IF v = "panic" THEN Panicked(x)
  ELSE Saw(RecordMarker(x, Marker(name, n, AsApplicationError(v))), name, v)

SideEffect(x, live, v) ==
  OnceOnly([x EXCEPT !.sides = @ + 1], "side", x.sides + 1, live, v)

ExecuteLocalActivity(x, live, v) ==
  OnceOnly([x EXCEPT !.locals = @ + 1], "local", x.locals + 1, live, v)

\* MutableSideEffect records a value that differs from the cached one; an error is
\* recorded and leaves the cache alone, but replaying that marker empties the cache.
MutableSideEffect(x, n, live, v) ==
  IF Recorded(x, "mut", n) # {}
    THEN LET m == CHOOSE m \in Recorded(x, "mut", n) : TRUE
             cached == IF m.val \in Failures THEN "nil" ELSE m.val
         IN Saw([RecordMarker(x, m) EXCEPT !.mutable = cached], "mut", m.val)
  ELSE IF ~live THEN IF x.mutable = None THEN Broken(x) ELSE Saw(x, "mut", x.mutable)
  ELSE IF v = "panic" THEN Panicked(x)
  ELSE IF v \in Failures
    THEN Saw(RecordMarker(x, Marker("mut", n, AsApplicationError(v))), "mut", v)
  ELSE IF x.mutable = v THEN Saw(x, "mut", v)
  ELSE Saw(RecordMarker([x EXCEPT !.mutable = v], Marker("mut", n, v)), "mut", v)

\* GetVersion with the range [DefaultVersion, 1]; the old build makes no such call.
\* What an unchanged branch does is not a new observation.
Pin(x, v) ==
  IF v = "default" THEN [x EXCEPT !.version = v] ELSE Saw([x EXCEPT !.version = v], "gate", v)

GetVersion(x, live, b) ==
  IF b = "old" THEN x
  ELSE IF x.version # None THEN Pin(x, x.version)
  ELSE IF Recorded(x, "ver", 1) # {} \/ live
    THEN RecordMarker(Pin(x, "v1"), Marker("ver", 1, "v1"))
  ELSE Pin(x, "default")

-------------------------------------------------------------------------------
\* Workflow code.

\* Receive, Get and Await block; every other call returns at once.
Blocked(x, op) ==
  \/ op = "recv" /\ x.signals = <<>>
  \/ op = "get" /\ Last(x.fut).val = None
  \/ op = "await" /\ x.signals = <<>> /\ ~x.canceled

\* Receive, ReceiveAsync: the oldest buffered signal, or nothing; the code is told which.
Receive(x, op) ==
  IF x.signals = <<>> THEN Saw(x, op, <<>>)
  ELSE Saw([x EXCEPT !.signals = Tail(@)], op, <<Head(x.signals)>>)

\* Rand, NewUUID: two streams seeded by event 1; the n-th draw of a stream is the
\* same in every replay, whatever the other stream gave.
Draw(x, op) == Saw([x EXCEPT !.drawn[op] = @ + 1], op, x.drawn[op] + 1)

\* complete: the closing command, after which the environment takes no more.
Complete(x, do) == [Enqueue(x, Cmd(do, "", 0)) EXCEPT !.closed = TRUE]

Step(x, op, live, v, b) ==
  CASE op = "act" -> ExecuteActivity(x)
    [] op = "timer" -> NewTimer(x)
    [] op = "get" -> Saw(x, op, Last(x.fut).val)
    [] op \in {"recv", "poll"} -> Receive(x, op)
    [] op = "await" -> Saw(x, op, IF x.signals # <<>> THEN "ready" ELSE "canceled")
    [] op = "cancel" -> CancelContext(x)
    [] op \in {"rand", "uuid"} -> Draw(x, op)
    [] op = "side" -> SideEffect(x, live, v)
    [] op = "local" -> ExecuteLocalActivity(x, live, v)
    [] op = "mut" -> MutableSideEffect([x EXCEPT !.muts = @ + 1], x.muts + 1, live, v)
    [] op = "gate" -> GetVersion(x, live, b)
    [] op = "return" -> Complete(x, IF x.canceled THEN "Cancel" ELSE "Complete")
    [] op = "fail" -> Complete(x, "Fail")
    [] op = "continue" -> Complete(x, "ContinueAsNew")

\* run: pending cancels first, then the code until it blocks, returns or panics.
Run(x, live, v, b) ==
  LET Advance(y, i) ==
        IF Failed(y) \/ y.closed \/ Blocked(y, prog[y.pc]) THEN y
        ELSE [Step(y, prog[y.pc], live, v, b) EXCEPT !.pc = @ + 1]
  IN FoldLeft(Advance, FlushPendingCancels(x), prog)

-------------------------------------------------------------------------------
\* Replay.

\* commandMismatch.
Matches(cmd, e) ==
  /\ CommandEvent(cmd.do) = e.type
  /\ e.type \in {"ActScheduled", "TimerStarted"} => cmd.id = e.id
  /\ e.type = "Marker" => cmd.id.name = e.id.name /\ cmd.id.n = e.id.n
  /\ e.type \in {"ActCancelRequested", "TimerCanceled"} => cmd.ev = e.ref

\* What the matched command created now has an event.
Bind(x, e, i) ==
  LET kind == IF e.type = "ActScheduled" THEN "act" ELSE "timer"
  IN IF e.type \notin {"ActScheduled", "TimerStarted"} THEN x
     ELSE [x EXCEPT !.fut = [j \in DOMAIN @ |->
             IF @[j].kind = kind /\ @[j].id = e.id THEN [@[j] EXCEPT !.ev = i] ELSE @[j]]]

MatchCommand(x, e, i) ==
  IF x.outstanding = <<>> \/ ~Matches(Head(x.outstanding), e) THEN Broken(x)
  ELSE Bind([x EXCEPT !.outstanding = Tail(@)], e, i)

TimerCanceledByServer(x, ev) ==
  [x EXCEPT !.fut = [j \in DOMAIN @ |->
     IF @[j].kind = "timer" /\ @[j].ev = ev THEN [@[j] EXCEPT !.closed = TRUE] ELSE @[j]]]

ApplyEvent(x, e, i) ==
  CASE e.type = "TimerCanceled" ->
         LET y == MatchCommand(x, e, i)
         IN IF Failed(y) THEN y ELSE TimerCanceledByServer(y, e.ref)
    [] e.type \in CommandTypes \ {"TimerCanceled"} -> MatchCommand(x, e, i)
    [] e.type = "ActCompleted" -> Resolve(x, "act", e.ref, "result")
    [] e.type = "ActFailed" -> Resolve(x, "act", e.ref, "failed")
    [] e.type = "ActTimedOut" -> Resolve(x, "act", e.ref, "timeout")
    [] e.type = "ActCanceled" -> Resolve(x, "act", e.ref, "canceled")
    [] e.type = "TimerFired" -> Resolve(x, "timer", e.ref, "fired")
    [] e.type = "Signaled" -> [x EXCEPT !.signals = Append(@, i)]
    [] e.type = "CancelRequested" -> CancelContext(x)
    [] OTHER -> x

PreloadMarkers(x, h) ==
  [x EXCEPT !.markers = @ \cup {h[i].id : i \in {i \in DOMAIN h : h[i].type = "Marker"}}]

\* taskCompleted looks only at the event right after the started one.
TaskCompleted(h, i) == i + 1 \in DOMAIN h /\ h[i + 1].type = "TaskCompleted"

\* ProcessTask: the rest of h, stopping behind the task that is live (0 for none).
ProcessTask(x, h, started, v, b) ==
  LET One(y, i) ==
        LET z == [y EXCEPT !.next = i]
        IN IF Failed(y) THEN y
           ELSE IF h[i].type # "TaskStarted"
             THEN [ApplyEvent([z EXCEPT !.applying = TRUE], h[i], i) EXCEPT !.applying = FALSE]
           ELSE LET t == [z EXCEPT !.now = i]
                IN IF i # started /\ ~TaskCompleted(h, i) THEN t ELSE Run(t, i = started, v, b)
  IN FoldLeft(One, PreloadMarkers(x, h), [k \in 1 .. Len(h) - x.next |-> x.next + k])

\* pkg/worker's Replayer: the whole log offline; no command may be left over.
ReplayAll(h) ==
  LET x == ProcessTask(NewExecutor, h, 0, None, build)
  IN IF x.outstanding # <<>> THEN Broken(x) ELSE x

-------------------------------------------------------------------------------
\* The server.

Now == NextEventID(ms)
Accept(r) == r.ms.ok /\ ms' = r.ms

SignalWorkflow ==
  /\ ~Terminal(ms)
  /\ Len(SelectSeq(ms.events, LAMBDA e : e.type = "Signaled")) < MaxSignals
  /\ Accept(Signal(ms, Now))
  /\ UNCHANGED <<prog, build, polled, busy, putting, cache, log, faults>>

CancelWorkflow ==
  /\ ~Terminal(ms) /\ ~ms.cancel
  /\ Accept(RequestCancel(ms, Now))
  /\ UNCHANGED <<prog, build, polled, busy, putting, cache, log, faults>>

TimerFires(ev) ==
  /\ ev \in DOMAIN ms.timers
  /\ Accept(FireTimer(ms, ev, Now))
  /\ UNCHANGED <<prog, build, polled, busy, putting, cache, log, faults>>

\* An activity attempt starts; later it ends one way or another.
ActivityStarts(ev) ==
  /\ ev \in DOMAIN ms.acts /\ ms.acts[ev].started = 0
  /\ ms' = StartActivity(ms, ev, Now)
  /\ UNCHANGED <<prog, build, polled, busy, putting, cache, log, faults>>

ActivityEnds(ev) ==
  /\ ev \in DOMAIN ms.acts /\ ms.acts[ev].started # 0
  /\ \/ Accept(CompleteActivity(ms, ev, Now))
     \/ ms.acts[ev].cancel /\ Accept(CancelActivity(ms, ev, Now))
  /\ UNCHANGED <<prog, build, polled, busy, putting, cache, log, faults>>

\* The task's deadline passes; whoever holds it finds out when it answers.
TaskTimesOut ==
  /\ Started(ms) /\ faults < MaxFaults /\ faults' = faults + 1
  /\ Accept(TimeoutWorkflowTask(ms, Now))
  /\ UNCHANGED <<prog, build, polled, busy, putting, cache, log>>

-------------------------------------------------------------------------------
\* pkg/worker.

\* pollWorkflowTasks: a worker's pollers share its identity and know nothing of each other,
\* so one of them may get a task of the run while another still handles an older one.
PollWorkflowTask(w) ==
  /\ ~Terminal(ms) /\ Scheduled(ms)
  /\ ms' = StartWorkflowTask(ms, w, Now)
  /\ polled' = [polled EXCEPT ![w] = @ \cup {Now}]
  /\ UNCHANGED <<prog, build, busy, putting, cache, log, faults>>

\* handleWorkflowTask up to its answer, for the history that came with the task.  Take
\* empties the cache; an executor that has lived through this task is thrown away.
ProcessPolled(w, started, v) ==
  LET warm == cache[w] # Cold /\ cache[w].next < started
      h == SubSeq(ms.events, 1, started)
      x == ProcessTask(IF warm THEN cache[w] ELSE NewExecutor, h, started, v, build)
  IN /\ started \in polled[w]
     /\ polled' = [polled EXCEPT ![w] = @ \ {started}]
     /\ cache' = [cache EXCEPT ![w] = Cold]
     /\ busy' = [busy EXCEPT ![w] = @ \cup {x}]
     /\ UNCHANGED <<prog, ms, build, putting, log, faults>>

\* Fault: an executor whose answer was refused goes back into the cache.
RefusedKeeps(w, x) ==
  cache' = [cache EXCEPT ![w] = IF Failed(x) \/ x.closed THEN Cold ELSE x] /\ UNCHANGED putting

\* Fault: so does one that failed.
RefusedKeepsFailed(w, x) == cache' = [cache EXCEPT ![w] = x] /\ UNCHANGED putting

\* The executor is closed and whatever is cached of the run evicted.
Refused(w, x) == cache' = [cache EXCEPT ![w] = Cold] /\ UNCHANGED putting

\* The answer names the worker and not the task: the server takes it for the task in
\* flight, which may be one that another poller of the worker holds.
RespondWorkflowTaskCompleted(w, x) ==
  LET r == CompletedTask(ms, x.next, x.outstanding, Now)
      accepted == OwnsTask(ms, w) /\ r.ms.ok
  IN /\ x \in busy[w] /\ ~Failed(x)
     /\ busy' = [busy EXCEPT ![w] = @ \ {x}]
     /\ IF accepted THEN ms' = r.ms /\ log' = x.log ELSE UNCHANGED <<ms, log>>
     /\ \/ /\ accepted /\ ~x.closed
           /\ putting' = [putting EXCEPT ![w] = @ \cup {x}] /\ UNCHANGED <<cache, faults>>
        \/ ~accepted /\ Refused(w, x) /\ UNCHANGED faults
        \/ accepted /\ x.closed /\ Refused(w, x) /\ UNCHANGED faults
        \/ /\ accepted /\ ~x.closed /\ faults < MaxFaults \* the answer's reply is lost
           /\ faults' = faults + 1 /\ Refused(w, x)
     /\ UNCHANGED <<prog, build, polled>>

RespondWorkflowTaskFailed(w, x) ==
  LET r == FailWorkflowTask(ms, Now)
  IN /\ x \in busy[w] /\ Failed(x)
     /\ \/ OwnsTask(ms, w) /\ faults < MaxFaults /\ faults' = faults + 1 /\ Accept(r)
        \/ ~OwnsTask(ms, w) /\ UNCHANGED <<ms, faults>>
     /\ busy' = [busy EXCEPT ![w] = @ \ {x}] /\ Refused(w, x)
     /\ UNCHANGED <<prog, build, polled, log>>

\* Put displaces what another task of the run has left in the cache meanwhile.
Put(w, x) ==
  /\ x \in putting[w]
  /\ putting' = [putting EXCEPT ![w] = @ \ {x}]
  /\ cache' = [cache EXCEPT ![w] = x]
  /\ UNCHANGED <<prog, ms, build, polled, busy, log, faults>>

\* Another run displaces this one, or EvictAll.
Evict(w) ==
  /\ cache[w] # Cold
  /\ cache' = [cache EXCEPT ![w] = Cold]
  /\ UNCHANGED <<prog, ms, build, polled, busy, putting, log, faults>>

\* Every worker is replaced by one that runs the new build.
Deploy ==
  /\ build = "old" /\ build' = "new"
  /\ polled' = [w \in Workers |-> {}]
  /\ busy' = [w \in Workers |-> {}]
  /\ putting' = [w \in Workers |-> {}]
  /\ cache' = [w \in Workers |-> Cold]
  /\ UNCHANGED <<prog, ms, log, faults>>

-------------------------------------------------------------------------------
Init ==
  /\ prog \in Programs
  /\ ms = Start(1, FALSE).ms
  /\ build = "old"
  /\ polled = [w \in Workers |-> {}]
  /\ busy = [w \in Workers |-> {}]
  /\ putting = [w \in Workers |-> {}]
  /\ cache = [w \in Workers |-> Cold]
  /\ log = <<>> /\ faults = 0

Next ==
  \/ SignalWorkflow \/ CancelWorkflow \/ TaskTimesOut \/ Deploy
  \/ \E ev \in DOMAIN ms.timers : TimerFires(ev)
  \/ \E ev \in DOMAIN ms.acts : ActivityStarts(ev) \/ ActivityEnds(ev)
  \/ \E w \in Workers :
       \/ PollWorkflowTask(w)
       \/ \E started \in polled[w], v \in FnResults : ProcessPolled(w, started, v)
       \/ \E x \in busy[w] : RespondWorkflowTaskCompleted(w, x) \/ RespondWorkflowTaskFailed(w, x)
       \/ \E x \in putting[w] : Put(w, x)
       \/ Evict(w)

Spec == Init /\ [][Next]_vars

-------------------------------------------------------------------------------
\* Where replay is exact.  Three kinds of log are set apart because the code gets them
\* wrong: those in which an event was written while a task that then completed was in
\* flight (see CacheIsOnlyAnOptimisation), those in which an answer was taken for a
\* later task of the same worker (checkTaskOwnership), whose code then ran at another
\* start than replay runs it at, and those in which a mutable side effect failed.

Exact(h) ==
  \A i \in DOMAIN h :
    /\ h[i].type = "TaskCompleted" => h[i].ref = i - 1 /\ h[i].seen = i - 1
    /\ h[i].type = "Marker" => ~(h[i].id.name = "mut" /\ h[i].id.val \in Failures)

\* Types: the server's log is one Rebuild accepts, and no executor has read past
\* the log or survived an error (handleWorkflowTask).
TypeOK ==
  /\ prog \in Programs /\ build \in {"old", "new"} /\ faults \in 0 .. MaxFaults
  /\ ms.ok /\ Validate(ms.events)
  /\ \A w \in Workers :
       /\ polled[w] \subseteq 1 .. Len(ms.events)
       /\ \A x \in busy[w] : x.next \in 1 .. Len(ms.events)
       /\ cache[w] # Cold => cache[w].next \in 1 .. Len(ms.events) /\ ~Failed(cache[w])
       /\ \A x \in putting[w] : x.next \in 1 .. Len(ms.events) /\ ~Failed(x)

\* Observations up to the form in which an error is recorded.
WireForm(seen) ==
  [k \in DOMAIN seen |-> IF seen[k][1] \in {"side", "local", "mut"}
                           THEN [seen[k] EXCEPT ![2] = AsApplicationError(@)] ELSE seen[k]]

\* "A miss costs a full replay and nothing else" (Cache): a worker with nothing
\* cached rebuilds the log into exactly the values workflow code was given when
\* it ran live, errors in their recorded form, and finds no disagreement with it.
ColdReplayIsExact ==
  Exact(ms.events) => LET x == ReplayAll(ms.events) IN ~Failed(x) /\ x.log = WireForm(log)

\* A warm executor of any worker, however old, taken through the rest of the log
\* is the executor a cold replay builds: a stale Put, a lost reply, an eviction or an
\* older task handled late cannot make the next task see another past (Take, Put,
\* handleWorkflowTask).
WarmEqualsCold ==
  Exact(ms.events) =>
    LET AtEnd(x) == ProcessTask(x, ms.events, 0, None, build)
    IN \A w \in Workers : cache[w] # Cold =>
         [AtEnd(cache[w]) EXCEPT !.log = WireForm(@)] = AtEnd(NewExecutor)

\* What a worker keeps is fit for the next task: well formed, within the log, not
\* failed, and what a cold replay would give (handleWorkflowTask).
CachesSound == TypeOK /\ WarmEqualsCold

\* The server refuses an answer only for what happened after the task started: the
\* commands of a batch never clash with each other or with the state they were made
\* for, so no task is lost to the SDK's own bookkeeping of cancelled and closed work
\* (cancelActivity, flushPendingCancels against precheckCommands).
AnswersFit ==
  \A w \in Workers : \A x \in busy[w] :
    ~Failed(x) /\ OwnsTask(ms, w) /\ x.next = Len(ms.events)
      => CompletedTask(ms, x.next, x.outstanding, Now).ms.ok

\* What workflow code has observed is never taken back, whichever worker runs the
\* next task: "correctness must never depend on a cache hit" (EvictAll).  It does:
\* replay skips a completed task when a signal, a cancel request, an activity event or
\* a timer was written between its start and its completion (taskCompleted).
CacheIsOnlyAnOptimisation == [][IsPrefix(log, log')]_vars
===============================================================================
