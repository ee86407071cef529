# TLA+ specifications of skald

skald is a durable execution engine: workflow code runs in workers as a
deterministic function of an event log, the engine keeps that log, a durable
index of timers and an in-memory queue of tasks, and every state of a run can be
rebuilt by replaying its log. This directory specifies the parts where that
promise is decided, from the store's drivers to the SDK's coroutines and the
client's retries, and checks them with TLC on small instances. TLAPS proves the
safety of the engine over one run, the task queue, the write path, the runs of a workflow
ID, the worker, the coroutine dispatcher, the timer loop and the client's long polls for
every instance.

Contents: [1 The system](#1-the-system), [2 Modules](#2-modules),
[3 Runs](#3-runs), [4 Bounds](#4-bounds), [5 Fairness](#5-fairness),
[6 Proofs](#6-proofs), [7 Disagreements found](#7-disagreements-found),
[8 Not modelled](#8-not-modelled), [9 Plan](#9-plan).

## 1 The system

| component | source | state | operations |
|---|---|---|---|
| matching | `internal/matching` | per queue: backlog, FIFO of parked pollers, one buffered channel per poller | Add, Poll, Close |
| history | `pkg/history` | the event log of a run | Append, Validate; command batches |
| execution | `internal/execution` | `MutableState`: status, workflow task, pending activities and timers, deadlines | one transition per event or group of events |
| engine | `internal/engine` | cache of mutable states with the timers believed armed; per-execution locks; notifier | client calls, worker calls, timer handlers, recovery |
| timers | `internal/timers` | the page of due entries being served | scan, dispatch, delete |
| persistence | `internal/persistence` | runs, logs, versions, current pointers, timer index, in two drivers | Create, AppendHistory (compare-and-set), reads, listings, DueTimers, DeleteTimers, OpenExecutions |
| retry policy | `pkg/skald/retry.go` | none | ShouldRetry, backoff |
| workflow SDK | `internal/workflow` | coroutines, channels, futures, selectors, replay position | run until blocked, match commands with events |
| worker | `pkg/worker` | poller slots, executor cache, heartbeaters | poll, execute, respond |
| client | `pkg/client` | none durable | retried calls, wait for a chain's result |
| frontend | `internal/frontend` | limiter buckets, in-flight count | HTTP handlers, middleware, drain |

How they interact. A client call or a worker's answer enters the engine through
the frontend. The engine takes the execution's lock, loads the state (from the
cache, or by replaying the log), runs one transition, and commits: the new
events, the difference between the timers it believes armed and those the new
state wants, and the new execution row go to the store in one compare-and-set
write. After the commit it carries out the effects: references to workflow and
activity tasks go into matching. Pollers pop references; the engine then starts
the task a reference names, if it is still the current one. The timer service
reads due entries, calls the engine's handler for each, and deletes the entry by
key. After a restart, recovery replays every open run, rewrites its timers and
puts its waiting tasks back into matching.

What is hard. References in matching are neither durable nor unique; index
entries are acted on long after they were read and are deleted by key; the cache
is mutated in place and must stay what a replay would give; a retried activity
attempt leaves no event, so part of the state is not in the log; workers answer
late, twice or never, and name the activity rather than the attempt; a poll gives
up while a producer is handing it a task. Replicas share a store and nothing else:
their locks and their notifiers do not see each other. Workflow code runs again
from the log at any time, on another worker and perhaps another build, and must
see the same past. Clients repeat calls whose answer was lost, and follow a run
into its successors through servers that shut down under them.

What makes each part correct:

* matching: an accepted task is returned to exactly one poll, however offers,
  timeouts and shutdown interleave; no waiter is served after it has gone.
* history and execution: whatever is committed can be loaded again, up to the limit on
  a log's length; a closed run never changes; an activity has one result.
* engine: the cache equals a replay; nothing that should wake a workflow is
  overlooked; answers of replaced workers are refused; an open run always has
  something that will wake it; a request repeated is a request made once; a chain
  of runs is never left half handed over.
* timers: no timer fires early; every due timer is acted on in the end, also
  beside one whose callback always fails; Stop leaves nothing running.
* persistence, with the engine's write path: no lost update between replicas, a
  cached state is the durable one, effects only of durable writes; the two
  drivers cannot be told apart; paging misses nothing.
* SDK: nobody sleeps past a wake-up; channels keep their order; a replay, warm or
  cold, sees what the code saw live.
* worker: slots are conserved, Stop ends and is graceful, a cancelled activity
  learns of it.
* client and frontend: one start, the true result of the chain, a drain that ends.

## 2 Modules

| module | models |
|---|---|
| `TaskPool` | abstract: what a task queue promises the engine |
| `Matching` | `internal/matching/matching.go`, one queue, every gap between two critical sections |
| `History` | the event log and what `History.Validate` asks of its events |
| `MutableState` | `internal/execution`: replay and every transition, as operators |
| `Engine` | `internal/engine` over one run with its timers, on top of `MutableState` |
| `SerialLog` | abstract: what the write path promises its callers |
| `WritePath` | `mutate`, `load`, `commit`, `postCommit` and `Recover` of several replicas over one run, step by step |
| `RunChain` | the runs of one workflow ID: starts, deduplication, reuse policies, successors, SignalWithStart |
| `Dispatcher` | `internal/workflow`: coroutines, channels, futures, selectors, contexts |
| `Replay` | `internal/workflow` and `pkg/worker`: commands, recorded values, event matching, the executor cache, on top of `MutableState` |
| `TimerIndex` | the memory driver's timer heap and the query for due timers, as operators |
| `Persistence` | both store drivers side by side, on top of `TimerIndex` |
| `Timers` | `internal/timers`: the scan loop, Stop and a crash |
| `Client` | `pkg/client`: the send loop, ExecuteWorkflow, Result, History |
| `LongPoll` | the frontend, `GetHistory`, the notifier and shutdown, on top of `Client` |
| `Worker` | `pkg/worker`: pollers, slots, tasks, heartbeats, Stop |
| `EngineProofs`, `MatchingProofs`, `WritePathProofs`, `RunChainProofs`, `WorkerProofs`, `DispatcherProofs`, `LongPollProofs` | theorems about the module each is named after |
| `StoreProofs` | theorems about `Timers`, `TimerIndex` and `Persistence` |
| `MC...` | instances for TLC |

**Matching.** A task is the argument of one Add call. `adding` is the progress of
each Add (the closed check, then `offer` under the queue lock), `pc` that of each
poller: `polling` before `takeBacklog`, `missed` after it found nothing, `parked`
in the `select`, `leaving` once the timeout, the caller's context or the closed
channel won the select and `unpark` is still to run. `waiters`, `settled` and `ch`
are the waiter list, `waiter.settled` and the one-element channel. The `select`
may choose a leaving branch although the channel is full, as Go's does. Close is
two steps, the closed channel and the drain of the queue. The list of queues,
statistics and metrics are left out.

**History and MutableState.** An event keeps its type, instant and
back-references; payloads, names and reasons are gone. A state is the record a
replay builds; `Apply` is `apply`, `AppendEvent` adds the terminal check, and
each exported transition of the Go package is an operator returning the new state
and the effects. A transition the code rejects yields a state with `ok = FALSE`.
`Rebuild` is `FromLog`, the replay, behind `Validate`, which also refuses a log of more
than `MaxHistoryEvents` events; as in the code, no writer looks at that limit. A time is
a number, and 0 the zero time, the way the SQLite driver stores it. All activities share
one set of timeouts and one retry policy. A batch of commands is checked, then folded
over the state, as in `CompleteWorkflowTask`.

**Engine.** Each exported call takes the execution lock for its whole duration, so it is
one action; what happens between calls is not. `Mutate` is `mutateLocked`: a rejected
transition drops the cache entry, a no-op writes nothing, anything else commits; a run
that is not cached and whose log no longer loads (`Loads`) fails every call, is skipped
by recovery, and its timers stay in the index. `DesiredTimers` and `Commit` are the
timer diff: `armed` is what the engine believes is in the index, which after a miss is
nothing. `refs` is the bag of references in matching, which `Matching` justifies:
nothing is lost or duplicated there, but a reference may be refused, and a poll that
popped one may fail (`LoseRef`). `held` are the tasks in workers' hands; a worker
answers at any later time, may repeat an answer that got no reply, or disappears. The
pollers of a worker share its identity, so one identity may hold several tasks of the
run, and an identity may be empty; `OwnsTask` is all that stands between a stale answer
and the task in flight. Workflow code is any batch of commands it could issue from the
history it has replayed (`Commands`). `Scan`, `Dispatch` and `Delete` are the three
steps of the scan loop, with the rest of the system running between them. `Restart`
loses everything in memory and runs `Recover` to its end before anything is served, as
`skaldd` does. A failed store write leaves nothing durable and drops the cache entry:
that is `Evict`. So does an append stamped by a clock that has stepped back, which both
stores refuse (`memory.go:920`, `sqlite.go:1309`); the model's clock does not step back.
A run starts ready or, as the successor of a failed run, deferred behind a backoff.

**WritePath.** What `Engine` takes as one step is here taken apart. Several
replicas share a store; each has its execution lock (`lock`), one cached object
for the run (`ver`, `events`) and its place in the cache (`cached`). A call goes
through `load` (read the row), `read` (read the history, on a miss), `run` (the
transition, which changes the cached object in place), `append` or `touch` (the
conditional write of an event, or of timers only) and `effects`. Between two of
these steps other replicas write, the entry is evicted although a call works on
the object, a read or write fails, or the process dies. A conflict drops the entry
and tries again, at most `MaxWriteAttempts` times and only while the caller is
there. An event is named by the call that made it and a transition is reduced to
its four outcomes: an event, moved timers, nothing to do, an error after the
object was changed. `tasks` are the calls whose effects a replica has put into its
matching; nobody polls here, so they stay until the process dies, and recovery
puts those of all events back. A recovery that cannot read the run logs that and
goes on without it (`skipped`). A failed write wrote nothing: both drivers return
an error only from a transaction that did not commit.

**RunChain.** Where `Engine` has one run, this has all runs of one workflow ID and
no log. A client's call (`call`) goes through the steps of `StartWorkflow` or
`SignalWithStartWorkflow`: lock, look for an open run, terminate it, stamp the new
run (`BuildCreate`), and `CreateExecution` at the store, which deduplicates by
request ID and applies the reuse policy. The memory driver's rules are `Refused`
and `NewCurrent`; the SQLite driver's are `ApplyReusePolicy` and `CurrentRun`;
`StoresAgree` says they decide alike. Runs close by themselves, continue, or fail
and are retried behind a backoff; the successor is created in the write that closes
its predecessor. Replies are lost, calls repeated through either replica, and
replicas crash between any two steps.

**Dispatcher.** The whole state of a workflow instance's coroutines is one record
`w`, since only one of them ever runs. A coroutine is a list of calls and a
position. A pass visits the coroutines in order of creation (`turn`); `Execute` runs
the one whose turn it is up to its next blocking call, and the pass is repeated as
long as somebody marked progress. A coroutine that blocks registers nowhere, except
a sender, so being woken means being visited again. Between two runs, history
delivers a signal, resolves a future or cancels the root context. A send on a closed
channel panics and ends the instance.

**Replay.** One run, its `MutableState` and two workers. Workflow code is a
program, a sequence of SDK calls (activity, timer, local activity, side effect,
mutable side effect, version gate, random values, cancel, poll for a signal,
blocking receive, and a way to end). `ProcessTask` is `Executor.ProcessTask`: it
applies the events of the log from the executor's position, matches each command
event with the commands the code has issued, resolves futures, and runs the code on
at each task boundary the replayer recognises. `log` is what the code was told when
it last ran live, and is what a replay has to reproduce. A worker's pollers know nothing
of each other: `polled` are the tasks of the run they were given, `busy` the executors
with an answer to send, `putting` those on their way back into the cache, and there may
be several of each. A poller takes the cached executor or builds one, answers in the
worker's name, and puts the executor back; answers get lost, refused, or taken for a
later task of the same worker, tasks time out, entries are evicted, and a new build may
replace the old one between tasks. Functions return values or errors, or panic; a marker
holds an error in its wire form (`AsApplicationError`), so what a replay is told equals
what was seen live up to that form (`WireForm`). A log is `Exact` when nothing was written
between the start of a task and its completion, the code that completed a task ran at
that task's start, and no mutable side effect failed; see section 7.

**TimerIndex and Persistence.** The heap is a sequence. A sift of `container/heap` is
the path of positions an entry takes (`UpPath`, `DownPath`, recursive functions) and one
move along it (`Along`); `Due` is the walk that reads due entries by expanding a frontier
of positions. What SQLite sorts is given by rank: the i-th row is the one that i - 1 rows
come before (`DueRows`, `Ordered`). In `Persistence` every write is given to both drivers
in one step, and they are compared; `mem` has rows, heap and reverse index, `sql` the three
tables. The timers of a request are set and removed one after the other (`UpsertAll`,
`DeleteAll`), in an order that does not matter because a request names each timer once.
Requests with stale versions, gaps in their events, timers of other runs, or after a close
are among them. A listing client (`walk`) and a recovery scan (`scan`) read page after page
with writes in between.

**Timers.** The loop waits, reads a page of due entries, and for each calls the
transition and deletes the entry; when either fails it goes on with the next one and
leaves the entry where it is. Only a failed read, or a cancelled context, is an error
of the scan and lengthens the wait. The engine arms and disarms
keys at any moment; an entry carries whether it was dispatched (`seen`) and whether
it replaced one the loop holds in its page (`raced`). Stop waits for the loop, and at
its deadline cancels it and waits again.

**Client and LongPoll.** A caller's `h` is its place in `ExecuteWorkflow`, `Result`
or `History`: which run, which cursor, which attempt. Each attempt occupies a slot
`req` of the server it went to: admission, the read of the row, the subscription,
the read of the history, the wait. An attempt the client has given up lives on in
the server. Notifiers belong to a replica: a write on another one wakes nobody here,
which is what the slow re-check of `GetHistory` is for. A run that continues, or fails
under a workflow-level retry policy, gets its successor in the commit that closes it
(`origin` tells a successor from a run that was started). A replica that shuts down
stops being ready, ends its polls, then its connections, then its engine. A proxy
or a panic answers with an error the server never sent, or not at all.

**Worker.** A poller takes a slot, polls and, given a task, hands the slot to a new
goroutine. Workflow tasks take one step, activities run as long as they like,
heartbeat, and learn from a heartbeat's answer that they are cancelled. Heartbeats
are throttled: a flush is sent by the activity itself or, for what was held back, by
the loop of the heartbeater. Stop closes the pollers' context, waits, and at its
deadline the tasks' context as well.

Operators whose comment starts with "Fault:" are not part of any specification:
each is a plausible mistake in the operator that follows it, used to confirm
that a property notices it. A property that is a conjunction of named parts has
one for each part.

## 3 Runs

| run | question | size |
|---|---|---|
| `matching_queue` | Does any interleaving of three Adds, two polls, timeouts and Close lose or duplicate a task, overfill the backlog, or leave a dead waiter listed? No. Does the queue implement `TaskPool`, and is an accepted task always served while pollers poll? Yes. | 48 thousand states |
| `engine` | One run under nine settings: can its log be loaded up to the limit, is the cache what a replay gives, are stale answers refused where identities tell them apart, does nothing fire early, is nothing overlooked, and does what the run waits for exist? Under fairness, does every scheduled task start and every due timer get served? Yes. | 262 thousand |
| `write_path` | Three calls on two replicas, one of which closes the run, a failure: is a cache hit always the durable log, does one of two racing writers win, are effects those of durable writes, is `SerialLog` implemented, and does every call end and give its lock back? Yes. | 583 thousand |
| `run_chain` | Two clients start, or signal with start, one workflow ID through two replicas, with lost replies and crashes: is there one run per request and one open run, do both stores decide alike, is every handover complete and every policy honoured? Yes. | 906 thousand |
| `dispatcher` | Every two-call program beside seven others: does anybody sleep past a wake-up, does a channel lose or reorder, does a run of the dispatcher spin? No. | 164 thousand |
| `replay` | Four workflows with failing functions, two workers with pollers that do not exclude each other, two builds: does a cold replay, and every cached executor, give what the code saw live, and does the server accept what the SDK sends? Yes, for exact logs. | 381 thousand |
| `long_poll` | A client follows a chain whose runs continue, fail and are retried through two replicas, one shutting down: is there one start, a true result, a true history, an end to every call and to the drain? Yes. | 94 thousand |
| `timers` | Pages of two with one entry that always fails, re-armed keys, a crash and Stop: is anything removed unserved, starved, or left running? No, but for a key re-armed while the loop holds it. | 62 thousand |
| `persistence` | The same calls to both drivers: do they answer, hold and read the same, and does a walk through pages miss a run? They do; it does not. | 293 thousand |
| `worker` | Pollers, slots, tasks, heartbeats and Stop in any order: are slots counted, does Stop return, leave nothing behind and cut nothing short, does a cancellation arrive? Yes. | 119 thousand |
| `signal_with_start`, `replay_cold` | expected violations, see section 7 | |

The properties are defined at the end of each module, each with a comment that
states it. Some deserve a word.

* `Recoverable` compares the cached state, after any number of in-place mutations,
  with a replay of the log. It covers what the log determines; attempt number,
  holder and per-attempt deadlines of a retried activity are in the cache only, and
  `Durable` leaves them out. It does not say that every log loads: a log loads exactly
  up to `MaxHistoryEvents`, and the engine writes beyond that (section 7). What it says is
  that nothing else makes a log unloadable.
* `NoLostWakeup` is about events that arrive while a task is in flight. Such an
  event schedules nothing; the completion must notice it.
* `CompletionsAreCurrent` uses `seen`, how much of the log the answering worker
  had replayed. The protocol does not send it: the engine must refuse stale
  answers by worker identity alone. It is claimed as far as that goes: a stale answer is
  accepted only where the identities recorded for the two tasks are the same or one of
  them is empty, and both happen in the run.
* `HasWaker` says that what a run waits for exists somewhere: a reference, or an
  index entry. It is what a lost entry violates long before anything visibly hangs.
  Its part about activities is claimed where nothing moves an activity's clock: one
  attempt, no heartbeat timeout, no schedule-to-start timeout; section 7 says why.
* `ColdReplayIsExact` and `CachesSound` are about exact logs, and about errors in the form
  in which they are recorded.
* `AnswersAreTrue`: `Result` reports the first run that did not continue as new. The chain
  may go on from there, by a retry (section 7).
* `HitIsCurrent` is the promise of the comment on `cachedState`. It is not obvious:
  a load reads version and history at two moments, so an object may pair an old
  version with a newer log, and failed calls leave their events in it.
* `EffectsMatchLog` has one exception, a recovery that skipped the run. Nothing in
  that process tries again; the effects come back with the next restart.
* `RunsSound` claims one open run while starts reach the store in the order of their
  stamps. Two replicas can break that order; section 7.
* `OnlyServedAreRemoved` excepts an entry armed under the key of one in the page: the
  loop deletes by key.
* `ResultReturns` holds although a write between the read and the subscription, or on
  another replica, wakes nobody: the re-check is what makes it true, and without it
  the run finds the lost wake-up at once.

## 4 Bounds

| bound | meaning | why it is enough |
|---|---|---|
| Matching: Tasks, Pollers, MaxBacklog | 3 Adds, 2 pollers, backlog 2 | the queue fills and overflows, two waiters queue up, a task is offered while both are between steps |
| Engine: Options | nine settings of `MCEngine`, chosen in the initial state | a timer; two workers, with identities and one without; every way to close; retries with all attempt-level timeouts and a lost reference; a single attempt with a lost reference, with a schedule-to-close budget, or cancelled; a long clock |
| Engine: MaxHistoryEvents | 9 events | a run reaches the limit in a few tasks, is evicted or restarted on both sides of it, and its timers come due when it no longer loads |
| Engine: ActivityIds, TimerIds, MaxSignals | at most one each | interactions are between one entity, its index entry and the run |
| Engine: MaxTime | 2 or 3 instants | durations are 1 or 2, so each deadline expires, and some expire together |
| Engine: MaxFaults, MaxLost | 1 | evictions, restarts, failed callbacks and deletes, repeated answers, lost references: each alone, at any point |
| WritePath: Calls, Replicas | 3 calls on 2 replicas, in every distribution | two calls share a lock and a cache entry while a third races them from the other replica |
| WritePath: MaxAttempts, MaxFaults | 2, 1 | a call loses once and retries, or loses twice and gives up; a crash, error or eviction at any point, and after a crash a recovery that skips the run |
| RunChain | 2 replicas, 2 clients, 3 runs, 2 tries each, 2 attempts of a run | both clients race at the store, one repeats its request after the other's run, a run and its successor exist beside a third |
| Dispatcher | pairs of two-call programs, 7 x 14 x 14, capacities 0 and 1, one event, a third coroutine by `go` | every call meets every other one on both sides of a blocking point |
| Replay | 4 programs of 6 or 7 calls, 2 workers, 1 signal, 1 failure; functions return two values or an error, or panic | every SDK call on both sides of a blocking one; a stale executor on one worker while the other, or another poller of the same one, goes on |
| LongPoll | 1 caller with 2 slots, 2 replicas of which one shuts down, one run the caller did not start (a successor by continue-as-new or by a retry, or somebody else's), 1 write besides those that close, 1 failure, 2 attempts | the abandoned attempt and its successor are in the server together; the chain goes on under a poll, or a repeated start finds another run current |
| Timers | 3 keys, 1 of them failing, pages of 2, 3 arms, 1 crash, 1 transient failure | a page holds the failing entry and another, a third waits behind it, a key is re-armed while in the page |
| Persistence | 3 runs, 4 writes, pages of 1, scan pages of 2, 4 kinds of append | two boundaries between pages with writes at them; entries are moved and removed inside the heap |
| Worker | 3 pollers of which 2 share a slot, 1 activity, 1 workflow task, 1 failure | a poller waits for the slot a task holds, Stop meets each of them anywhere |

`run_chain` identifies states that differ by exchanging replicas or clients, and
`replay` those that differ by exchanging workers; the specifications treat them
alike, and neither run checks liveness. `replay` does not extend a log that has
stopped being exact (constraint `Exactly`): nothing is claimed of such logs, and
none becomes exact again. It follows a deployment only of gated code: other programs are
the same in both builds, and workers that forget everything are workers that evict and
never answer.

Deadlock checking is off: a run that is closed, a clock at its bound, calls that
have all ended, or a stopped process really leave nothing to do. In its place
`HasWaker`, `AllBlocked` and the liveness properties say when stopping is wrong.

## 5 Fairness

`Matching!FairSpec`: goroutines that can run do run, so an Add in progress
finishes, the poll timer fires, and a worker that got an empty poll polls again.
Nothing makes a client Add, or Close. The channel branch of the `select` needs no
fairness of its own: a poll that leaves picks up the buffered task in `unpark`.

`Engine!FairSpec`: pollers keep polling, a worker answers or gives up (its process
ends, or its context does), and the scan loop keeps scanning, dispatching and
deleting. The clock, clients and failures have no fairness: a property must hold
although nobody ever signals and time may stand still.

`WritePath!FairSpec`: goroutines run, so a call that can take a step takes one,
and a process that died is started again and recovers. Failures have no fairness.
Weak fairness per call suffices for the lock: there are finitely many calls, each
holding it once.

`Dispatcher!Spec`: the worker's goroutine drives a run of the dispatcher on. Nothing
drives the history: a coroutine may wait for a signal for ever.

`Timers!Spec`: the loop runs, the clock ticks, and Stop returns when it can. Strong
fairness of the read, of a healthy callback and of a delete says that the store and
the engine do not fail each time they are tried; `Broken` keys are exempt. Nothing
makes Stop or its deadline happen.

`LongPoll!Spec`: a handler that can take a step does, the re-check timer fires, and
the client's goroutine goes on. A context that has ended is noticed in the end
(strong fairness: `select` chooses at random among the ready channels, and every read
of the store asks for the context). The server's cap on a poll is not assumed, nor
that anything is ever written.

`Worker!Spec`: goroutines run, calls return, the ticker ticks, and the context given
to Stop has a deadline. Activities are assumed to return once their context has
ended, which the SDK's documentation asks of them, and to go on heartbeating until
then.

## 6 Proofs

`EngineProofs` proves, for any settings a run may be started under (any workers, IDs,
timeouts, backoff, attempts, and any bounds on the clock, the batches and the faults):

* `RecoverableAlways`: Recoverable, that is TypeOK, Loadable (for any `MaxHistoryEvents`),
  ActivityResolvedOnce and ReplayAgrees;
* `CompletionsCurrent`, `NeverEarly`, `NoWakeupLost`: CompletionsAreCurrent,
  NothingFiresEarly and NoLostWakeup;
* `WakerAlways`: HasWaker.

They rest on `OptionsAssumption`: durations and bounds are natural numbers, the task
timeout, a timer's delay and a backoff are positive, as the code's defaults and checks
make them, and so is `MaxHistoryEvents`, and an activity has a start-to-close or a
schedule-to-close timeout, without which its command is refused (`command.go:208`). None
of the properties is inductive. The argument for the first four has four layers.

1. `Sound(ms, t)` is what holds of every state the engine keeps, whatever its history:
   its log is well formed, a replay of the log gives the same state (`Replays`), the workflow
   task, the activities and the timers it knows are the events they claim to be, nothing
   in the log is later than t, every completion answers the task its worker had replayed or
   one that identities do not tell from it (`Currently`), nothing fired early and nothing is
   resolved twice. `Alike` is equality up to what the log does not determine: the attempt,
   its clocks and who holds it. It is the notion ReplayAgrees needs, because a retried
   attempt leaves no event; `ApplyAlike` says that an event leads alike states to alike
   states, and `SoundAlike` that a change the log does not see keeps a state sound.
2. `ApplySound`: an event that fits the state and is accepted keeps it sound. This is the
   step in which the validator, the state machine and the log meet; it is proved once,
   and every transition of `MutableState` is an instance (`Leads`: a transition that is
   not rejected ends in a sound state, extends the log, leaves nothing unread, and keeps
   or replaces the task in flight as a whole).
3. The write path: `Kept` says that the cache, or a replay where there is none, is a sound
   state of the durable log and that index and armed timers are about that log, each key
   once. A rejected call, an eviction or a restart costs a replay and no more
   (`EvictKeeps`, `RecoverKeeps`). The state of a run that no longer loads is still the
   replay of its log (`FromLog`); calls on it change nothing.
4. `IInv` adds the workers' and the scan loop's hands. A held workflow task names a start
   in the log that was recorded under its worker's identity (`HeldFits`); an answer that
   passes the ownership check was therefore computed at a start that the recorded identities
   do not tell from that of the task in flight (`Indistinct`). An entry in a page is due
   and about its event,
   which is why a handler that does not look at the clock again, as for user timers, still
   does not fire early.

HasWaker needs a second invariant on top, `WInv`, because an entry is deleted by its key
and after the handler has returned: that the entry a run waits for is never the one
deleted is a statement about keys the run no longer waits for (`Dead`), and about time.

* `RunWatched`: the index has every timer of the run itself, or nothing once it is closed.
* `DelFits`: the key the scan loop is about to delete is dead. Each handler either ends
  what its entry stood for or finds it ended (`TimerServed`; none is rejected), and what
  has ended does not come back while the log grows (`Later`, from a replay of two logs of
  which one is a prefix of the other), so a dead key stays dead until `Delete` comes
  (`DeadLater`). That the handler of a page entry never finds its clock still running
  rests on `TimerFits`: an entry's instant is the one its event determines.
* Under settings that do not move an activity's clock (`Fixed`): the state is exactly what
  a replay gives (`Simple`; `Alike` is not enough here, the attempt's clock is what the
  entry is derived from), every activity entry stands for a clock that has run out when
  the entry is due (`PlainTimer`), each activity with a timeout has an entry
  (`ActsWatched`), and one no worker has started is offered by a reference (`RefWatch`) as
  long as the log loads: a restart puts nothing back for a run that recovery skips.
  Every transition announces the activities it adds (`Straight`), which is carried through
  the transition lemmas beside `Leads`.

What a replay gives for every log, and what a batch of commands gives for every batch,
are inductions. The library's induction rules are out of the provers' reach, so
`Induction` states the principle for a set of numbers and proves it by counting (the
members below a missing number would inject into those above 0); a replay is then a
function that steps by `Apply`, and two such functions on one log are equal
(`ReplayUnique`). `FromLog` of the next state is the same operator as of this one
because the settings do not change (`Frozen...`).

`MatchingProofs` proves, for any sets of tasks and pollers and any capacity:

* `QueueIsSound`: QueueSound, that is TypeOK, Conservation and WaitersMatchPolls,
  is an invariant, and with it each part (`TypeCorrect`, `NothingLost`,
  `WaitersAreLive`);
* `Implements`: `Spec => ImplementsPool`, every step of the queue is a step of
  the abstract pool or a stutter.

They rest on `BacklogAssumption` (the capacity is a positive number, which
`Config` enforces) and `NoTaskAssumption` (an empty channel is not a task). The
three invariants are inductive only together: that `offer` and `Park` overwrite
an empty channel, so that nothing is lost, follows from WaitersMatchPolls, and
that a popped or sent task is nowhere else follows from Conservation. The argument
has one case per action; lemmas on appending to, popping from and unlinking from
a sequence without repetitions carry the sequence reasoning. The refinement maps
the pool to the queued and buffered tasks; `Receive`, and `Unpark` with a full
channel, both return one task and share a lemma.

`WritePathProofs` proves, for any sets of calls and replicas, any number of
attempts and any number of failures:

* `CacheIsCurrent`, `EffectsAreDurable`: the invariants HitIsCurrent and
  EffectsMatchLog of `write_path`;
* `TypeCorrect`, `TrueAnswers`, `CloseIsLast`: TypeOK, AnswersAreTrue and
  NothingAfterClose; the last two also follow from the refinement, and the run leaves
  them to it;
* `Serializable`: the action property DecidedOnCurrent;
* `Implements`: `Spec => ImplementsSerial`.

They rest on `CallsAssumption` and `WriteBoundsAssumption` (at least one attempt,
which `Config` enforces). None of the invariants is inductive. The strengthening
`Inv` adds `LockHeld` (a replica's lock is held by the one call under way there),
`Coherent` and `Applied` (the log has no repetitions, and a call's state tells
whether the log has its event). `Coherent` is the heart: no object has a version
above the durable one, and wherever a call may rely on an object whose version is
the durable one, that object holds the durable log. A torn load is harmless because
the version is read first: if it is still current, so is the history read after it.
A write is harmless to the other replicas because it moves the version past every
version they hold; `OthersKnow` states this once for all actions. In `append` the
object is one event ahead of the log, so there `Coherent` speaks of `base`, what
the transition was decided on; that base and log agree when the write is accepted
is `WroteOnCurrent`, from which DecidedOnCurrent, NothingAfterClose and the Apply
step of the refinement follow. The actions with two outcomes are first split
(`StepCases`), and the steps that neither write an event nor release effects are
treated as one (`EffectCases`).

`RunChainProofs` proves, for any sets of clients and replicas and any number of runs,
tries and attempts, the invariants RunsSound (`RunsFit`), RequestsKept
(`RequestsAreKept`) and StoresAgree (`StoresDecideAlike`) and the action property
ReuseHonoured (`PolicyIsHonoured`), from `RunChainAssumption`: the bounds are positive,
the kinds of calls are those of the API, and `Free`, the value of a lock nobody holds,
is no client. The inductive invariant adds to the properties that the map entry is the
newest row (`Newest`), that runs are numbered without gaps (`Rows`), that a call past
`lockExecution` holds the lock (`Calls`), and that the signal is written before the call
is accepted (`Signalled`). `Newest` is what lets the two drivers agree: the memory
driver only compares a new row with the entry it has, SQLite with all rows. Every
action either changes rows in place without moving the stamps (`Evolved`) or adds one
row (`Grown`); both lemmas are proved once and used by all actions.

`WorkerProofs` proves SlotsSound (`SlotsAreCounted`) and StopIsClean
(`StopLeavesNothing`) for any finite sets of pollers and tasks and any capacities
(`WorkerAssumption`). SlotsCounted is a sum of two cardinalities, so each action is
reduced to adding an element to one of two sets or removing one. StopIsClean needs
`Quiet` (no heartbeat outlives the goroutine of its activity, and a task in a
goroutine's hands has not been answered) and `Life` (what has ended by each stage of
the worker's life; the tasks' context ends only after the deadline of Stop, which is
why nothing is cut short before).

`DispatcherProofs` proves ChannelSound (`ChannelKeepsOrder`) and AllBlocked
(`NobodySleepsOn`) for any programs, any number of coroutines and any capacity
(`DispatcherAssumption`: programs are made of the SDK's calls, none is empty). The
channel invariant `Sound` is a statement about one record and is preserved by each
call on its own. AllBlocked is about whole passes: `PassSound` says that a pass that
has marked no progress leaves only blocked coroutines behind it, unless the coroutine
in control is between two calls. That one may have made another ready by a call that
does not block and marks nothing; but it gives control away only by finishing or by
entering a blocking call, and both mark progress, so the others are visited again.

`StoreProofs` is about the timer service and the store. Of `Timers` it proves LoopSound
(`LoopIsSound`) and the action property OnlyServedAreRemoved (`ServedBeforeRemoved`) for
any keys, page size, interval and number of failures and crashes. `TimersAssumption`
also bounds the number of `Broken` keys and asks that the backoff reach `MaxWait`, for
the sake of liveness; the proofs do not use that. The delete is by key, so the inductive
step `InHandIsServed` follows not the entry that was dispatched but whatever the index
holds under its key: it is the one the callback saw, or one armed while the loop had the
key in hand. `PageIsEarliest` is about the query itself: `DueRows` returns the earliest
due rows in order, each once, and leaves a row out only when the page is full. It rests
on the row-to-rank map being an injection, proved from the order of the keys and the
theorems on finite sets.

Of `Persistence` it proves, for any runs, timestamps, requests and page sizes:

* `StoreIndexesSound`: IndexesSound, that is StoreTypeOK, HeapSound and TimersOwned;
* `StoreDriversAgree`: DriversAgree;
* `StoreEveryReadAgrees`: both drivers read the same for every range, cursor, page size,
  time and limit, and as a case of it ReadsAgree (`StoreReadsAgree`), in which the
  arguments are bounded so that TLC can enumerate them;
* `StorePagesComplete`: PagesComplete.

They rest on `PersistenceAssumption` (run IDs and times are numbers, times above 0, page
sizes positive: the drivers replace other sizes by a default) and `RequestsAssumption`
(a request names each timer once: `diffTimers`, `engine.go:711`, takes them from a map
by key). The inductive invariant `StoreInv` says that the drivers are in step (`Stored`)
and where the walks are (`WalkInv`, `ScanInv`). DriversAgree alone is not inductive:
that a write leaves the same timers in both drivers depends on the shape of the heap and
on the reverse index, which it does not mention.

1. *Tables.* `Tables` has one row per run and one event row per event of its log, numbered
   densely. A batch that one driver accepts the other accepts, for the same reason
   (`SameAnswer`), and what SQLite writes into the row is what the memory driver puts into
   its record (`RunAfterIs`).
2. *Heap.* A sift is a path followed to its end (`PathsExist`, `PathsArePaths`: the
   recursion has a solution, and it is a path). `UpReady` and `FixReady` say where a heap
   may be out of order before it is mended; `UpSifts` and `FixSifts` that a move along the
   path mends it and keeps its entries, whatever the size of the heap. Hence an upsert or
   a removal does to the heap what it does to a set of rows with one row per key
   (`UpsertIs`, `DeleteIs`), and so does a whole request (`UpsertAllIs`, `DeleteAllIs`,
   by induction over the fold). `Indexed` adds that the reverse index lists the keys of
   each run, so that `dropRunTimers` removes all of them.
3. *Order.* `Ranked` places the members of a finite set by how many come before them;
   this lists each of them once and in order (`RanksList`), and no other list does
   (`ListIsRanks`). The two drivers' reads are then lists of the same set in the same
   order: clamping against WHERE (`HistoriesAgree`), sorting, searching and cutting
   against LIMIT (`ListsAgree`). For `Due`, the k-th step has emitted the k earliest
   entries, and its frontier is the unvisited positions whose parent is visited; the next
   entry in order is in it, because its parent is less and so was visited (`Frontier`,
   `DueSteps`, `DuesAgree`).
4. *Walks.* `Walked`: what was seen does not come after the cursor, and each run the walk
   owes the reader was seen or comes after it. A page moves the cursor (`WalkTurns`). A
   write never changes when a run started, so no run crosses the cursor (`WalkGrows`);
   with an offset in place of the cursor this step fails.

Induction over numbers is proved by counting, as in `EngineProofs`.

`LongPollProofs` proves WaitersCounted (`WaitersAreCounted`), StartedOnce
(`StartIsMadeOnce`) and AnswersAreTrue (`TrueIsTold`) for any finite sets of callers
and slots and any replicas, runs, attempts and failures. `LongPollAssumption` asks for
at least one replica and one attempt, for a foreign caller `Other` that is none of the
callers, and for room in the model's table of runs (`MaxRuns`) for those the callers and
others start. The inductive invariant relates three copies of what is known of a run:
the store's (`RunsOK`), the record a request read some time ago (`InFlight`), and the
caller's cursor (`Clients`). An old copy stays true because runs are never lost, only
grow, and do not change once closed (`Grows`), and each kind of fact is shown to survive
that growth once for all actions. An answer is believed because a caller has at most one
live attempt, however many abandoned ones are still in servers. A run that closed as
failed is final for `Result` whether or not it has a successor, so its being retried does
not disturb the invariant. `Counted` is the
notifier's count against the set of subscribed requests; each action adds or removes one
slot of it, or moves a request whose membership does not change. That a start always
finds room in the table is a counting argument over injections (`FewRuns`).

Only model-checked:

* liveness (`AcceptedIsServed`, `NothingForgotten`, `CallsEnd`, `RunsEnd`,
  `DueIsServed`, `ResultReturns`, `DrainEnds`, `StopReturns`, `CancelArrives`), which is
  out of the prover's reach;
* `Replay` (CachesSound, ColdReplayIsExact, AnswersFit): commands, events and the
  executor's cache are matched by folds over logs, each of which needs its own induction.

## 7 Disagreements found

Two runs end in a counterexample.

1. `signal_with_start`. `SignalWithStartWorkflow` holds the execution lock when the
   store tells it that the run exists already, because its own first try created it or
   another replica did in between; it then calls `SignalWorkflow`, which takes the same
   lock (`workflow.go:111`). The call hangs, and with it every later call on that
   workflow ID in the process. The comment (`workflow.go:63-65`) says the loser falls
   through to signalling the winner's run.
2. `replay_cold`. `taskCompleted` (`replayer.go:221`) takes a started task for completed
   only when the very next event completes it. A cancel request (the event in the run's
   trace), a signal, a fired timer or an activity event written while the task was in
   flight stands between the two, so a cold replay does not run the code there; it runs
   in a later task, and sees a signal, a time or a result it had not seen. "A miss costs
   a full replay and nothing else" (`replayer.go:712-714`).

Met while modelling, and visible in the exceptions the properties make:

3. "Tasks that waited longest are dispatched first" (`matching.go:404`): a task offered
   between a poller's look at the backlog (`matching.go:328`) and its parking is queued,
   and the next task offered goes to that poller ahead of it.
4. `timeoutActivity` finds no clock expired and drops the entry by key; the comment
   (`recovery.go:292-295`) counts on it being re-added, and nothing does so. The drop is by
   key, so it also removes the entry a worker's call wrote between the scan's read and the
   handler: a heartbeat, a start that ends the wait for a worker, or the start of the next
   attempt is left without a timeout. This is why `ActivityHasWaker` is claimed only where
   nothing moves an activity's clock.
5. The attempt of a retried activity is not in the log. After a restart the entry is
   re-derived with attempt 1 (`recovery.go:122`), and an activity limited to two attempts
   is handed out a third time (`retry.go:23`).
6. A workflow task reference that matching refuses is only logged (`engine.go:594`). A
   scheduled task has no timer and no later event schedules another, so it waits for a
   restart; `matching.go:175-176` says a rejected task is "delayed, never lost". Hence the
   `lost = 0` in `ScheduledStarts`. The same goes for a reference whose poll failed.
7. The execution deadline is derived from each run's own start (`recovery.go:366`), so a
   chain that continues gets its budget afresh each time.
8. A start under TerminateIfRunning that is repeated with its request ID terminates the run
   of its own first try (`workflow.go:341`) before deduplication returns that run, closed.
9. Two replicas read their clocks before the store decides. When stamps arrive in the
   opposite order the current run is not the one created last, and two runs can be open
   (ADR 0005, lines 48-55, takes one for granted).
10. A page full of entries whose dispatch keeps failing is read again and again, and later
    ones are not (`timers.go:297`). `TimersAssumption` asks for fewer failing keys than a
    page holds.
11. A write between the read of the history and the subscription is not noticed until the
    slow re-check (`workflow.go:517-519`).
12. A handle without a run ID keeps its cursor when the current run changes under it
    (`workflow_handle.go:257-260, 282-322`).
13. For a successor under another workflow ID the memory driver answers
    ErrInvalidIdentifier where the SQLite driver answers ErrNotFound.
14. Replaying the marker of a failed MutableSideEffect stores nil (`state.go:583`), where
    the live call left the cached value alone (`state.go:600-605`).
15. Answers name the activity and the worker, not the attempt: a late failure or heartbeat
    of one attempt is applied to the next one of the same worker. And an activity's own
    flush and the loop's may be under way together, so that the older details arrive last
    (`activity.go:214`).
16. "The point at which the engine refuses to append more events" (`history.go:9`):
    `MaxHistoryEvents` is looked at by `Validate` alone, when a log is read, as
    `ARCHITECTURE.md:802-806`, the repository's `README.md:293-296` and ADR 0009 admit. A
    longer log is written without complaint, the run goes on from the cache, and after an
    eviction or a restart it never loads again: calls fail, recovery skips it, and its due
    timers fail at every scan. `Loadable` states the limit as it is.
17. An answer carries no task, and the identity it is checked by need not tell two tasks
    apart (`workflow.go:769-779`, `ARCHITECTURE.md:792-800`). The pollers of one worker
    share an identity (`poller.go:66, 88-93`): after a task timeout one of them may hold
    the replacement while another still works on the original, although "workflow tasks
    for one execution never run concurrently in this process" (`worker.go:22`). The stale
    answer is accepted, and the executor put back ran its code at another start than a
    replay of the log does. Hence the identities in `CompletionsAreCurrent` and the second
    condition of `Exact`.
18. The live call of a side effect, local activity or mutable side effect gives workflow
    code the error the function returned (`state.go:555-558, 600-605, 722-726`), a replay
    the recorded `ApplicationError` (`state.go:543-545, 710-712`, `errors.go:236-254`).
    Code that branches on the error's type may take another branch in a replay; the
    programs of `replay` do not, and the comparison is up to that form.
19. "A handle pinned to a specific run still follows the chain" (`workflow_handle.go:261`):
    `Result` follows a continue-as-new only. A run that fails under a workflow-level retry
    policy has a successor (`transitions.go:291-327`), and `Result` returns the failure of
    that attempt (`workflow_handle.go:296-304`) while the chain goes on.

## 8 Not modelled

Message formats, SQL text and schema, HTTP details, compression, access logs, telemetry,
the command-line tools, the virtual clock and the simulator (the project's own randomised
tester) carry no protocol of their own, or none that outlives a call.

Within the modelled parts: the arithmetic of retry intervals and jitter (floating
point); the execution deadline of a chain; `DescribeWorkflow` and queries, which read;
visibility attributes and their filters; retention; the dispatcher's wall-clock
deadline, and its stop condition, which ends a pass once the workflow function has
returned; `MaxHistoryBytes`, which nothing enforces; the conversion of times to
nanoseconds (`sqlite.go:1084-1099`: a time is a number everywhere, with 0 for the zero
time); disconnected contexts and mapped futures; handles without a run ID; the details
of heartbeats; the limiter's rates (a rejection is any rejection). A call is atomic in
`Engine`; the steps inside it are the subject of `WritePath`, and in `Engine` another
replica's write appears only as an `Evict`. `Replay` claims nothing of logs that are not
exact, which disagreements 2, 14 and 17 leave open.

## 9 Plan

| module | about | done | left |
|---|---|---|---|
| `TaskPool`, `Matching` | task queue | safety and refinement proved, liveness checked | |
| `SerialLog`, `WritePath` | writes of several replicas | safety and refinement proved, liveness checked | |
| `RunChain` | runs of one workflow ID | safety proved | the execution deadline |
| `Timers`, `Worker` | loops and shutdown | safety proved, liveness checked | |
| `Dispatcher` | coroutines | safety proved, liveness checked | |
| `Client`, `LongPoll` | clients and servers | safety proved, liveness checked | handles without a run ID |
| `History`, `MutableState`, `Engine` | one run | safety proved, liveness checked | |
| `Replay` | replay and the cache | checked for exact logs | other logs, once `taskCompleted` and the ownership of tasks are settled |
| `Persistence`, `TimerIndex` | drivers | safety proved | attribute filters |
