------------------------------ MODULE WritePath -------------------------------
(***************************************************************************)
(* The engine's write path from the inside: several replicas, each with    *)
(* its execution lock and its cache entry, write one run through the       *)
(* store's compare-and-set.  Engine.tla takes a call as one step; here the *)
(* two reads of load, the transition on the shared cached object, the      *)
(* conditional write and the release of its effects are separate steps, so *)
(* that other replicas, eviction, store errors and crashes come between.   *)
(*                                                                         *)
(* An event is named by the call that appended it.  A transition either    *)
(* appends its event, moves timers only (a heartbeat), finds nothing to    *)
(* do, or is rejected.                                                     *)
(***************************************************************************)
EXTENDS Naturals, Sequences, SequencesExt

CONSTANTS
  Calls,        \* calls on the run; a caller's own retry is another call
  Closers,      \* calls whose event closes the run
  Replicas,     \* engine processes over one store
  NoCall,
  MaxAttempts,  \* Config.MaxWriteAttempts
  MaxFaults     \* bound: store errors, evictions and crashes

ASSUME CallsAssumption == Closers \subseteq Calls /\ NoCall \notin Calls
ASSUME WriteBoundsAssumption == MaxAttempts \in Nat \ {0} /\ MaxFaults \in Nat

VARIABLES
  log,        \* durable: the run's events
  version,    \* durable: ExecutionRecord.Version
  ver,        \* per replica: Version of its cachedState object
  events,     \* per replica: the events of that object, mutated in place
  cached,     \* replicas whose object is in the cache
  lock,       \* per replica: the call holding the execution lock
  down,       \* replicas whose process is not running
  skipped,    \* replicas whose last recovery gave the run up
  at,         \* the replica each call was sent to
  pc,         \* where each call is in mutateLocked
  seen,       \* the version GetExecution returned to each call
  base,       \* the log each call's transition was decided on
  tries,      \* attempt, the counter of mutateLocked's loop
  tasks,      \* per replica: calls whose effects are in its matching queues
  faults

store == <<log, version>>
object == <<ver, events>>
memory == <<ver, events, cached>>
process == <<down, skipped>>
call == <<at, seen, base, tries>>
vars == <<log, version, ver, events, cached, lock, down, skipped, at, pc, seen, base, tries, tasks, faults>>

Active == {"load", "read", "run", "append", "touch", "effects"}
Ended == {"ok", "noop", "failed", "lost"}
Closed(l) == ToSet(l) \cap Closers # {}

Init ==
  /\ log = <<>> /\ version = 1
  /\ ver = [r \in Replicas |-> 0]
  /\ events = [r \in Replicas |-> <<>>]
  /\ cached = {}
  /\ lock = [r \in Replicas |-> NoCall]
  /\ down = {} /\ skipped = {}
  /\ at \in [Calls -> Replicas]
  /\ pc = [c \in Calls |-> "idle"]
  /\ seen = [c \in Calls |-> 0]
  /\ base = [c \in Calls |-> <<>>]
  /\ tries = [c \in Calls |-> 0]
  /\ tasks = [r \in Replicas |-> {}]
  /\ faults = 0

Goto(c, l) == pc' = [pc EXCEPT ![c] = l] /\ UNCHANGED lock
\* The deferred unlock runs on every return.
Return(c, result) ==
  pc' = [pc EXCEPT ![c] = result] /\ lock' = [lock EXCEPT ![at[c]] = NoCall]
Invalidate(r) == cached' = cached \ {r}
Fault == faults < MaxFaults /\ faults' = faults + 1

\* mutate: lockExecution, then the first attempt.
Lock(c) ==
  /\ pc[c] = "idle" /\ at[c] \notin down /\ lock[at[c]] = NoCall
  /\ pc' = [pc EXCEPT ![c] = "load"]
  /\ lock' = [lock EXCEPT ![at[c]] = c]
  /\ tries' = [tries EXCEPT ![c] = 1]
  /\ UNCHANGED <<store, memory, process, at, seen, base, tasks, faults>>

-------------------------------------------------------------------------------
\* load: the row, then, unless the cache entry has its version, the history.

GetExecution(c) ==
  /\ pc[c] = "load"
  /\ IF at[c] \in cached /\ ver[at[c]] = version
       THEN Goto(c, "run") /\ UNCHANGED seen
       ELSE Goto(c, "read") /\ seen' = [seen EXCEPT ![c] = version]
  /\ UNCHANGED <<store, memory, process, at, base, tries, tasks, faults>>

\* Another replica may have written since the row was read.
ReadHistory(c) ==
  /\ pc[c] = "read"
  /\ ver' = [ver EXCEPT ![at[c]] = seen[c]]
  /\ events' = [events EXCEPT ![at[c]] = log]
  /\ cached' = cached \cup {at[c]}
  /\ Goto(c, "run")
  /\ UNCHANGED <<store, process, call, tasks, faults>>

\* A failed read returns; nothing has been touched, so the entry may stay.
LoadFails(c) ==
  /\ pc[c] \in {"load", "read"}
  /\ Fault
  /\ Return(c, "failed")
  /\ UNCHANGED <<store, memory, process, call, tasks>>

-------------------------------------------------------------------------------
\* The transition, run on the cached object itself.

\* Fault: the terminal check is missing.
AppendEventUnchecked(c) ==
  /\ pc[c] = "run"
  /\ base' = [base EXCEPT ![c] = events[at[c]]]
  /\ events' = [events EXCEPT ![at[c]] = Append(@, c)]
  /\ Goto(c, "append")
  /\ UNCHANGED <<store, ver, cached, process, at, seen, tries, tasks, faults>>

AppendEvent(c) ==
  /\ pc[c] = "run" /\ ~Closed(events[at[c]])
  /\ base' = [base EXCEPT ![c] = events[at[c]]]
  /\ events' = [events EXCEPT ![at[c]] = Append(@, c)]
  /\ Goto(c, "append")
  /\ UNCHANGED <<store, ver, cached, process, at, seen, tries, tasks, faults>>

MoveTimers(c) ==
  /\ pc[c] = "run" /\ ~Closed(events[at[c]])
  /\ Goto(c, "touch")
  /\ UNCHANGED <<store, memory, process, call, tasks, faults>>

NoOp(c) ==
  /\ pc[c] = "run"
  /\ Return(c, "noop")
  /\ UNCHANGED <<store, memory, process, call, tasks, faults>>

\* Fault: the entry a failed transition has written into stays in the cache.
RejectKeepsEntry(c) ==
  /\ pc[c] = "run"
  /\ events' = [events EXCEPT ![at[c]] = Append(@, c)]
  /\ Return(c, "failed")
  /\ UNCHANGED <<store, ver, cached, process, call, tasks, faults>>

\* The transition may have appended to the object before it failed.
Reject(c) ==
  /\ pc[c] = "run"
  /\ events' = [events EXCEPT ![at[c]] = Append(@, c)]
  /\ Invalidate(at[c])
  /\ Return(c, "failed")
  /\ UNCHANGED <<store, ver, process, call, tasks, faults>>

-------------------------------------------------------------------------------
\* commit and what follows it.

\* Fault: the write is not conditional on the version.
WriteUnconditional(c) ==
  /\ pc[c] \in {"append", "touch"}
  /\ log' = IF pc[c] = "append" THEN Append(log, c) ELSE log
  /\ version' = version + 1
  /\ ver' = [ver EXCEPT ![at[c]] = version + 1]
  /\ cached' = cached \cup {at[c]}
  /\ IF pc[c] = "append" THEN Goto(c, "effects") ELSE Return(c, "noop")
  /\ UNCHANGED <<events, process, call, tasks, faults>>

\* Fault: the new version is not taken over, and the write is tried again.
WriteThenRetries(c) ==
  /\ pc[c] \in {"append", "touch"} /\ ver[at[c]] = version
  /\ log' = IF pc[c] = "append" THEN Append(log, c) ELSE log
  /\ version' = version + 1
  /\ IF tries[c] < MaxAttempts THEN Goto(c, "load") ELSE Return(c, "failed")
  /\ tries' = [tries EXCEPT ![c] = @ + 1]
  /\ Invalidate(at[c])
  /\ UNCHANGED <<object, process, at, seen, base, tasks, faults>>

\* AppendHistory: the write is conditional on the version.  Its check of the
\* event IDs (validateAppend) cannot fail then: equal versions mean equal logs.
AppendHistory(c) ==
  /\ ver[at[c]] = version
  /\ log' = IF pc[c] = "append" THEN Append(log, c) ELSE log
  /\ version' = version + 1

\* commit: the object takes over the new version and is put (back) into the cache.
Write(c) ==
  /\ pc[c] \in {"append", "touch"}
  /\ AppendHistory(c)
  /\ ver' = [ver EXCEPT ![at[c]] = version + 1]
  /\ cached' = cached \cup {at[c]}
  /\ IF pc[c] = "append" THEN Goto(c, "effects") ELSE Return(c, "noop")
  /\ UNCHANGED <<events, process, call, tasks, faults>>

\* Fault: the loser of a race goes on to release its effects.
ConflictReleases(c) ==
  /\ pc[c] \in {"append", "touch"} /\ ver[at[c]] # version
  /\ Invalidate(at[c])
  /\ Goto(c, "effects")
  /\ UNCHANGED <<store, object, process, call, tasks, faults>>

\* ErrVersionConflict: reload and try again, a bounded number of times and only
\* while the caller is still there.
Conflict(c) ==
  /\ pc[c] \in {"append", "touch"} /\ ver[at[c]] # version
  /\ Invalidate(at[c])
  /\ \/ tries[c] < MaxAttempts /\ Goto(c, "load") /\ tries' = [tries EXCEPT ![c] = @ + 1]
     \/ Return(c, "failed") /\ UNCHANGED tries
  /\ UNCHANGED <<store, object, process, at, seen, base, tasks, faults>>

\* Any other store error, before anything was written.
WriteFails(c) ==
  /\ pc[c] \in {"append", "touch"}
  /\ Fault
  /\ Invalidate(at[c])
  /\ Return(c, "failed")
  /\ UNCHANGED <<store, object, process, call, tasks>>

\* Fault: an early return keeps the lock.
PostCommitKeepsLock(c) ==
  /\ pc[c] = "effects"
  /\ tasks' = [tasks EXCEPT ![at[c]] = @ \cup {c}]
  /\ Goto(c, "ok")
  /\ UNCHANGED <<store, memory, process, call, faults>>

PostCommit(c) ==
  /\ pc[c] = "effects"
  /\ tasks' = [tasks EXCEPT ![at[c]] = @ \cup {c}]
  /\ Return(c, "ok")
  /\ UNCHANGED <<store, memory, process, call, faults>>

-------------------------------------------------------------------------------
\* The cache is bounded: an entry may go while a call works on its object.
Evict(r) ==
  /\ r \in cached /\ Fault
  /\ Invalidate(r)
  /\ UNCHANGED <<store, object, lock, process, pc, call, tasks>>

Crash(r) ==
  /\ r \notin down /\ Fault
  /\ down' = down \cup {r}
  /\ Invalidate(r)
  /\ lock' = [lock EXCEPT ![r] = NoCall]
  /\ tasks' = [tasks EXCEPT ![r] = {}]
  /\ pc' = [c \in Calls |-> IF at[c] = r /\ pc[c] \in Active THEN "lost" ELSE pc[c]]
  /\ UNCHANGED <<store, object, skipped, call>>

\* Fault: recovery re-arms timers and releases nothing.
RecoverForgetsTasks(r) ==
  /\ r \in down
  /\ down' = down \ {r} /\ skipped' = skipped \ {r}
  /\ version' \in {version, version + 1}
  /\ ver' = [ver EXCEPT ![r] = version']
  /\ events' = [events EXCEPT ![r] = log]
  /\ cached' = cached \cup {r}
  /\ UNCHANGED <<log, lock, pc, call, tasks, faults>>

\* Recover: an open run's pending work is released again and the timers that are
\* missing, if any, are written; a closed run is left alone.  A write of another
\* replica in between makes the timer write conflict, which drops the entry as
\* Evict does.
Recover(r) ==
  /\ r \in down
  /\ down' = down \ {r} /\ skipped' = skipped \ {r}
  /\ IF Closed(log)
       THEN UNCHANGED <<version, memory, tasks>>
       ELSE /\ tasks' = [tasks EXCEPT ![r] = ToSet(log)]
            /\ version' \in {version, version + 1}
            /\ ver' = [ver EXCEPT ![r] = version']
            /\ events' = [events EXCEPT ![r] = log]
            /\ cached' = cached \cup {r}
  /\ UNCHANGED <<log, lock, pc, call, faults>>

\* A run that cannot be read is logged and skipped; the process starts without
\* it.  Not counted as a failure of its own: there is at most one after each crash.
RecoverSkips(r) ==
  /\ r \in down
  /\ down' = down \ {r} /\ skipped' = skipped \cup {r}
  /\ UNCHANGED <<store, memory, lock, pc, call, tasks, faults>>

Step(c) ==
  \/ Lock(c) \/ GetExecution(c) \/ ReadHistory(c) \/ LoadFails(c)
  \/ AppendEvent(c) \/ MoveTimers(c) \/ NoOp(c) \/ Reject(c)
  \/ Write(c) \/ Conflict(c) \/ WriteFails(c) \/ PostCommit(c)

Next ==
  \/ \E c \in Calls : Step(c)
  \/ \E r \in Replicas : Evict(r) \/ Crash(r) \/ Recover(r) \/ RecoverSkips(r)

Spec == Init /\ [][Next]_vars

\* Goroutines run, and a process that died is started again.
FairSpec ==
  /\ Spec
  /\ \A c \in Calls : WF_vars(Step(c))
  /\ \A r \in Replicas : WF_vars(Recover(r))

-------------------------------------------------------------------------------
\* Shape of the state; an attempt counter never passes MaxWriteAttempts.
TypeOK ==
  /\ log \in Seq(Calls) /\ version \in Nat
  /\ ver \in [Replicas -> Nat]
  /\ events \in [Replicas -> Seq(Calls)]
  /\ cached \in SUBSET Replicas
  /\ lock \in [Replicas -> Calls \cup {NoCall}]
  /\ down \in SUBSET Replicas /\ skipped \in SUBSET Replicas
  /\ at \in [Calls -> Replicas]
  /\ pc \in [Calls -> {"idle"} \cup Active \cup Ended]
  /\ seen \in [Calls -> Nat]
  /\ base \in [Calls -> Seq(Calls)]
  /\ tries \in [Calls -> 0 .. MaxAttempts]
  /\ tasks \in [Replicas -> SUBSET Calls]
  /\ faults \in 0 .. MaxFaults

\* cachedState, "Correctness never depends on a hit": whenever a call could hit
\* the cache, the object it would get is the durable log, although the version
\* and the history behind it were read at different moments, although failed
\* calls have written into it, and although other replicas write too.
HitIsCurrent ==
  \A r \in Replicas :
    r \in cached /\ lock[r] = NoCall /\ ver[r] = version => events[r] = log

\* An answer is true: "ok" means the event is in the log, exactly once; an error
\* or a no-op means it is not, however many attempts the call made.
AnswersAreTrue ==
  /\ IsInjective(log)
  /\ \A c \in Calls :
       /\ pc[c] = "ok" => c \in ToSet(log)
       /\ pc[c] \in {"noop", "failed"} => c \notin ToSet(log)

\* Two replicas cannot both extend a run past its closing event.
NothingAfterClose ==
  \A i \in DOMAIN log : log[i] \in Closers => i = Len(log)

\* Effects are those of durable writes: the loser of a version race, or a call
\* whose write failed, never puts a task into matching.
NoPhantomTasks ==
  \A r \in Replicas : tasks[r] \subseteq ToSet(log)

\* A durable write's effects are not forgotten: while the run is open, they are
\* in some replica's matching, about to be put there, or left to the recovery of
\* a process that is down.  Only a recovery that skipped the run loses them.
EffectsKept ==
  ~Closed(log) =>
    \A c \in ToSet(log) :
      \/ pc[c] = "effects"
      \/ \E r \in Replicas : r \in down \cup skipped \/ c \in tasks[r]

\* Matching holds the tasks of the durable log: none of a write that was lost, and
\* while the run is open all of those that were not (postCommit, Recover).
EffectsMatchLog == NoPhantomTasks /\ EffectsKept

\* "exactly one wins" (package persistence): an event is appended only to the
\* log its transition was decided on.
DecidedOnCurrent ==
  [][log' # log => \E c \in Calls : log' = Append(log, c) /\ base[c] = log]_vars

Told(c) == CASE pc[c] = "ok" -> "ok"
             [] pc[c] \in {"noop", "failed"} -> "failed"
             [] OTHER -> "none"

Serial == INSTANCE SerialLog WITH answer <- [c \in Calls |-> Told(c)]

\* The write path implements SerialLog: calls of any number of replicas take
\* effect one at a time, at most once, and never after the run has closed.
ImplementsSerial == Serial!Spec

\* No path leaves the lock behind: every call ends.
CallsEnd == \A c \in Calls : <>(pc[c] \in Ended)
===============================================================================
