---------------------------- MODULE WritePathProofs ---------------------------
(***************************************************************************)
(* For any number of calls and replicas, the write path of WritePath.tla   *)
(* keeps its invariants and implements SerialLog.  The heart is Coherent:  *)
(* an object whose version is the durable one holds the durable log.  Its  *)
(* version may have been read before its history, but a version that is    *)
(* still current has not been written over since, and every write moves    *)
(* the version past the one every other replica holds.                     *)
(***************************************************************************)
EXTENDS WritePath, TLAPS

\* The lock of a replica is held by the one call that is under way there.
LockHeld ==
  /\ \A r \in Replicas :
       lock[r] # NoCall => at[lock[r]] = r /\ pc[lock[r]] \in Active /\ r \notin down
  /\ \A c \in Calls : pc[c] \in Active => lock[at[c]] = c

\* An object whose version is the durable one holds the log.
Current(r) == ver[r] = version => events[r] = log

\* An entry that the next call may hit.
EntryKnown(r) ==
  /\ ver[r] <= version
  /\ r \in cached /\ lock[r] = NoCall => Current(r)

\* What a call knows about the object of its replica.
CallKnows(c) ==
  /\ pc[c] \in {"load", "read"} /\ at[c] \in cached => Current(at[c])
  /\ pc[c] = "read" => seen[c] <= version
  /\ pc[c] \in {"run", "touch", "effects"} => Current(at[c])
  /\ pc[c] = "append" =>
       /\ events[at[c]] = Append(base[c], c)
       /\ ~Closed(base[c])
       /\ ver[at[c]] = version => base[c] = log

Coherent == (\A r \in Replicas : EntryKnown(r)) /\ (\A c \in Calls : CallKnows(c))

\* Which calls the log contains.
Undecided == {"idle", "load", "read", "run", "append", "touch"}
Unapplied == Undecided \cup {"noop", "failed"}
Applied ==
  /\ IsInjective(log)
  /\ \A c \in Calls :
       /\ pc[c] \in {"effects", "ok"} => c \in ToSet(log)
       /\ pc[c] \in Unapplied => c \notin ToSet(log)

Inv == TypeOK /\ LockHeld /\ Coherent /\ Applied /\ NothingAfterClose
         /\ NoPhantomTasks /\ EffectsKept

-------------------------------------------------------------------------------
\* The alternatives of the actions that have two.

Hit(c) ==
  /\ pc[c] = "load" /\ at[c] \in cached /\ ver[at[c]] = version
  /\ pc' = [pc EXCEPT ![c] = "run"]
  /\ UNCHANGED <<log, version, ver, events, cached, lock, down, skipped, at, seen, base, tries, tasks, faults>>

Miss(c) ==
  /\ pc[c] = "load"
  /\ pc' = [pc EXCEPT ![c] = "read"] /\ seen' = [seen EXCEPT ![c] = version]
  /\ UNCHANGED <<log, version, ver, events, cached, lock, down, skipped, at, base, tries, tasks, faults>>

WroteEvent(c) ==
  /\ pc[c] = "append" /\ ver[at[c]] = version
  /\ log' = Append(log, c) /\ version' = version + 1
  /\ ver' = [ver EXCEPT ![at[c]] = version + 1] /\ cached' = cached \cup {at[c]}
  /\ pc' = [pc EXCEPT ![c] = "effects"]
  /\ UNCHANGED <<events, lock, down, skipped, at, seen, base, tries, tasks, faults>>

WroteTimers(c) ==
  /\ pc[c] = "touch" /\ ver[at[c]] = version
  /\ version' = version + 1
  /\ ver' = [ver EXCEPT ![at[c]] = version + 1] /\ cached' = cached \cup {at[c]}
  /\ pc' = [pc EXCEPT ![c] = "noop"] /\ lock' = [lock EXCEPT ![at[c]] = NoCall]
  /\ UNCHANGED <<log, events, down, skipped, at, seen, base, tries, tasks, faults>>

TriesAgain(c) ==
  /\ pc[c] \in {"append", "touch"} /\ tries[c] < MaxAttempts
  /\ cached' = cached \ {at[c]}
  /\ pc' = [pc EXCEPT ![c] = "load"] /\ tries' = [tries EXCEPT ![c] = @ + 1]
  /\ UNCHANGED <<log, version, ver, events, lock, down, skipped, at, seen, base, tasks, faults>>

\* A return that leaves the entry out of the cache: a rejected transition, a
\* failed write, a conflict on the last attempt.
Drops(c) ==
  /\ pc[c] \in {"run", "append", "touch"}
  /\ cached' = cached \ {at[c]}
  /\ events' = events \/ events' = [events EXCEPT ![at[c]] = Append(@, c)]
  /\ pc' = [pc EXCEPT ![c] = "failed"] /\ lock' = [lock EXCEPT ![at[c]] = NoCall]
  /\ faults' \in 0 .. MaxFaults
  /\ UNCHANGED <<log, version, ver, down, skipped, at, seen, base, tries, tasks>>

\* A return that leaves the entry as it is: a failed read, a no-op.
Keeps(c) ==
  /\ pc[c] \in {"load", "read", "run"}
  /\ \E l \in {"failed", "noop"} : pc' = [pc EXCEPT ![c] = l]
  /\ lock' = [lock EXCEPT ![at[c]] = NoCall]
  /\ faults' \in 0 .. MaxFaults
  /\ UNCHANGED <<log, version, ver, events, cached, down, skipped, at, seen, base, tries, tasks>>

RecoversOpen(r) ==
  /\ r \in down /\ ~Closed(log)
  /\ down' = down \ {r} /\ skipped' = skipped \ {r}
  /\ tasks' = [tasks EXCEPT ![r] = ToSet(log)]
  /\ version' \in {version, version + 1} /\ ver' = [ver EXCEPT ![r] = version']
  /\ events' = [events EXCEPT ![r] = log] /\ cached' = cached \cup {r}
  /\ UNCHANGED <<log, lock, at, pc, seen, base, tries, faults>>

RecoversClosed(r) ==
  /\ r \in down /\ Closed(log)
  /\ down' = down \ {r} /\ skipped' = skipped \ {r}
  /\ UNCHANGED <<log, version, ver, events, cached, lock, at, pc, seen, base, tries, tasks, faults>>

CallStep(c) ==
  \/ Lock(c) \/ Hit(c) \/ Miss(c) \/ ReadHistory(c) \/ AppendEvent(c) \/ MoveTimers(c)
  \/ WroteEvent(c) \/ WroteTimers(c) \/ TriesAgain(c) \/ Drops(c) \/ Keeps(c) \/ PostCommit(c)

ReplicaStep(r) ==
  Evict(r) \/ Crash(r) \/ RecoversOpen(r) \/ RecoversClosed(r) \/ RecoverSkips(r)

\* Every step is one of these.
LEMMA StepCases ==
  ASSUME TypeOK, [Next]_vars
  PROVE  \/ \E c \in Calls : CallStep(c)
         \/ \E r \in Replicas : ReplicaStep(r)
         \/ UNCHANGED vars
<1> USE WriteBoundsAssumption
<1>1. ASSUME NEW c \in Calls, GetExecution(c) PROVE Hit(c) \/ Miss(c)
  <2>1. CASE at[c] \in cached /\ ver[at[c]] = version
    BY <1>1, <2>1 DEF GetExecution, Hit, Goto, store, memory, process
  <2>2. CASE ~(at[c] \in cached /\ ver[at[c]] = version)
    BY <1>1, <2>2 DEF GetExecution, Miss, Goto, store, memory, process
  <2> QED BY <2>1, <2>2
<1>2. ASSUME NEW c \in Calls, Write(c) PROVE WroteEvent(c) \/ WroteTimers(c)
  <2>1. CASE pc[c] = "append"
    BY <1>2, <2>1 DEF Write, AppendHistory, WroteEvent, Goto, call, process
  <2>2. CASE pc[c] = "touch"
    BY <1>2, <2>2 DEF Write, AppendHistory, WroteTimers, Return, call, process
  <2> QED BY <1>2, <2>1, <2>2 DEF Write
<1>f. Fault => faults' \in 0 .. MaxFaults
  BY DEF Fault, TypeOK
<1>g. faults' = faults => faults' \in 0 .. MaxFaults
  BY DEF TypeOK
<1>3. ASSUME NEW c \in Calls, Conflict(c) PROVE TriesAgain(c) \/ Drops(c)
  <2>1. CASE tries[c] < MaxAttempts /\ Goto(c, "load") /\ tries' = [tries EXCEPT ![c] = @ + 1]
    BY <1>3, <2>1 DEF Conflict, TriesAgain, Invalidate, Goto, store, object, process
  <2>2. CASE Return(c, "failed") /\ UNCHANGED tries
    BY <1>3, <1>g, <2>2 DEF Conflict, Drops, Invalidate, Return, store, object, process
  <2> QED BY <1>3, <2>1, <2>2 DEF Conflict
<1>4. ASSUME NEW c \in Calls, Reject(c) PROVE Drops(c)
  BY <1>4, <1>g DEF Reject, Drops, Invalidate, Return, store, call, process
<1>5. ASSUME NEW c \in Calls, WriteFails(c) PROVE Drops(c)
  BY <1>5, <1>f DEF WriteFails, Drops, Invalidate, Return, store, object, call, process
<1>6. ASSUME NEW c \in Calls, LoadFails(c) PROVE Keeps(c)
  BY <1>6, <1>f DEF LoadFails, Keeps, Return, store, memory, call, process
<1>7. ASSUME NEW c \in Calls, NoOp(c) PROVE Keeps(c)
  BY <1>7, <1>g DEF NoOp, Keeps, Return, store, memory, call, process
<1>8. ASSUME NEW r \in Replicas, Recover(r) PROVE RecoversOpen(r) \/ RecoversClosed(r)
  <2>1. CASE Closed(log)
    BY <1>8, <2>1 DEF Recover, RecoversClosed, memory, call
  <2>2. CASE ~Closed(log)
    BY <1>8, <2>2 DEF Recover, RecoversOpen, call
  <2> QED BY <2>1, <2>2
<1>9. ASSUME NEW c \in Calls, Step(c) PROVE CallStep(c)
  BY <1>1, <1>2, <1>3, <1>4, <1>5, <1>6, <1>7, <1>9 DEF Step, CallStep
<1> QED BY <1>8, <1>9 DEF Next, ReplicaStep

-------------------------------------------------------------------------------
\* A run that has just been created satisfies the invariant.
LEMMA InitInv == Init => Inv
<1> SUFFICES ASSUME Init PROVE Inv
  OBVIOUS
<1> USE CallsAssumption, WriteBoundsAssumption
<1>1. TypeOK
  BY DEF Init, TypeOK, Active, Ended
<1>2. LockHeld /\ Coherent
  BY DEF Init, LockHeld, Coherent, EntryKnown, CallKnows, Active
<1>3. Applied /\ NothingAfterClose /\ NoPhantomTasks /\ EffectsKept
  BY DEF Init, Applied, NothingAfterClose, NoPhantomTasks, EffectsKept, ToSet, IsInjective
<1> QED BY <1>1, <1>2, <1>3 DEF Inv

\* Every step keeps the shape of the state.
LEMMA StepType == TypeOK /\ [Next]_vars => TypeOK'
<1> SUFFICES ASSUME TypeOK, [Next]_vars PROVE TypeOK'
  OBVIOUS
<1> USE CallsAssumption, WriteBoundsAssumption
<1>p. ASSUME NEW c \in Calls, NEW l \in Active \cup Ended, pc' = [pc EXCEPT ![c] = l]
      PROVE  pc' \in [Calls -> {"idle"} \cup Active \cup Ended]
  BY <1>p DEF TypeOK
<1>l. {"load", "read", "run", "append", "touch", "effects", "ok", "noop", "failed"}
        \subseteq Active \cup Ended
  BY DEF Active, Ended
<1>1. ASSUME NEW c \in Calls, CallStep(c) PROVE TypeOK'
  <2>1. CASE Lock(c)
    <3>1. /\ lock' = [lock EXCEPT ![at[c]] = c] /\ tries' = [tries EXCEPT ![c] = 1]
          /\ pc' = [pc EXCEPT ![c] = "load"]
          /\ UNCHANGED <<log, version, ver, events, cached, down, skipped, at, seen, base, tasks, faults>>
      BY <2>1 DEF Lock, store, memory, process
    <3>2. pc' \in [Calls -> {"idle"} \cup Active \cup Ended]
      BY <1>l, <1>p, <3>1
    <3> QED BY <3>1, <3>2 DEF TypeOK
  <2>2. CASE Hit(c)
    <3>1. pc' \in [Calls -> {"idle"} \cup Active \cup Ended]
      BY <1>l, <1>p, <2>2 DEF Hit
    <3> QED BY <2>2, <3>1 DEF TypeOK, Hit
  <2>3. CASE Miss(c)
    <3>1. pc' \in [Calls -> {"idle"} \cup Active \cup Ended]
      BY <1>l, <1>p, <2>3 DEF Miss
    <3> QED BY <2>3, <3>1 DEF TypeOK, Miss
  <2>4. CASE ReadHistory(c)
    <3>1. /\ ver' = [ver EXCEPT ![at[c]] = seen[c]] /\ events' = [events EXCEPT ![at[c]] = log]
          /\ cached' = cached \cup {at[c]} /\ pc' = [pc EXCEPT ![c] = "run"]
          /\ UNCHANGED <<log, version, lock, down, skipped, at, seen, base, tries, tasks, faults>>
      BY <2>4 DEF ReadHistory, Goto, store, call, process
    <3>2. pc' \in [Calls -> {"idle"} \cup Active \cup Ended]
      BY <1>l, <1>p, <3>1
    <3> QED BY <3>1, <3>2 DEF TypeOK
  <2>5. CASE AppendEvent(c)
    <3>1. /\ base' = [base EXCEPT ![c] = events[at[c]]]
          /\ events' = [events EXCEPT ![at[c]] = Append(events[at[c]], c)]
          /\ pc' = [pc EXCEPT ![c] = "append"]
          /\ UNCHANGED <<log, version, ver, cached, lock, down, skipped, at, seen, tries, tasks, faults>>
      BY <2>5 DEF AppendEvent, Goto, store, process
    <3>2. at[c] \in Replicas /\ events[at[c]] \in Seq(Calls) /\ Append(events[at[c]], c) \in Seq(Calls)
      BY DEF TypeOK
    <3>3. events' \in [Replicas -> Seq(Calls)] /\ base' \in [Calls -> Seq(Calls)]
      BY <3>1, <3>2 DEF TypeOK
    <3>4. pc' \in [Calls -> {"idle"} \cup Active \cup Ended]
      BY <1>l, <1>p, <3>1
    <3> QED BY <3>1, <3>3, <3>4 DEF TypeOK
  <2>6. CASE MoveTimers(c)
    <3>1. pc' \in [Calls -> {"idle"} \cup Active \cup Ended]
      BY <1>l, <1>p, <2>6 DEF MoveTimers, Goto
    <3> QED BY <2>6, <3>1 DEF TypeOK, MoveTimers, Goto, store, memory, call, process
  <2>7. CASE WroteEvent(c)
    <3>1. pc' \in [Calls -> {"idle"} \cup Active \cup Ended]
      BY <1>l, <1>p, <2>7 DEF WroteEvent
    <3>2. log' \in Seq(Calls) /\ version' \in Nat /\ ver' \in [Replicas -> Nat]
      BY <2>7 DEF TypeOK, WroteEvent
    <3>3. cached' \in SUBSET Replicas /\ lock' \in [Replicas -> Calls \cup {NoCall}]
      BY <2>7 DEF TypeOK, WroteEvent
    <3> QED BY <2>7, <3>1, <3>2, <3>3 DEF TypeOK, WroteEvent
  <2>8. CASE WroteTimers(c)
    <3>1. pc' \in [Calls -> {"idle"} \cup Active \cup Ended]
      BY <1>l, <1>p, <2>8 DEF WroteTimers
    <3>2. log' \in Seq(Calls) /\ version' \in Nat /\ ver' \in [Replicas -> Nat]
      BY <2>8 DEF TypeOK, WroteTimers
    <3>3. cached' \in SUBSET Replicas /\ lock' \in [Replicas -> Calls \cup {NoCall}]
      BY <2>8 DEF TypeOK, WroteTimers
    <3> QED BY <2>8, <3>1, <3>2, <3>3 DEF TypeOK, WroteTimers
  <2>9. CASE TriesAgain(c)
    <3>1. tries' \in [Calls -> 0 .. MaxAttempts]
      <4>1. tries[c] + 1 \in 0 .. MaxAttempts /\ tries' = [tries EXCEPT ![c] = tries[c] + 1]
        BY <2>9 DEF TypeOK, TriesAgain
      <4> QED BY <4>1 DEF TypeOK
    <3>2. pc' \in [Calls -> {"idle"} \cup Active \cup Ended]
      BY <1>l, <1>p, <2>9 DEF TriesAgain
    <3> QED BY <2>9, <3>1, <3>2 DEF TypeOK, TriesAgain
  <2>10. CASE Drops(c)
    <3>1. events' \in [Replicas -> Seq(Calls)]
      <4>1. at[c] \in Replicas /\ events[at[c]] \in Seq(Calls)
        BY DEF TypeOK
      <4>2. Append(events[at[c]], c) \in Seq(Calls)
        BY <4>1
      <4>3. CASE events' = events
        BY <4>3 DEF TypeOK
      <4>4. CASE events' = [events EXCEPT ![at[c]] = Append(@, c)]
        BY <4>1, <4>2, <4>4 DEF TypeOK
      <4> QED BY <2>10, <4>3, <4>4 DEF Drops
    <3>2. pc' \in [Calls -> {"idle"} \cup Active \cup Ended]
      BY <1>l, <1>p, <2>10 DEF Drops
    <3> QED BY <2>10, <3>1, <3>2 DEF TypeOK, Drops
  <2>11. CASE Keeps(c)
    <3>1. pc' \in [Calls -> {"idle"} \cup Active \cup Ended]
      BY <1>l, <1>p, <2>11 DEF Keeps
    <3> QED BY <2>11, <3>1 DEF TypeOK, Keeps
  <2>12. CASE PostCommit(c)
    <3>1. pc' \in [Calls -> {"idle"} \cup Active \cup Ended]
      BY <1>l, <1>p, <2>12 DEF PostCommit, Return
    <3> QED BY <2>12, <3>1 DEF TypeOK, PostCommit, Return, store, memory, call, process
  <2> QED BY <1>1, <2>1, <2>2, <2>3, <2>4, <2>5, <2>6, <2>7, <2>8, <2>9, <2>10,
             <2>11, <2>12 DEF CallStep
<1>2. ASSUME NEW r \in Replicas, ReplicaStep(r) PROVE TypeOK'
  <2>1. ToSet(log) \subseteq Calls
    BY DEF TypeOK, ToSet
  <2>2. CASE Evict(r)
    BY <2>2 DEF TypeOK, Evict, Fault, Invalidate, store, object, call, process
  <2>3. CASE Crash(r)
    <3>1. pc' \in [Calls -> {"idle"} \cup Active \cup Ended]
      BY <2>3 DEF TypeOK, Crash, Ended
    <3> QED BY <2>3, <3>1 DEF TypeOK, Crash, Fault, Invalidate, store, object, call
  <2>4. CASE RecoversOpen(r)
    BY <2>1, <2>4 DEF TypeOK, RecoversOpen
  <2>5. CASE RecoversClosed(r)
    BY <2>5 DEF TypeOK, RecoversClosed
  <2>6. CASE RecoverSkips(r)
    BY <2>6 DEF TypeOK, RecoverSkips, store, memory, call
  <2> QED BY <1>2, <2>2, <2>3, <2>4, <2>5, <2>6 DEF ReplicaStep
<1>3. CASE UNCHANGED vars
  BY <1>3 DEF TypeOK, vars
<1> QED BY <1>1, <1>2, <1>3, StepCases

-------------------------------------------------------------------------------
\* Two calls under way on the same replica are one call.
LEMMA Alone ==
  ASSUME LockHeld, NEW c \in Calls, NEW d \in Calls, pc[c] \in Active, pc[d] \in Active,
         at[c] = at[d]
  PROVE  c = d
BY DEF LockHeld

\* Where c's step can lead the lock and the program counters.
LEMMA StepLock == TypeOK /\ LockHeld /\ [Next]_vars => LockHeld'
<1> SUFFICES ASSUME TypeOK, LockHeld, [Next]_vars PROVE LockHeld'
  OBVIOUS
<1> USE CallsAssumption
<1>1. ASSUME NEW c \in Calls, CallStep(c) PROVE LockHeld'
  <2>1. CASE Lock(c)
    <3>1. \A d \in Calls : pc[d] \in Active => at[d] # at[c]
      BY <2>1 DEF LockHeld, Lock, process
    <3> QED BY <2>1, <3>1 DEF LockHeld, TypeOK, Lock, Active, process
  <2>2. ASSUME pc[c] \in Active, NEW l \in Active, pc' = [pc EXCEPT ![c] = l],
               UNCHANGED <<lock, at, down>>
        PROVE  LockHeld'
    BY <2>2 DEF LockHeld, TypeOK
  <2>3. ASSUME pc[c] \in Active, NEW l \in Ended, pc' = [pc EXCEPT ![c] = l],
               lock' = [lock EXCEPT ![at[c]] = NoCall], UNCHANGED <<at, down>>
        PROVE  LockHeld'
    <3>1. \A d \in Calls : d # c /\ pc[d] \in Active => at[d] # at[c]
      BY <2>3, Alone
    <3>2. \A d \in Calls : pc'[d] \in Active => d # c /\ pc[d] \in Active
      BY <2>3 DEF TypeOK, Active, Ended
    <3>3. \A d \in Calls : pc'[d] \in Active => lock'[at'[d]] = d
      BY <2>3, <3>1, <3>2 DEF LockHeld, TypeOK
    <3>4. ASSUME NEW r \in Replicas, lock'[r] # NoCall
          PROVE  at'[lock'[r]] = r /\ pc'[lock'[r]] \in Active /\ r \notin down'
      <4>1. r # at[c] /\ lock'[r] = lock[r]
        BY <2>3, <3>4 DEF TypeOK
      <4>2. lock[r] \in Calls /\ lock[r] # c
        BY <2>3, <3>4, <4>1 DEF LockHeld, TypeOK
      <4> QED BY <2>3, <3>4, <4>1, <4>2 DEF LockHeld, TypeOK
    <3> QED BY <3>3, <3>4 DEF LockHeld
  <2>4. CASE Hit(c) \/ Miss(c) \/ ReadHistory(c) \/ AppendEvent(c) \/ MoveTimers(c)
    BY <2>2, <2>4 DEF Hit, Miss, ReadHistory, AppendEvent, MoveTimers, Goto, call, Active, process
  <2>5. CASE WroteEvent(c) \/ TriesAgain(c)
    BY <2>2, <2>5 DEF WroteEvent, TriesAgain, Active
  <2>6. CASE WroteTimers(c) \/ Drops(c) \/ Keeps(c)
    BY <2>3, <2>6 DEF WroteTimers, Drops, Keeps, Active, Ended
  <2>7. CASE PostCommit(c)
    BY <2>3, <2>7 DEF PostCommit, Return, call, Active, Ended, process
  <2> QED BY <1>1, <2>1, <2>4, <2>5, <2>6, <2>7 DEF CallStep
<1>2. ASSUME NEW r \in Replicas, ReplicaStep(r) PROVE LockHeld'
  <2>1. CASE Evict(r)
    BY <2>1 DEF LockHeld, Evict, call, process
  <2>2. CASE Crash(r)
    <3>1. \A d \in Calls : pc'[d] \in Active => pc[d] \in Active /\ at[d] # r
      BY <2>2 DEF Crash, Active, TypeOK
    <3>2. \A d \in Calls : at[d] # r => pc'[d] = pc[d]
      BY <2>2 DEF Crash
    <3>3. lock' = [lock EXCEPT ![r] = NoCall] /\ at' = at /\ down' = down \cup {r}
      BY <2>2 DEF Crash, call
    <3>4. \A d \in Calls : pc'[d] \in Active => lock'[at'[d]] = d
      BY <3>1, <3>3 DEF LockHeld, TypeOK
    <3>5. ASSUME NEW s \in Replicas, lock'[s] # NoCall
          PROVE  at'[lock'[s]] = s /\ pc'[lock'[s]] \in Active /\ s \notin down'
      <4>1. s # r /\ lock'[s] = lock[s]
        BY <3>3, <3>5 DEF TypeOK
      <4>2. lock[s] \in Calls
        BY <3>5, <4>1 DEF TypeOK
      <4> QED BY <3>2, <3>3, <3>5, <4>1, <4>2 DEF LockHeld
    <3> QED BY <3>4, <3>5 DEF LockHeld
  <2>3. CASE RecoversOpen(r) \/ RecoversClosed(r) \/ RecoverSkips(r)
    BY <2>3 DEF LockHeld, RecoversOpen, RecoversClosed, RecoverSkips, call
  <2> QED BY <1>2, <2>1, <2>2, <2>3 DEF ReplicaStep
<1>3. CASE UNCHANGED vars
  BY <1>3 DEF LockHeld, vars
<1> QED BY <1>1, <1>2, <1>3, StepCases

-------------------------------------------------------------------------------
\* A step that touches the object of replica q only, and either leaves the store
\* alone or moves its version.
TouchesOnly(q) ==
  /\ at' = at
  /\ (log' = log /\ version' = version) \/ version' = version + 1
  /\ \A r \in Replicas \ {q} :
       /\ ver'[r] = ver[r] /\ events'[r] = events[r] /\ lock'[r] = lock[r]
       /\ r \in cached' => r \in cached

\* What is known about the other replicas and the calls there stays known: their
\* versions are not the durable one after a write.
LEMMA OthersKnow ==
  ASSUME TypeOK, Coherent, NEW q \in Replicas, TouchesOnly(q)
  PROVE  /\ \A r \in Replicas \ {q} : EntryKnown(r)'
         /\ \A d \in Calls :
              pc'[d] = pc[d] /\ seen'[d] = seen[d] /\ base'[d] = base[d] /\ at[d] # q
                => CallKnows(d)'
         /\ \A d \in Calls : pc'[d] \notin Active => CallKnows(d)'
<1>1. ASSUME NEW r \in Replicas \ {q} PROVE EntryKnown(r)' /\ (Current(r) => Current(r)')
  <2>1. ver[r] <= version /\ ver[r] \in Nat /\ version \in Nat
    BY DEF Coherent, EntryKnown, TypeOK
  <2>2. ver'[r] = ver[r] /\ events'[r] = events[r] /\ lock'[r] = lock[r]
    BY DEF TouchesOnly
  <2>3. r \in cached' => r \in cached
    BY DEF TouchesOnly
  <2>4. r \in cached /\ lock[r] = NoCall => Current(r)
    BY DEF Coherent, EntryKnown
  <2>5. CASE log' = log /\ version' = version
    BY <2>1, <2>2, <2>3, <2>4, <2>5 DEF EntryKnown, Current
  <2>6. CASE version' = version + 1
    BY <2>1, <2>2, <2>6 DEF EntryKnown, Current
  <2> QED BY <2>5, <2>6 DEF TouchesOnly
<1>2. ASSUME NEW d \in Calls, pc'[d] = pc[d], seen'[d] = seen[d], base'[d] = base[d], at[d] # q
      PROVE  CallKnows(d)'
  <2>1. at[d] \in Replicas \ {q} /\ at'[d] = at[d]
    BY <1>2 DEF TypeOK, TouchesOnly
  <2>2. Current(at[d]) => Current(at[d])'
    BY <1>1, <2>1
  <2>3. /\ ver'[at[d]] = ver[at[d]] /\ events'[at[d]] = events[at[d]]
        /\ at[d] \in cached' => at[d] \in cached
    BY <2>1 DEF TouchesOnly
  <2>4. ver[at[d]] <= version /\ ver[at[d]] \in Nat /\ version \in Nat /\ seen[d] \in Nat
    BY <2>1 DEF Coherent, EntryKnown, TypeOK
  <2>5. CallKnows(d)
    BY DEF Coherent
  <2>6. pc'[d] \in {"load", "read"} /\ at'[d] \in cached' => Current(at[d])'
    BY <1>2, <2>1, <2>2, <2>3, <2>5 DEF CallKnows
  <2>7. pc'[d] = "read" => seen'[d] <= version'
    BY <1>2, <2>4, <2>5 DEF CallKnows, TouchesOnly
  <2>8. pc'[d] \in {"run", "touch", "effects"} => Current(at[d])'
    BY <1>2, <2>2, <2>5 DEF CallKnows
  <2>9. ASSUME pc'[d] = "append"
        PROVE  /\ events'[at'[d]] = Append(base'[d], d)
               /\ ~Closed(base'[d])
               /\ ver'[at'[d]] = version' => base'[d] = log'
    <3>1. /\ events[at[d]] = Append(base[d], d) /\ ~Closed(base[d])
          /\ ver[at[d]] = version => base[d] = log
      BY <1>2, <2>5, <2>9 DEF CallKnows
    <3>2. events'[at'[d]] = Append(base'[d], d) /\ ~Closed(base'[d])
      BY <1>2, <2>1, <2>3, <3>1
    <3>3. CASE log' = log /\ version' = version
      BY <1>2, <2>1, <2>3, <3>1, <3>2, <3>3
    <3>4. CASE version' = version + 1
      BY <2>1, <2>3, <2>4, <3>2, <3>4
    <3> QED BY <3>3, <3>4 DEF TouchesOnly
  <2> QED BY <2>1, <2>6, <2>7, <2>8, <2>9 DEF CallKnows, Current
<1>3. ASSUME NEW d \in Calls, pc'[d] \notin Active PROVE CallKnows(d)'
  BY <1>3 DEF CallKnows, Active
<1> QED BY <1>1, <1>2, <1>3

\* A step of call c that touches only its replica's object keeps Coherent, if the
\* entry of that replica and what c knows are as they should be.
LEMMA OwnStep ==
  ASSUME TypeOK, LockHeld, Coherent, NEW c \in Calls, TouchesOnly(at[c]),
         pc[c] \in Active,
         \A d \in Calls \ {c} : pc'[d] = pc[d] /\ seen'[d] = seen[d] /\ base'[d] = base[d],
         EntryKnown(at[c])', CallKnows(c)'
  PROVE  Coherent'
<1>1. at[c] \in Replicas /\ at' = at
  BY DEF TypeOK, TouchesOnly
<1>2. \A r \in Replicas : EntryKnown(r)'
  <2>1. EntryKnown(at[c])'
    OBVIOUS
  <2>2. ASSUME NEW r \in Replicas, r = at[c] PROVE EntryKnown(r)'
    BY <1>1, <2>1, <2>2 DEF EntryKnown, Current
  <2>3. \A r \in Replicas \ {at[c]} : EntryKnown(r)'
    BY <1>1, OthersKnow
  <2> QED BY <2>2, <2>3
<1>3. ASSUME NEW d \in Calls, d # c PROVE CallKnows(d)'
  <2>1. pc'[d] = pc[d] /\ seen'[d] = seen[d] /\ base'[d] = base[d]
    BY <1>3
  <2>2. CASE pc[d] \in Active
    <3>1. at[d] # at[c]
      BY <1>3, <2>2, Alone
    <3> QED BY <1>1, <2>1, <3>1, OthersKnow
  <2>3. CASE pc[d] \notin Active
    BY <1>1, <2>1, <2>3, OthersKnow
  <2> QED BY <2>2, <2>3
<1> QED BY <1>2, <1>3 DEF Coherent

\* Every step keeps what is known about the cached objects.
LEMMA StepCoherent == TypeOK /\ LockHeld /\ Coherent /\ [Next]_vars => Coherent'
<1> SUFFICES ASSUME TypeOK, LockHeld, Coherent, [Next]_vars PROVE Coherent'
  OBVIOUS
<1> USE CallsAssumption
<1>1. ASSUME NEW c \in Calls, CallStep(c) PROVE Coherent'
  <2>a. at[c] \in Replicas /\ version \in Nat /\ log \in Seq(Calls) /\ base[c] \in Seq(Calls)
    BY DEF TypeOK
  <2>e. /\ ver[at[c]] <= version /\ ver[at[c]] \in Nat
        /\ at[c] \in cached /\ lock[at[c]] = NoCall => Current(at[c])
    BY <2>a DEF Coherent, EntryKnown, TypeOK
  <2>k. CallKnows(c)
    BY DEF Coherent
  <2>1. CASE Lock(c)
    <3>1. /\ pc[c] = "idle" /\ lock[at[c]] = NoCall
          /\ pc' = [pc EXCEPT ![c] = "load"] /\ lock' = [lock EXCEPT ![at[c]] = c]
          /\ log' = log /\ version' = version /\ ver' = ver /\ events' = events /\ cached' = cached
          /\ at' = at /\ seen' = seen /\ base' = base
      BY <2>1 DEF Lock, store, memory, process
    <3>2. lock'[at[c]] = c /\ c # NoCall /\ pc'[c] = "load" /\ \A d \in Calls \ {c} : pc'[d] = pc[d]
      BY <2>a, <3>1 DEF TypeOK
    <3>3. TouchesOnly(at[c])
      BY <3>1 DEF TouchesOnly, TypeOK
    <3>4. EntryKnown(at[c])' /\ CallKnows(c)'
      BY <2>e, <3>1, <3>2 DEF EntryKnown, CallKnows, Current
    <3>5. ASSUME NEW r \in Replicas PROVE EntryKnown(r)'
      <4>1. CASE r = at[c]
        BY <3>1, <3>4, <4>1 DEF EntryKnown, Current
      <4> QED BY <2>a, <3>3, <4>1, OthersKnow
    <3>6. ASSUME NEW d \in Calls, d # c PROVE CallKnows(d)'
      <4>1. CASE pc[d] \in Active
        <5>1. at[d] # at[c]
          BY <3>1, <4>1 DEF LockHeld
        <5> QED BY <2>a, <3>1, <3>2, <3>3, <3>6, <5>1, OthersKnow
      <4>2. CASE pc[d] \notin Active
        BY <2>a, <3>2, <3>3, <3>6, <4>2, OthersKnow
      <4> QED BY <4>1, <4>2
    <3> QED BY <3>4, <3>5, <3>6 DEF Coherent
  <2>2. CASE Hit(c)
    <3>1. TouchesOnly(at[c]) /\ pc[c] \in Active
      BY <2>2 DEF Hit, TouchesOnly, Active
    <3>2. \A d \in Calls \ {c} : pc'[d] = pc[d] /\ seen'[d] = seen[d] /\ base'[d] = base[d]
      BY <2>2 DEF Hit, TypeOK
    <3>3. EntryKnown(at[c])' /\ CallKnows(c)'
      BY <2>2, <2>e, <2>k DEF Hit, EntryKnown, CallKnows, Current, TypeOK
    <3> QED BY <3>1, <3>2, <3>3, OwnStep
  <2>3. CASE Miss(c)
    <3>1. TouchesOnly(at[c]) /\ pc[c] \in Active
      BY <2>3 DEF Miss, TouchesOnly, Active
    <3>2. \A d \in Calls \ {c} : pc'[d] = pc[d] /\ seen'[d] = seen[d] /\ base'[d] = base[d]
      BY <2>3 DEF Miss, TypeOK
    <3>3. EntryKnown(at[c])' /\ CallKnows(c)'
      BY <2>3, <2>a, <2>e, <2>k DEF Miss, EntryKnown, CallKnows, Current, TypeOK
    <3> QED BY <3>1, <3>2, <3>3, OwnStep
  <2>4. CASE ReadHistory(c)
    <3>1. /\ pc[c] = "read" /\ pc' = [pc EXCEPT ![c] = "run"] /\ lock' = lock
          /\ ver' = [ver EXCEPT ![at[c]] = seen[c]] /\ events' = [events EXCEPT ![at[c]] = log]
          /\ cached' = cached \cup {at[c]}
          /\ log' = log /\ version' = version /\ at' = at /\ seen' = seen /\ base' = base
      BY <2>4 DEF ReadHistory, Goto, store, call, process
    <3>2. TouchesOnly(at[c]) /\ pc[c] \in Active
      BY <3>1 DEF TouchesOnly, Active, TypeOK
    <3>3. \A d \in Calls \ {c} : pc'[d] = pc[d] /\ seen'[d] = seen[d] /\ base'[d] = base[d]
      BY <3>1 DEF TypeOK
    <3>4. ver'[at[c]] = seen[c] /\ events'[at[c]] = log /\ pc'[c] = "run" /\ seen[c] <= version
      BY <2>a, <2>k, <3>1 DEF TypeOK, CallKnows
    <3>5. EntryKnown(at[c])' /\ CallKnows(c)'
      BY <3>1, <3>4 DEF EntryKnown, CallKnows, Current
    <3> QED BY <3>2, <3>3, <3>5, OwnStep
  <2>5. CASE AppendEvent(c)
    <3>1. /\ pc[c] = "run" /\ ~Closed(events[at[c]]) /\ pc' = [pc EXCEPT ![c] = "append"]
          /\ base' = [base EXCEPT ![c] = events[at[c]]] /\ lock' = lock
          /\ events' = [events EXCEPT ![at[c]] = Append(events[at[c]], c)]
          /\ log' = log /\ version' = version /\ ver' = ver /\ cached' = cached
          /\ at' = at /\ seen' = seen
      BY <2>5 DEF AppendEvent, Goto, store, process
    <3>2. TouchesOnly(at[c]) /\ pc[c] \in Active
      BY <3>1 DEF TouchesOnly, Active, TypeOK
    <3>3. \A d \in Calls \ {c} : pc'[d] = pc[d] /\ seen'[d] = seen[d] /\ base'[d] = base[d]
      BY <3>1 DEF TypeOK
    <3>4. /\ pc'[c] = "append" /\ base'[c] = events[at[c]]
          /\ events'[at[c]] = Append(events[at[c]], c) /\ lock[at[c]] = c
      BY <2>a, <3>1 DEF TypeOK, LockHeld, Active
    <3>5. ver[at[c]] = version => events[at[c]] = log
      BY <2>k, <3>1 DEF CallKnows, Current
    <3>6. EntryKnown(at[c])' /\ CallKnows(c)'
      BY <2>e, <3>1, <3>4, <3>5 DEF EntryKnown, CallKnows
    <3> QED BY <3>2, <3>3, <3>6, OwnStep
  <2>6. CASE MoveTimers(c)
    <3>1. /\ pc[c] = "run" /\ pc' = [pc EXCEPT ![c] = "touch"] /\ lock' = lock
          /\ log' = log /\ version' = version /\ ver' = ver /\ events' = events /\ cached' = cached
          /\ at' = at /\ seen' = seen /\ base' = base
      BY <2>6 DEF MoveTimers, Goto, store, memory, call, process
    <3>2. TouchesOnly(at[c]) /\ pc[c] \in Active
      BY <3>1 DEF TouchesOnly, Active
    <3>3. \A d \in Calls \ {c} : pc'[d] = pc[d] /\ seen'[d] = seen[d] /\ base'[d] = base[d]
      BY <3>1 DEF TypeOK
    <3>4. EntryKnown(at[c])' /\ CallKnows(c)'
      BY <2>e, <2>k, <3>1 DEF EntryKnown, CallKnows, Current, TypeOK
    <3> QED BY <3>2, <3>3, <3>4, OwnStep
  <2>7. CASE WroteEvent(c)
    <3>1. TouchesOnly(at[c]) /\ pc[c] \in Active
      BY <2>7 DEF WroteEvent, TouchesOnly, Active, TypeOK
    <3>2. \A d \in Calls \ {c} : pc'[d] = pc[d] /\ seen'[d] = seen[d] /\ base'[d] = base[d]
      BY <2>7 DEF WroteEvent, TypeOK
    <3>3. events[at[c]] = Append(base[c], c) /\ base[c] = log
      BY <2>7, <2>k DEF WroteEvent, CallKnows
    <3>4. /\ ver'[at[c]] = version + 1 /\ version' = version + 1
          /\ events'[at[c]] = log' /\ pc'[c] = "effects" /\ at' = at
      BY <2>7, <2>a, <3>3 DEF WroteEvent, TypeOK
    <3>5. EntryKnown(at[c])' /\ CallKnows(c)'
      BY <2>a, <3>4 DEF EntryKnown, CallKnows, Current
    <3> QED BY <3>1, <3>2, <3>5, OwnStep
  <2>8. CASE WroteTimers(c)
    <3>1. TouchesOnly(at[c]) /\ pc[c] \in Active
      BY <2>8 DEF WroteTimers, TouchesOnly, Active, TypeOK
    <3>2. \A d \in Calls \ {c} : pc'[d] = pc[d] /\ seen'[d] = seen[d] /\ base'[d] = base[d]
      BY <2>8 DEF WroteTimers, TypeOK
    <3>3. events[at[c]] = log
      BY <2>8, <2>k DEF WroteTimers, CallKnows, Current
    <3>4. /\ ver'[at[c]] = version + 1 /\ version' = version + 1
          /\ events'[at[c]] = log' /\ pc'[c] = "noop" /\ at' = at
      BY <2>8, <2>a, <3>3 DEF WroteTimers, TypeOK
    <3>5. EntryKnown(at[c])' /\ CallKnows(c)'
      BY <2>a, <3>4 DEF EntryKnown, CallKnows, Current
    <3> QED BY <3>1, <3>2, <3>5, OwnStep
  <2>9. CASE TriesAgain(c)
    <3>1. TouchesOnly(at[c]) /\ pc[c] \in Active
      BY <2>9 DEF TriesAgain, TouchesOnly, Active
    <3>2. \A d \in Calls \ {c} : pc'[d] = pc[d] /\ seen'[d] = seen[d] /\ base'[d] = base[d]
      BY <2>9 DEF TriesAgain, TypeOK
    <3>3. /\ pc'[c] = "load" /\ at' = at /\ at[c] \notin cached'
          /\ ver' = ver /\ version' = version
      BY <2>9 DEF TriesAgain, TypeOK
    <3>4. EntryKnown(at[c])' /\ CallKnows(c)'
      BY <2>e, <3>3 DEF EntryKnown, CallKnows
    <3> QED BY <3>1, <3>2, <3>4, OwnStep
  <2>10. CASE Drops(c)
    <3>1. TouchesOnly(at[c]) /\ pc[c] \in Active
      BY <2>10 DEF Drops, TouchesOnly, Active, TypeOK
    <3>2. \A d \in Calls \ {c} : pc'[d] = pc[d] /\ seen'[d] = seen[d] /\ base'[d] = base[d]
      BY <2>10 DEF Drops, TypeOK
    <3>3. /\ pc'[c] = "failed" /\ at' = at /\ at[c] \notin cached'
          /\ ver' = ver /\ version' = version
      BY <2>10 DEF Drops, TypeOK
    <3>4. EntryKnown(at[c])' /\ CallKnows(c)'
      BY <2>e, <3>3 DEF EntryKnown, CallKnows
    <3> QED BY <3>1, <3>2, <3>4, OwnStep
  <2>11. CASE Keeps(c)
    <3>1. TouchesOnly(at[c]) /\ pc[c] \in Active
      BY <2>11 DEF Keeps, TouchesOnly, Active, TypeOK
    <3>2. \A d \in Calls \ {c} : pc'[d] = pc[d] /\ seen'[d] = seen[d] /\ base'[d] = base[d]
      BY <2>11 DEF Keeps, TypeOK
    <3>3. /\ pc'[c] \in {"failed", "noop"} /\ at' = at /\ cached' = cached
          /\ ver' = ver /\ version' = version /\ events' = events /\ log' = log
          /\ at[c] \in cached => Current(at[c])
      BY <2>11, <2>k DEF Keeps, TypeOK, CallKnows
    <3>4. EntryKnown(at[c])' /\ CallKnows(c)'
      BY <2>e, <3>3 DEF EntryKnown, CallKnows, Current
    <3> QED BY <3>1, <3>2, <3>4, OwnStep
  <2>12. CASE PostCommit(c)
    <3>1. /\ pc[c] = "effects" /\ pc' = [pc EXCEPT ![c] = "ok"]
          /\ lock' = [lock EXCEPT ![at[c]] = NoCall]
          /\ log' = log /\ version' = version /\ ver' = ver /\ events' = events /\ cached' = cached
          /\ at' = at /\ seen' = seen /\ base' = base
      BY <2>12 DEF PostCommit, Return, store, memory, call, process
    <3>2. TouchesOnly(at[c]) /\ pc[c] \in Active
      BY <3>1 DEF TouchesOnly, Active, TypeOK
    <3>3. \A d \in Calls \ {c} : pc'[d] = pc[d] /\ seen'[d] = seen[d] /\ base'[d] = base[d]
      BY <3>1 DEF TypeOK
    <3>4. pc'[c] = "ok" /\ Current(at[c])
      BY <2>k, <3>1 DEF TypeOK, CallKnows
    <3>5. EntryKnown(at[c])' /\ CallKnows(c)'
      BY <2>e, <3>1, <3>4 DEF EntryKnown, CallKnows, Current
    <3> QED BY <3>2, <3>3, <3>5, OwnStep
  <2> QED BY <1>1, <2>1, <2>2, <2>3, <2>4, <2>5, <2>6, <2>7, <2>8, <2>9, <2>10,
             <2>11, <2>12 DEF CallStep
<1>2. ASSUME NEW r \in Replicas, ReplicaStep(r) PROVE Coherent'
  <2>e. ver[r] <= version /\ ver[r] \in Nat /\ version \in Nat
    BY DEF Coherent, EntryKnown, TypeOK
  <2>1. ASSUME TouchesOnly(r), EntryKnown(r)', seen' = seen, base' = base,
               \A d \in Calls : /\ at[d] # r => pc'[d] = pc[d]
                                /\ at[d] = r => pc'[d] \notin Active
        PROVE  Coherent'
    <3>1. \A s \in Replicas : EntryKnown(s)'
      BY <2>1, OthersKnow
    <3>2. ASSUME NEW d \in Calls PROVE CallKnows(d)'
      <4>1. CASE at[d] = r
        BY <2>1, <4>1, OthersKnow
      <4>2. CASE at[d] # r
        BY <2>1, <4>2, OthersKnow
      <4> QED BY <4>1, <4>2
    <3> QED BY <3>1, <3>2 DEF Coherent
  <2>2. CASE Evict(r)
    <3>1. /\ cached' = cached \ {r} /\ pc' = pc /\ lock' = lock
          /\ log' = log /\ version' = version /\ ver' = ver /\ events' = events
          /\ at' = at /\ seen' = seen /\ base' = base
      BY <2>2 DEF Evict, Invalidate, store, object, call, process
    <3>2. \A s \in Replicas : EntryKnown(s)'
      BY <3>1 DEF Coherent, EntryKnown, Current
    <3>3. \A d \in Calls : CallKnows(d)'
      BY <3>1 DEF Coherent, CallKnows, Current
    <3> QED BY <3>2, <3>3 DEF Coherent
  <2>3. CASE Crash(r)
    <3>1. /\ cached' = cached \ {r} /\ lock' = [lock EXCEPT ![r] = NoCall]
          /\ log' = log /\ version' = version /\ ver' = ver /\ events' = events
          /\ at' = at /\ seen' = seen /\ base' = base
      BY <2>3 DEF Crash, Invalidate, store, object, call
    <3>2. TouchesOnly(r) /\ EntryKnown(r)'
      BY <2>e, <3>1 DEF TouchesOnly, EntryKnown, TypeOK
    <3>3. \A d \in Calls : /\ at[d] # r => pc'[d] = pc[d]
                           /\ at[d] = r => pc'[d] \notin Active
      BY <2>3 DEF Crash, Active
    <3> QED BY <2>1, <3>1, <3>2, <3>3
  <2>4. CASE RecoversOpen(r)
    <3>1. TouchesOnly(r) /\ seen' = seen /\ base' = base /\ pc' = pc
      BY <2>4 DEF RecoversOpen, TouchesOnly, TypeOK
    <3>2. ver'[r] = version' /\ events'[r] = log' /\ version' \in Nat
      BY <2>4, <2>e DEF RecoversOpen, TypeOK
    <3>3. EntryKnown(r)'
      BY <3>2 DEF EntryKnown, Current
    <3>4. \A d \in Calls : at[d] = r => pc[d] \notin Active
      BY <2>4 DEF RecoversOpen, LockHeld
    <3> QED BY <2>1, <3>1, <3>3, <3>4
  <2>5. CASE RecoversClosed(r) \/ RecoverSkips(r)
    <3>1. /\ log' = log /\ version' = version /\ ver' = ver /\ events' = events /\ cached' = cached
          /\ lock' = lock /\ at' = at /\ pc' = pc /\ seen' = seen /\ base' = base
      BY <2>5 DEF RecoversClosed, RecoverSkips, store, memory, call
    <3> QED BY <3>1 DEF Coherent, EntryKnown, CallKnows, Current
  <2> QED BY <1>2, <2>2, <2>3, <2>4, <2>5 DEF ReplicaStep
<1>3. CASE UNCHANGED vars
  BY <1>3 DEF vars, Coherent, EntryKnown, CallKnows, Current
<1> QED BY <1>1, <1>2, <1>3, StepCases

-------------------------------------------------------------------------------
\* A step of a call that neither writes an event nor releases effects.
Quiet(c) ==
  /\ log' = log /\ tasks' = tasks /\ down' = down /\ skipped' = skipped
  /\ pc[c] \in Undecided
  /\ \E l \in Unapplied : pc' = [pc EXCEPT ![c] = l]

\* What a step does to the log, the effects and the answers.
LEMMA EffectCases ==
  ASSUME TypeOK, [Next]_vars
  PROVE  \/ \E c \in Calls : Quiet(c) \/ WroteEvent(c) \/ PostCommit(c)
         \/ \E r \in Replicas : ReplicaStep(r)
         \/ UNCHANGED vars
<1>1. ASSUME NEW c \in Calls, CallStep(c) PROVE Quiet(c) \/ WroteEvent(c) \/ PostCommit(c)
  <2> USE DEF Quiet, Undecided, Unapplied
  <2>1. CASE Lock(c)
    BY <2>1 DEF Lock, store, process
  <2>2. CASE Hit(c) \/ Miss(c)
    BY <2>2 DEF Hit, Miss
  <2>3. CASE ReadHistory(c)
    BY <2>3 DEF ReadHistory, Goto, store, process
  <2>4. CASE AppendEvent(c) \/ MoveTimers(c)
    BY <2>4 DEF AppendEvent, MoveTimers, Goto, store, process
  <2>5. CASE WroteTimers(c) \/ TriesAgain(c)
    BY <2>5 DEF WroteTimers, TriesAgain
  <2>6. CASE Drops(c) \/ Keeps(c)
    BY <2>6 DEF Drops, Keeps
  <2> QED BY <1>1, <2>1, <2>2, <2>3, <2>4, <2>5, <2>6 DEF CallStep
<1> QED BY <1>1, StepCases

\* Appending a new element to a sequence without repetitions.
LEMMA AppendElements ==
  ASSUME NEW S, NEW s \in Seq(S), NEW x \in S, IsInjective(s), x \notin ToSet(s)
  PROVE  /\ Append(s, x) \in Seq(S)
         /\ Len(Append(s, x)) = Len(s) + 1
         /\ ToSet(Append(s, x)) = ToSet(s) \cup {x}
         /\ IsInjective(Append(s, x))
<1> DEFINE u == Append(s, x)
<1>1. /\ u \in Seq(S)
      /\ Len(u) = Len(s) + 1
      /\ DOMAIN u = 1 .. (Len(s) + 1)
      /\ \A i \in 1 .. Len(s) : u[i] = s[i]
      /\ u[Len(s) + 1] = x
      /\ DOMAIN s = 1 .. Len(s)
      /\ Len(s) \in Nat
  OBVIOUS
<1> HIDE DEF u
<1>2. ToSet(u) = ToSet(s) \cup {x}
  <2>1. \A i \in DOMAIN u : u[i] \in ToSet(s) \cup {x}
    BY <1>1 DEF ToSet
  <2>2. Len(s) + 1 \in DOMAIN u /\ DOMAIN s \subseteq DOMAIN u
    BY <1>1
  <2>3. \A i \in DOMAIN s : u[i] = s[i]
    BY <1>1
  <2> QED BY <1>1, <2>1, <2>2, <2>3 DEF ToSet
<1>3. IsInjective(u)
  BY <1>1 DEF IsInjective, ToSet
<1> QED BY <1>1, <1>2, <1>3 DEF u

\* The event of an accepted write extends exactly the log it was decided on, and
\* that log is open and does not have the event yet.
LEMMA WroteOnCurrent ==
  ASSUME TypeOK, Coherent, Applied, NEW c \in Calls, WroteEvent(c)
  PROVE  /\ base[c] = log /\ ~Closed(log) /\ c \notin ToSet(log)
         /\ log' \in Seq(Calls) /\ Len(log') = Len(log) + 1
         /\ ToSet(log') = ToSet(log) \cup {c} /\ IsInjective(log')
<1>1. base[c] = log /\ ~Closed(log) /\ c \notin ToSet(log)
  BY DEF WroteEvent, Coherent, CallKnows, Applied, Undecided, Unapplied
<1>2. log \in Seq(Calls) /\ IsInjective(log) /\ log' = Append(log, c)
  BY DEF TypeOK, Applied, WroteEvent
<1> QED BY <1>1, <1>2, AppendElements

\* The log holds each call once, and a call's state tells whether it does.
LEMMA StepApplied == TypeOK /\ Coherent /\ Applied /\ [Next]_vars => Applied'
<1> SUFFICES ASSUME TypeOK, Coherent, Applied, [Next]_vars PROVE Applied'
  OBVIOUS
<1>1. ASSUME log' = log,
             \A d \in Calls : /\ pc'[d] \in {"effects", "ok"} => pc[d] \in {"effects", "ok"}
                              /\ pc'[d] \in Unapplied => pc[d] \in Unapplied
      PROVE  Applied'
  BY <1>1 DEF Applied
<1>2. ASSUME NEW c \in Calls, Quiet(c) PROVE Applied'
  <2>1. \A d \in Calls : /\ pc'[d] \in {"effects", "ok"} => pc[d] \in {"effects", "ok"}
                         /\ pc'[d] \in Unapplied => pc[d] \in Unapplied
    BY <1>2 DEF Quiet, TypeOK, Undecided, Unapplied
  <2> QED BY <1>1, <1>2, <2>1 DEF Quiet
<1>3. ASSUME NEW c \in Calls, WroteEvent(c) PROVE Applied'
  <2>1. pc' = [pc EXCEPT ![c] = "effects"]
    BY <1>3 DEF WroteEvent
  <2>2. ToSet(log') = ToSet(log) \cup {c} /\ IsInjective(log')
    BY <1>3, WroteOnCurrent
  <2> QED BY <2>1, <2>2 DEF Applied, TypeOK, Undecided, Unapplied
<1>4. ASSUME NEW c \in Calls, PostCommit(c) PROVE Applied'
  <2>1. log' = log /\ pc[c] = "effects" /\ pc' = [pc EXCEPT ![c] = "ok"]
    BY <1>4 DEF PostCommit, Return, store, process
  <2> QED BY <1>1, <2>1 DEF TypeOK, Undecided, Unapplied
<1>5. ASSUME NEW r \in Replicas, ReplicaStep(r) PROVE Applied'
  <2>1. CASE Crash(r)
    <3>1. log' = log /\ pc' = [c \in Calls |-> IF at[c] = r /\ pc[c] \in Active THEN "lost" ELSE pc[c]]
      BY <2>1 DEF Crash, store
    <3> QED BY <1>1, <3>1 DEF Undecided, Unapplied
  <2>2. CASE Evict(r) \/ RecoversOpen(r) \/ RecoversClosed(r) \/ RecoverSkips(r)
    <3>1. log' = log /\ pc' = pc
      BY <2>2 DEF Evict, RecoversOpen, RecoversClosed, RecoverSkips, store
    <3> QED BY <1>1, <3>1
  <2> QED BY <1>5, <2>1, <2>2 DEF ReplicaStep
<1>6. CASE UNCHANGED vars
  BY <1>1, <1>6 DEF vars
<1> QED BY <1>2, <1>3, <1>4, <1>5, <1>6, EffectCases

\* Nothing is appended behind a closing event.
LEMMA StepClose ==
  TypeOK /\ Coherent /\ Applied /\ NothingAfterClose /\ [Next]_vars => NothingAfterClose'
<1> SUFFICES ASSUME TypeOK, Coherent, Applied, NothingAfterClose, [Next]_vars
             PROVE  NothingAfterClose'
  OBVIOUS
<1>1. CASE log' = log
  BY <1>1 DEF NothingAfterClose
<1>2. ASSUME NEW c \in Calls, WroteEvent(c) PROVE NothingAfterClose'
  <2>1. ~Closed(log)
    BY <1>2, WroteOnCurrent
  <2>2. \A i \in DOMAIN log : log[i] \notin Closers
    BY <2>1 DEF Closed, ToSet
  <2>3. log' = Append(log, c) /\ log \in Seq(Calls)
    BY <1>2 DEF WroteEvent, TypeOK
  <2>4. /\ DOMAIN log' = 1 .. (Len(log) + 1) /\ Len(log') = Len(log) + 1
        /\ DOMAIN log = 1 .. Len(log) /\ Len(log) \in Nat
        /\ \A i \in 1 .. Len(log) : log'[i] = log[i]
    BY <2>3
  <2> QED BY <2>2, <2>4 DEF NothingAfterClose
<1>3. ASSUME NEW c \in Calls, Quiet(c) \/ PostCommit(c) PROVE log' = log
  BY <1>3 DEF Quiet, PostCommit, store, process
<1>4. ASSUME NEW r \in Replicas, ReplicaStep(r) PROVE log' = log
  BY <1>4 DEF ReplicaStep, Evict, Crash, RecoversOpen, RecoversClosed, RecoverSkips, store
<1>5. CASE UNCHANGED vars
  BY <1>1, <1>5 DEF vars
<1> QED BY <1>1, <1>2, <1>3, <1>4, <1>5, EffectCases

\* Only the effects of events in the log are released.
LEMMA StepPhantom ==
  TypeOK /\ Coherent /\ Applied /\ NoPhantomTasks /\ [Next]_vars => NoPhantomTasks'
<1> SUFFICES ASSUME TypeOK, Coherent, Applied, NoPhantomTasks, [Next]_vars
             PROVE  NoPhantomTasks'
  OBVIOUS
<1>1. CASE log' = log /\ tasks' = tasks
  BY <1>1 DEF NoPhantomTasks
<1>2. ASSUME NEW c \in Calls, WroteEvent(c) PROVE NoPhantomTasks'
  <2>1. ToSet(log') = ToSet(log) \cup {c} /\ tasks' = tasks
    BY <1>2, WroteOnCurrent DEF WroteEvent
  <2> QED BY <2>1 DEF NoPhantomTasks
<1>3. ASSUME NEW c \in Calls, PostCommit(c) PROVE NoPhantomTasks'
  <2>1. /\ log' = log /\ tasks' = [tasks EXCEPT ![at[c]] = tasks[at[c]] \cup {c}]
        /\ c \in ToSet(log)
    BY <1>3 DEF PostCommit, store, Applied, process
  <2> QED BY <2>1 DEF NoPhantomTasks, TypeOK
<1>4. ASSUME NEW r \in Replicas, Crash(r) PROVE NoPhantomTasks'
  BY <1>4 DEF Crash, store, NoPhantomTasks, TypeOK
<1>5. ASSUME NEW r \in Replicas, RecoversOpen(r) PROVE NoPhantomTasks'
  BY <1>5 DEF RecoversOpen, NoPhantomTasks, TypeOK
<1>6. ASSUME NEW r \in Replicas, Evict(r) \/ RecoversClosed(r) \/ RecoverSkips(r)
      PROVE  log' = log /\ tasks' = tasks
  BY <1>6 DEF Evict, RecoversClosed, RecoverSkips, store
<1>7. ASSUME NEW c \in Calls, Quiet(c) PROVE log' = log /\ tasks' = tasks
  BY <1>7 DEF Quiet
<1>8. CASE UNCHANGED vars
  BY <1>1, <1>8 DEF vars
<1> QED BY <1>1, <1>2, <1>3, <1>4, <1>5, <1>6, <1>7, <1>8, EffectCases DEF ReplicaStep

\* The effects of an open run's events are released, about to be, or will be
\* when a replica recovers.
LEMMA StepEffects ==
  TypeOK /\ Coherent /\ Applied /\ EffectsKept /\ [Next]_vars => EffectsKept'
<1> SUFFICES ASSUME TypeOK, Coherent, Applied, EffectsKept, [Next]_vars, ~Closed(log'),
                    NEW d \in ToSet(log')
             PROVE  pc'[d] = "effects" \/ \E r \in Replicas : r \in (down \cup skipped)' \/ d \in tasks'[r]
  BY DEF EffectsKept
<1>d. ToSet(log) \subseteq Calls
  BY DEF TypeOK, ToSet
<1>1. ASSUME log' = log, pc[d] = "effects" => pc'[d] = "effects", tasks' = tasks, down' = down, skipped' = skipped
      PROVE  pc'[d] = "effects" \/ \E r \in Replicas : r \in (down \cup skipped)' \/ d \in tasks'[r]
  BY <1>1 DEF EffectsKept
<1>2. ASSUME NEW c \in Calls, Quiet(c) 
      PROVE  /\ log' = log /\ tasks' = tasks /\ down' = down /\ skipped' = skipped
             /\ (pc[d] = "effects" => pc'[d] = "effects")
  BY <1>2, <1>d DEF Quiet, TypeOK, Undecided
<1>3. ASSUME NEW c \in Calls, WroteEvent(c)
      PROVE  pc'[d] = "effects" \/ \E r \in Replicas : r \in (down \cup skipped)' \/ d \in tasks'[r]
  <2>1. /\ pc' = [pc EXCEPT ![c] = "effects"] /\ tasks' = tasks /\ down' = down
        /\ skipped' = skipped /\ ToSet(log') = ToSet(log) \cup {c} /\ ~Closed(log)
    BY <1>3, WroteOnCurrent DEF WroteEvent
  <2>2. CASE d = c
    BY <2>1, <2>2 DEF TypeOK
  <2>3. CASE d # c
    <3>1. d \in ToSet(log) /\ pc'[d] = pc[d]
      BY <1>d, <2>1, <2>3 DEF TypeOK
    <3> QED BY <2>1, <3>1 DEF EffectsKept
  <2> QED BY <2>2, <2>3
<1>4. ASSUME NEW c \in Calls, PostCommit(c)
      PROVE  pc'[d] = "effects" \/ \E r \in Replicas : r \in (down \cup skipped)' \/ d \in tasks'[r]
  <2>1. /\ pc' = [pc EXCEPT ![c] = "ok"] /\ down' = down /\ skipped' = skipped /\ log' = log
        /\ tasks' = [tasks EXCEPT ![at[c]] = tasks[at[c]] \cup {c}]
        /\ at[c] \in Replicas /\ d \in Calls
    BY <1>4, <1>d DEF PostCommit, Return, store, TypeOK, process
  <2>2. \A r \in Replicas : tasks[r] \subseteq tasks'[r]
    BY <2>1 DEF TypeOK
  <2>3. CASE d = c
    <3>1. d \in tasks'[at[c]]
      BY <2>1, <2>3 DEF TypeOK
    <3> QED BY <2>1, <3>1
  <2>4. CASE d # c
    <3>1. pc'[d] = pc[d]
      BY <2>1, <2>4 DEF TypeOK
    <3> QED BY <2>1, <2>2, <3>1 DEF EffectsKept
  <2> QED BY <2>3, <2>4
<1>5. ASSUME NEW r \in Replicas, ReplicaStep(r)
      PROVE  pc'[d] = "effects" \/ \E s \in Replicas : s \in (down \cup skipped)' \/ d \in tasks'[s]
  <2>1. CASE Evict(r)
    BY <1>1, <2>1 DEF Evict, store, process
  <2>2. CASE Crash(r)
    BY <2>2 DEF Crash
  <2>3. CASE RecoversOpen(r)
    <3>1. d \in tasks'[r]
      BY <2>3 DEF RecoversOpen, TypeOK
    <3> QED BY <3>1
  <2>4. CASE RecoversClosed(r)
    BY <2>4 DEF RecoversClosed
  <2>5. CASE RecoverSkips(r)
    BY <2>5 DEF RecoverSkips
  <2> QED BY <1>5, <2>1, <2>2, <2>3, <2>4, <2>5 DEF ReplicaStep
<1>6. CASE UNCHANGED vars
  BY <1>1, <1>6 DEF vars
<1> QED BY <1>1, <1>2, <1>3, <1>4, <1>5, <1>6, EffectCases

\* Every step keeps the invariant.
LEMMA StepInv == Inv /\ [Next]_vars => Inv'
BY StepType, StepLock, StepCoherent, StepApplied, StepClose, StepPhantom, StepEffects DEF Inv

-------------------------------------------------------------------------------
\* The state keeps its shape, and no call makes more attempts than
\* MaxWriteAttempts.
THEOREM TypeCorrect == Spec => []TypeOK
<1>1. Inv => TypeOK
  BY DEF Inv
<1> QED BY InitInv, StepInv, <1>1, PTL DEF Spec

\* A cache hit gives the durable log, for any number of replicas and whatever
\* errors, evictions and crashes came before ("Correctness never depends on a
\* hit", cachedState).
THEOREM CacheIsCurrent == Spec => []HitIsCurrent
<1>1. Inv => HitIsCurrent
  BY DEF Inv, Coherent, EntryKnown, Current, HitIsCurrent
<1> QED BY InitInv, StepInv, <1>1, PTL DEF Spec

\* mutateLocked tells its caller the truth: success means the event is in the
\* log exactly once, an error means that it is not.
THEOREM TrueAnswers == Spec => []AnswersAreTrue
<1>1. Inv => AnswersAreTrue
  BY DEF Inv, Applied, Undecided, Unapplied, AnswersAreTrue
<1> QED BY InitInv, StepInv, <1>1, PTL DEF Spec

\* No replica appends to a run that any replica has closed.
THEOREM CloseIsLast == Spec => []NothingAfterClose
<1>1. Inv => NothingAfterClose
  BY DEF Inv
<1> QED BY InitInv, StepInv, <1>1, PTL DEF Spec

\* Matching gets the tasks of durable writes, all of them while the run is open,
\* and no others.
THEOREM EffectsAreDurable == Spec => []EffectsMatchLog
<1>1. Inv => EffectsMatchLog
  BY DEF Inv, EffectsMatchLog
<1> QED BY InitInv, StepInv, <1>1, PTL DEF Spec

\* Exactly one of two racing writers wins: an event is appended only to the log
\* its transition was decided on.
THEOREM Serializable == Spec => DecidedOnCurrent
<1>1. ASSUME Inv, [Next]_vars, log' # log
      PROVE  \E c \in Calls : log' = Append(log, c) /\ base[c] = log
  <2>1. ASSUME NEW c \in Calls, WroteEvent(c) PROVE log' = Append(log, c) /\ base[c] = log
    BY <1>1, <2>1, WroteOnCurrent DEF Inv, WroteEvent
  <2>2. ASSUME NEW c \in Calls, Quiet(c) \/ PostCommit(c) PROVE log' = log
    BY <2>2 DEF Quiet, PostCommit, store, process
  <2>3. ASSUME NEW r \in Replicas, ReplicaStep(r) PROVE log' = log
    BY <2>3 DEF ReplicaStep, Evict, Crash, RecoversOpen, RecoversClosed, RecoverSkips, store
  <2>4. ~UNCHANGED vars
    BY <1>1 DEF vars
  <2> QED BY <1>1, <2>1, <2>2, <2>3, <2>4, EffectCases DEF Inv
<1>2. Inv /\ [Next]_vars => [log' # log => \E c \in Calls : log' = Append(log, c) /\ base[c] = log]_vars
  BY <1>1
<1> QED BY InitInv, StepInv, <1>2, PTL DEF Spec, DecidedOnCurrent

-------------------------------------------------------------------------------
\* Every step of the write path is a step of SerialLog or leaves its state alone.
LEMMA StepSerial == Inv /\ [Next]_vars => [Serial!Next]_<<log, [c \in Calls |-> Told(c)]>>
<1> SUFFICES ASSUME Inv, [Next]_vars
             PROVE  \/ Serial!Next
                    \/ log' = log /\ [c \in Calls |-> Told(c)]' = [c \in Calls |-> Told(c)]
  OBVIOUS
<1> DEFINE told == [c \in Calls |-> Told(c)]
<1>1. TypeOK /\ Applied /\ Coherent
  BY DEF Inv
<1>2. ASSUME NEW c \in Calls, Quiet(c) PROVE Serial!Answer(c) \/ (log' = log /\ told' = told)
  <2>1. PICK l \in Unapplied : pc' = [pc EXCEPT ![c] = l]
    BY <1>2 DEF Quiet
  <2>2. log' = log /\ pc[c] \in Undecided /\ c \notin ToSet(log)
    BY <1>1, <1>2 DEF Quiet, Applied, Unapplied
  <2>3. /\ pc'[c] = l /\ \A d \in Calls : d # c => pc'[d] = pc[d]
    BY <1>1, <2>1 DEF TypeOK
  <2>4. told[c] = "none"
    BY <2>2 DEF Undecided, Told
  <2>5. CASE l \in {"noop", "failed"}
    <3>1. told' = [told EXCEPT ![c] = "failed"]
      BY <2>3, <2>5 DEF Told
    <3> QED BY <2>2, <2>4, <3>1 DEF Serial!Answer, Serial!ToSet, ToSet
  <2>6. CASE l \notin {"noop", "failed"}
    <3>1. told' = told
      BY <2>2, <2>3, <2>6 DEF Undecided, Unapplied, Told
    <3> QED BY <2>2, <3>1
  <2> QED BY <2>5, <2>6
<1>3. ASSUME NEW c \in Calls, WroteEvent(c) PROVE Serial!Apply(c)
  <2>1. c \notin ToSet(log) /\ ToSet(log) \cap Closers = {}
    BY <1>1, <1>3, WroteOnCurrent DEF Closed
  <2>2. log' = Append(log, c) /\ pc[c] = "append" /\ pc' = [pc EXCEPT ![c] = "effects"]
    BY <1>3 DEF WroteEvent
  <2>3. told' = told /\ told[c] = "none"
    BY <1>1, <2>2 DEF TypeOK, Told
  <2> QED BY <2>1, <2>2, <2>3 DEF Serial!Apply, Serial!ToSet, ToSet
<1>4. ASSUME NEW c \in Calls, PostCommit(c) PROVE Serial!Answer(c)
  <2>1. log' = log /\ pc[c] = "effects" /\ pc' = [pc EXCEPT ![c] = "ok"]
    BY <1>4 DEF PostCommit, Return, store, process
  <2>2. c \in ToSet(log)
    BY <1>1, <2>1 DEF Applied
  <2>3. told' = [told EXCEPT ![c] = "ok"] /\ told[c] = "none"
    BY <1>1, <2>1 DEF TypeOK, Told
  <2> QED BY <2>1, <2>2, <2>3 DEF Serial!Answer, Serial!ToSet, ToSet
<1>5. ASSUME NEW r \in Replicas, ReplicaStep(r) PROVE log' = log /\ told' = told
  <2>1. CASE Crash(r)
    <3>1. log' = log /\ pc' = [c \in Calls |-> IF at[c] = r /\ pc[c] \in Active THEN "lost" ELSE pc[c]]
      BY <2>1 DEF Crash, store
    <3> QED BY <3>1 DEF Active, Told
  <2>2. CASE Evict(r) \/ RecoversOpen(r) \/ RecoversClosed(r) \/ RecoverSkips(r)
    <3>1. log' = log /\ pc' = pc
      BY <2>2 DEF Evict, RecoversOpen, RecoversClosed, RecoverSkips, store
    <3> QED BY <3>1 DEF Told
  <2> QED BY <1>5, <2>1, <2>2 DEF ReplicaStep
<1>6. CASE UNCHANGED vars
  BY <1>6 DEF vars, Told
<1> QED BY <1>1, <1>2, <1>3, <1>4, <1>5, <1>6, EffectCases DEF Serial!Next

\* The write path implements SerialLog, for any number of calls and replicas: a
\* call takes effect at one instant and at most once, on the log as it is then.
THEOREM Implements == Spec => ImplementsSerial
<1>1. Init => Serial!Init
  BY DEF Init, Serial!Init, Told
<1> QED
  BY InitInv, StepInv, StepSerial, <1>1, PTL DEF Spec, ImplementsSerial, Serial!Spec
===============================================================================
