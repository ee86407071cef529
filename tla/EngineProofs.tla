----------------------------- MODULE EngineProofs ------------------------------
(***************************************************************************)
(* Under any settings, and for any number of calls, timers, faults and     *)
(* restarts: the log that Engine.tla writes can be loaded, the cached      *)
(* state is what a replay of it gives, no answer of a replaced worker is   *)
(* applied, nothing fires early, nothing that should wake the workflow is  *)
(* overlooked, and the run waits for no clock that nobody watches.         *)
(*                                                                         *)
(* Sound is what holds of every state the engine keeps, Alike is equality  *)
(* up to what the log does not determine, Leads is what a transition does  *)
(* to a sound state, Kept is the store against the cache, and IInv, the    *)
(* inductive invariant, adds what workers and the scan loop have in hand.  *)
(* WInv puts on top of it who watches what: Dead is a key the run does not *)
(* wait for, Straight a transition that announces what it adds.            *)
(***************************************************************************)
EXTENDS Engine, FiniteSetTheorems, FunctionTheorems, TLAPS

-------------------------------------------------------------------------------
\* Shapes.

Ids == {""} \cup Workers \cup ActivityIds \cup TimerIds

EventTypes ==
  {"Started", "TaskScheduled", "TaskStarted", "TaskCompleted", "TaskFailed", "TaskTimedOut",
   "ActScheduled", "ActStarted", "ActCompleted", "ActFailed", "ActTimedOut", "ActCanceled",
   "ActCancelRequested", "TimerStarted", "TimerFired", "TimerCanceled", "Marker", "Signaled",
   "CancelRequested"} \cup ClosedTypes

Events ==
  [type : EventTypes, time : Nat, ref : Nat, by : Nat, start : Nat, id : Ids, n : Nat, seen : Nat]

TaskStates == [sched : Nat, started : Nat, deadline : Nat, who : Ids]
ActStates ==
  [id : Ids, at : Nat, started : Nat, attempt : Nat, held : BOOLEAN, attemptDl : Nat,
   beatDl : Nat, closeDl : Nat, cancel : BOOLEAN]
TimerStates == [id : Ids, at : Nat]

\* The pending entities, by event.
Pending(S) == UNION {[D -> S] : D \in SUBSET Nat}

MutableStates ==
  [ok : BOOLEAN, status : {"Running"} \cup ClosedTypes, events : Seq(Events), wt : TaskStates,
   acts : Pending(ActStates), timers : Pending(TimerStates), cancel : BOOLEAN, runDl : Nat]

LEMMA PendingIs ==
  ASSUME NEW S, NEW f
  PROVE  f \in Pending(S) <=> DOMAIN f \subseteq Nat /\ f \in [DOMAIN f -> S]
BY DEF Pending

LEMMA PendingKept ==
  ASSUME NEW S, NEW f \in Pending(S), NEW e \in Nat, NEW v \in S
  PROVE  /\ Remove1(f, e) \in Pending(S) /\ Put1(f, e, v) \in Pending(S)
         /\ [f EXCEPT ![e] = v] \in Pending(S)
<1>1. DOMAIN f \subseteq Nat /\ f \in [DOMAIN f -> S]
  BY PendingIs
<1>2. Remove1(f, e) \in [DOMAIN f \ {e} -> S]
  BY <1>1 DEF Remove1
<1>3. Put1(f, e, v) \in [DOMAIN f \cup {e} -> S]
  BY <1>1 DEF Put1
<1>4. [f EXCEPT ![e] = v] \in [DOMAIN f -> S]
  BY <1>1
<1> QED BY <1>1, <1>2, <1>3, <1>4 DEF Pending

-------------------------------------------------------------------------------
\* Replay.  A set of naturals that has 0 and every successor has them all, since its
\* members below a missing one could be mapped one to one to those above 0.
LEMMA Induction ==
  ASSUME NEW S \in SUBSET Nat, 0 \in S, \A n \in S : n + 1 \in S
  PROVE  S = Nat
<1> SUFFICES ASSUME NEW n \in Nat, n \notin S PROVE FALSE
  OBVIOUS
<1> DEFINE T == {i \in S : i < n}
           f == [i \in T |-> i + 1]
<1>1. IsFiniteSet(T)
  <2>1. IsFiniteSet(0 .. n)
    BY FS_Interval
  <2>2. \A i \in T : i \in 0 .. n
    OBVIOUS
  <2> HIDE DEF T
  <2> QED BY <2>1, <2>2, FS_Subset
<1>2. 0 \in T
  OBVIOUS
<1>3. IsFiniteSet(T \ {0}) /\ Cardinality(T \ {0}) = Cardinality(T) - 1 /\ Cardinality(T) \in Nat
  BY <1>1, <1>2, FS_RemoveElement, FS_CardinalityType
<1>4. f \in Injection(T, T \ {0})
  <2>1. \A i \in T : i + 1 \in T \ {0}
    OBVIOUS
  <2>2. f \in [T -> T \ {0}]
    BY <2>1
  <2>3. \A a, b \in T : f[a] = f[b] => a = b
    OBVIOUS
  <2> QED BY <2>2, <2>3 DEF Injection, IsInjective
<1> HIDE DEF T, f
<1>5. Cardinality(T) <= Cardinality(T \ {0})
  BY <1>1, <1>3, <1>4, FS_Injection
<1> QED BY <1>3, <1>5

\* f gives the states after the first k events of h.
IsReplay(f, h, k) ==
  f = [n \in 0 .. k |-> IF n = 0 THEN NewMutableState ELSE Apply(f[n - 1], h[n])]

LEMMA ReplayExists ==
  ASSUME NEW h PROVE \A k \in Nat : \E f : IsReplay(f, h, k)
<1> DEFINE S == {k \in Nat : \E f : IsReplay(f, h, k)}
<1>1. 0 \in S
  <2>1. IsReplay([n \in 0 .. 0 |-> NewMutableState], h, 0)
    BY DEF IsReplay
  <2> QED BY <2>1
<1>2. ASSUME NEW k \in S PROVE k + 1 \in S
  <2>1. PICK f : IsReplay(f, h, k)
    OBVIOUS
  <2> DEFINE g == [n \in 0 .. k + 1 |-> IF n <= k THEN f[n] ELSE Apply(f[k], h[k + 1])]
  <2>2. ASSUME NEW n \in 0 .. k + 1
        PROVE  g[n] = IF n = 0 THEN NewMutableState ELSE Apply(g[n - 1], h[n])
    <3>1. CASE n = 0
      BY <2>1, <3>1 DEF IsReplay
    <3>2. CASE n \in 1 .. k
      <4>1. f[n] = Apply(f[n - 1], h[n])
        BY <2>1, <3>2 DEF IsReplay
      <4> QED BY <4>1, <3>2
    <3>3. CASE n = k + 1
      BY <3>3
    <3> QED BY <3>1, <3>2, <3>3
  <2>3. g = [n \in 0 .. k + 1 |-> IF n = 0 THEN NewMutableState ELSE Apply(g[n - 1], h[n])]
    BY <2>2
  <2>4. IsReplay(g, h, k + 1)
    BY <2>3 DEF IsReplay
  <2> QED BY <2>4
<1>3. S = Nat
  <2> HIDE DEF S
  <2> QED BY <1>1, <1>2, Induction DEF S
<1> QED BY <1>3

LEMMA ReplayAt ==
  ASSUME NEW f, NEW h, NEW k \in Nat, IsReplay(f, h, k)
  PROVE  f[0] = NewMutableState /\ \A n \in 1 .. k : f[n] = Apply(f[n - 1], h[n])
<1>1. \A n \in 0 .. k : f[n] = IF n = 0 THEN NewMutableState ELSE Apply(f[n - 1], h[n])
  BY DEF IsReplay
<1> QED BY <1>1

LEMMA ReplayUnique ==
  ASSUME NEW f, NEW g, NEW h, NEW k \in Nat, IsReplay(f, h, k), IsReplay(g, h, k)
  PROVE  f[k] = g[k]
<1> DEFINE S == {n \in Nat : n <= k => f[n] = g[n]}
<1>1. f[0] = NewMutableState /\ \A n \in 1 .. k : f[n] = Apply(f[n - 1], h[n])
  BY ReplayAt
<1>2. g[0] = NewMutableState /\ \A n \in 1 .. k : g[n] = Apply(g[n - 1], h[n])
  BY ReplayAt
<1>3. 0 \in S
  BY <1>1, <1>2
<1>4. ASSUME NEW n \in S PROVE n + 1 \in S
  <2> SUFFICES ASSUME n + 1 <= k PROVE f[n + 1] = g[n + 1]
    OBVIOUS
  <2>1. n + 1 \in 1 .. k /\ (n + 1) - 1 = n /\ f[n] = g[n]
    OBVIOUS
  <2> QED BY <1>1, <1>2, <2>1
<1>5. S = Nat
  <2> HIDE DEF S
  <2> QED BY <1>3, <1>4, Induction DEF S
<1> QED BY <1>5

LEMMA FromLogIs ==
  ASSUME NEW S, NEW h \in Seq(S), WellFormed(h)
  PROVE  \E f : IsReplay(f, h, Len(h)) /\ FromLog(h) = f[Len(h)]
<1>1. \E f : IsReplay(f, h, Len(h))
  BY ReplayExists
<1> QED BY <1>1 DEF FromLog, IsReplay

\* FromLog of an empty log, and of a log with one more event.
LEMMA FromLogEmpty == FromLog(<<>>) = NewMutableState
<1>1. <<>> \in Seq(Nat) /\ Len(<<>>) = 0 /\ WellFormed(<<>>)
  BY DEF WellFormed
<1>2. PICK f : IsReplay(f, <<>>, 0) /\ FromLog(<<>>) = f[0]
  BY <1>1, FromLogIs
<1>3. f = [n \in 0 .. 0 |-> IF n = 0 THEN NewMutableState ELSE Apply(f[n - 1], <<>>[n])]
  BY <1>2 DEF IsReplay
<1> QED BY <1>2, <1>3

LEMMA FromLogAppend ==
  ASSUME NEW S, NEW h \in Seq(S), NEW e \in S, WellFormed(h), WellFormed(Append(h, e))
  PROVE  FromLog(Append(h, e)) = Apply(FromLog(h), e)
<1> DEFINE g == Append(h, e)
           k == Len(h)
<1>1. /\ g \in Seq(S) /\ Len(g) = k + 1 /\ k \in Nat /\ g[k + 1] = e
      /\ \A i \in 1 .. k : g[i] = h[i]
  OBVIOUS
<1> HIDE DEF g
<1>2. PICK p : IsReplay(p, h, k) /\ FromLog(h) = p[k]
  BY FromLogIs
<1>3. PICK q : IsReplay(q, g, k + 1) /\ FromLog(g) = q[k + 1]
  BY <1>1, FromLogIs DEF g
<1>4. p[0] = NewMutableState /\ \A n \in 1 .. k : p[n] = Apply(p[n - 1], h[n])
  BY <1>1, <1>2, ReplayAt
<1>5. q[0] = NewMutableState /\ \A n \in 1 .. k + 1 : q[n] = Apply(q[n - 1], g[n])
  <2>1. k + 1 \in Nat
    BY <1>1
  <2> HIDE DEF k
  <2> QED BY <1>3, <2>1, ReplayAt
<1> DEFINE T == {n \in Nat : n <= k => p[n] = q[n]}
<1>6. T = Nat
  <2>1. 0 \in T
    BY <1>4, <1>5
  <2>2. ASSUME NEW n \in T PROVE n + 1 \in T
    <3> SUFFICES ASSUME n + 1 <= k PROVE p[n + 1] = q[n + 1]
      OBVIOUS
    <3>1. n + 1 \in 1 .. k /\ n + 1 \in 1 .. k + 1 /\ (n + 1) - 1 = n /\ p[n] = q[n]
      BY <1>1
    <3>2. p[n + 1] = Apply(p[n], h[n + 1]) /\ q[n + 1] = Apply(q[n], g[n + 1])
      BY <1>4, <1>5, <3>1
    <3> QED BY <1>1, <3>1, <3>2
  <2> HIDE DEF T
  <2> QED BY <2>1, <2>2, Induction DEF T
<1>7. p[k] = q[k]
  BY <1>1, <1>6
<1>8. q[k + 1] = Apply(q[k], e)
  <2>1. k + 1 \in 1 .. k + 1 /\ (k + 1) - 1 = k
    BY <1>1
  <2> QED BY <1>1, <1>5, <2>1
<1> QED BY <1>2, <1>3, <1>7, <1>8 DEF g

-------------------------------------------------------------------------------
\* What an event does to each part of a state.

Resolving == {"ActCompleted", "ActFailed", "ActTimedOut", "ActCanceled"}
TaskEnding == {"TaskCompleted", "TaskFailed", "TaskTimedOut"}

TaskAfter(ms, e, n) ==
  IF e.type \in ClosedTypes \cup TaskEnding THEN NoTask
  ELSE IF e.type = "TaskScheduled" THEN [NoTask EXCEPT !.sched = n]
  ELSE IF e.type = "TaskStarted"
    THEN [ms.wt EXCEPT !.started = n, !.who = e.id, !.deadline = e.time + TaskTimeout]
  ELSE ms.wt

ActsAfter(ms, e, n) ==
  IF e.type \in ClosedTypes THEN NoEntry
  ELSE IF e.type = "ActScheduled" THEN Put1(ms.acts, n, NewActivity(e))
  ELSE IF e.type = "ActStarted"
    THEN [ms.acts EXCEPT ![e.ref] = StartedActivity(ms.acts[e.ref], e, n)]
  ELSE IF e.type = "ActCancelRequested" THEN [ms.acts EXCEPT ![e.ref].cancel = TRUE]
  ELSE IF e.type \in Resolving THEN Remove1(ms.acts, e.ref)
  ELSE ms.acts

TimersAfter(ms, e, n) ==
  IF e.type \in ClosedTypes THEN NoEntry
  ELSE IF e.type = "TimerStarted"
    THEN Put1(ms.timers, n, [id |-> e.id, at |-> e.time + TimerDelay])
  ELSE IF e.type \in {"TimerFired", "TimerCanceled"} THEN Remove1(ms.timers, e.ref)
  ELSE ms.timers

LEMMA Settings ==
  ASSUME opt \in Options
  PROVE  /\ {TaskTimeout, TimerDelay, Backoff, MaxTime} \subseteq Nat \ {0}
         /\ {RunTimeout, ScheduleToStart, StartToClose, ScheduleToClose, HeartbeatTimeout,
             MaxAttempts, Redispatch, MaxCommands, MaxLost, MaxFaults} \subseteq Nat
BY OptionsAssumption DEF TaskTimeout, TimerDelay, Backoff, MaxTime, RunTimeout, ScheduleToStart,
   StartToClose, ScheduleToClose, HeartbeatTimeout, MaxAttempts, Redispatch, MaxCommands, MaxLost,
   MaxFaults

LEMMA DeadlineNat ==
  ASSUME NEW t \in Nat, NEW d \in Nat PROVE Deadline(t, d) \in Nat
BY DEF Deadline

LEMMA NoTaskFields == NoTask.sched = 0 /\ NoTask.started = 0
BY DEF NoTask

LEMMA FreshTask ==
  ASSUME NEW n PROVE LET wt == [NoTask EXCEPT !.sched = n] IN wt.sched = n /\ wt.started = 0
BY DEF NoTask

LEMMA TaskAfterType ==
  ASSUME opt \in Options, NEW ms \in MutableStates, NEW e \in Events, NEW n \in Nat
  PROVE  TaskAfter(ms, e, n) \in TaskStates
<1>1. ms.wt \in TaskStates /\ e.id \in Ids /\ e.time \in Nat
  BY DEF MutableStates, Events
<1>2. e.time + TaskTimeout \in Nat
  BY <1>1, Settings
<1>3. NoTask \in TaskStates
  BY DEF NoTask, TaskStates, Ids
<1>4. [NoTask EXCEPT !.sched = n] \in TaskStates
  BY <1>3 DEF TaskStates
<1>5. [ms.wt EXCEPT !.started = n, !.who = e.id, !.deadline = e.time + TaskTimeout] \in TaskStates
  BY <1>1, <1>2 DEF TaskStates
<1> QED BY <1>1, <1>3, <1>4, <1>5 DEF TaskAfter

LEMMA ActsAfterType ==
  ASSUME opt \in Options, NEW ms \in MutableStates, NEW e \in Events, NEW n \in Nat,
         Applicable(ms, e)
  PROVE  ActsAfter(ms, e, n) \in Pending(ActStates)
<1>1. ms.acts \in Pending(ActStates) /\ e.id \in Ids /\ e.time \in Nat /\ e.ref \in Nat /\ e.n \in Nat
  BY DEF MutableStates, Events
<1>2. ms.acts \in [DOMAIN ms.acts -> ActStates]
  BY <1>1, PendingIs
<1>3. NoEntry \in Pending(ActStates)
  BY PendingIs DEF NoEntry
<1>4. NewActivity(e) \in ActStates
  BY <1>1, Settings, DeadlineNat DEF NewActivity, ActStates
<1>5. ASSUME e.ref \in DOMAIN ms.acts
      PROVE  /\ StartedActivity(ms.acts[e.ref], e, n) \in ActStates
             /\ [ms.acts[e.ref] EXCEPT !.cancel = TRUE] \in ActStates
  <2>1. ms.acts[e.ref] \in ActStates
    BY <1>2, <1>5
  <2>2. e.time + StartToClose \in Nat /\ e.time + HeartbeatTimeout \in Nat
    BY <1>1, Settings
  <2> QED BY <1>1, <2>1, <2>2 DEF StartedActivity, ActStates
<1>6. CASE e.type \in ClosedTypes
  BY <1>3, <1>6 DEF ActsAfter
<1>7. CASE e.type = "ActScheduled"
  BY <1>1, <1>4, <1>7, PendingKept DEF ActsAfter, ClosedTypes
<1>8. CASE e.type = "ActStarted"
  <2>1. e.ref \in DOMAIN ms.acts
    BY <1>8 DEF Applicable
  <2> QED BY <1>1, <1>5, <1>8, <2>1, PendingKept DEF ActsAfter, ClosedTypes
<1>9. CASE e.type = "ActCancelRequested"
  <2>1. e.ref \in DOMAIN ms.acts
    BY <1>9 DEF Applicable
  <2> QED BY <1>1, <1>5, <1>9, <2>1, PendingKept DEF ActsAfter, ClosedTypes
<1>10. CASE e.type \in Resolving
  BY <1>1, <1>4, <1>10, PendingKept DEF ActsAfter, ClosedTypes, Resolving
<1> QED BY <1>1, <1>6, <1>7, <1>8, <1>9, <1>10 DEF ActsAfter

LEMMA TimersAfterType ==
  ASSUME opt \in Options, NEW ms \in MutableStates, NEW e \in Events, NEW n \in Nat
  PROVE  TimersAfter(ms, e, n) \in Pending(TimerStates)
<1> DEFINE v == [id |-> e.id, at |-> e.time + TimerDelay]
<1>1. ms.timers \in Pending(TimerStates) /\ e.id \in Ids /\ e.time \in Nat /\ e.ref \in Nat
  BY DEF MutableStates, Events
<1>2. NoEntry \in Pending(TimerStates)
  BY PendingIs DEF NoEntry
<1>3. v \in TimerStates
  BY <1>1, Settings DEF TimerStates
<1>4. Put1(ms.timers, n, v) \in Pending(TimerStates) /\ Remove1(ms.timers, e.ref) \in Pending(TimerStates)
  <2> HIDE DEF v
  <2> QED BY <1>1, <1>3, PendingKept
<1> QED BY <1>1, <1>2, <1>4 DEF TimersAfter

\* m is ms after event e, which is number n.
Applied(m, ms, e, n) ==
  /\ m \in MutableStates /\ m.ok /\ n \in Nat /\ n = Len(ms.events) + 1
  /\ m.events = Append(ms.events, e)
  /\ m.status = IF e.type \in ClosedTypes THEN e.type ELSE ms.status
  /\ m.wt = TaskAfter(ms, e, n)
  /\ m.acts = ActsAfter(ms, e, n)
  /\ m.timers = TimersAfter(ms, e, n)
  /\ m.runDl = IF e.type = "Started" THEN Deadline(e.time, RunTimeout) ELSE ms.runDl
  /\ m.cancel = IF e.type = "CancelRequested" THEN TRUE ELSE ms.cancel

LEMMA ApplyFields ==
  ASSUME opt \in Options, NEW ms \in MutableStates, NEW e \in Events, ms.ok, Applicable(ms, e)
  PROVE  Applied(Apply(ms, e), ms, e, Len(ms.events) + 1)
<1> DEFINE n == Len(ms.events) + 1
           c == Changed(ms, e, n)
           m == Apply(ms, e)
<1>1. ms.events \in Seq(Events) /\ n \in Nat
  BY DEF MutableStates
<1>2. m = [c EXCEPT !.events = Append(@, e)]
  BY DEF Apply, NextEventID
<1>3. /\ DOMAIN c = DOMAIN ms /\ c.ok = ms.ok /\ c.events = ms.events
      /\ c.status = IF e.type \in ClosedTypes THEN e.type ELSE ms.status
      /\ c.wt = TaskAfter(ms, e, n)
      /\ c.acts = ActsAfter(ms, e, n)
      /\ c.timers = TimersAfter(ms, e, n)
      /\ c.runDl = IF e.type = "Started" THEN Deadline(e.time, RunTimeout) ELSE ms.runDl
      /\ c.cancel = IF e.type = "CancelRequested" THEN TRUE ELSE ms.cancel
  <2> DEFINE Said(d) ==
        /\ DOMAIN d = DOMAIN ms /\ d.ok = ms.ok /\ d.events = ms.events
        /\ d.status = IF e.type \in ClosedTypes THEN e.type ELSE ms.status
        /\ d.wt = TaskAfter(ms, e, n)
        /\ d.acts = ActsAfter(ms, e, n)
        /\ d.timers = TimersAfter(ms, e, n)
        /\ d.runDl = IF e.type = "Started" THEN Deadline(e.time, RunTimeout) ELSE ms.runDl
        /\ d.cancel = IF e.type = "CancelRequested" THEN TRUE ELSE ms.cancel
  <2> SUFFICES Said(c)
    OBVIOUS
  <2> USE DEF TaskAfter, ActsAfter, TimersAfter, ClosedTypes, TaskEnding, Resolving
  <2>0. ms \in MutableStates
    OBVIOUS
  <2>1. CASE e.type \in ClosedTypes
    BY <2>0, <2>1 DEF Changed, MutableStates, Close
  <2>2. CASE e.type = "Started"
    BY <2>0, <2>2 DEF Changed, MutableStates
  <2>3. CASE e.type = "TaskScheduled"
    BY <2>0, <2>3 DEF Changed, MutableStates
  <2>4. CASE e.type = "TaskStarted"
    BY <2>0, <2>4 DEF Changed, MutableStates
  <2>5. CASE e.type \in TaskEnding
    BY <2>0, <2>5 DEF Changed, MutableStates
  <2>6. CASE e.type = "ActScheduled"
    BY <2>0, <2>6 DEF Changed, MutableStates
  <2>7. CASE e.type = "ActStarted"
    BY <2>0, <2>7 DEF Changed, MutableStates
  <2>8. CASE e.type \in Resolving
    BY <2>0, <2>8 DEF Changed, MutableStates
  <2>9. CASE e.type = "ActCancelRequested"
    BY <2>0, <2>9 DEF Changed, MutableStates
  <2>10. CASE e.type = "TimerStarted"
    BY <2>0, <2>10 DEF Changed, MutableStates
  <2>11. CASE e.type \in {"TimerFired", "TimerCanceled"}
    BY <2>0, <2>11 DEF Changed, MutableStates
  <2>12. CASE e.type = "CancelRequested"
    BY <2>0, <2>12 DEF Changed, MutableStates
  <2>13. CASE e.type \in {"Marker", "Signaled"}
    BY <2>0, <2>13 DEF Changed, MutableStates
  <2> QED BY <2>1, <2>2, <2>3, <2>4, <2>5, <2>6, <2>7, <2>8, <2>9, <2>10, <2>11, <2>12, <2>13 DEF Events, EventTypes
<1>4. m.events = Append(ms.events, e) /\ m.events \in Seq(Events) /\ DOMAIN m = DOMAIN ms
  BY <1>1, <1>2, <1>3 DEF MutableStates
<1>5. /\ m.ok = c.ok /\ m.status = c.status /\ m.wt = c.wt /\ m.acts = c.acts
      /\ m.timers = c.timers /\ m.runDl = c.runDl /\ m.cancel = c.cancel
  BY <1>2, <1>3 DEF MutableStates
<1>6. /\ TaskAfter(ms, e, n) \in TaskStates /\ ActsAfter(ms, e, n) \in Pending(ActStates)
      /\ TimersAfter(ms, e, n) \in Pending(TimerStates)
  BY <1>1, TaskAfterType, ActsAfterType, TimersAfterType
<1>7. Deadline(e.time, RunTimeout) \in Nat
  BY Settings, DeadlineNat DEF Events
<1> HIDE DEF m, c, n
<1>8. m \in MutableStates
  <2>1. DOMAIN m = {"ok", "status", "events", "wt", "acts", "timers", "cancel", "runDl"}
    BY <1>4 DEF MutableStates
  <2>2. /\ m.ok \in BOOLEAN /\ m.status \in {"Running"} \cup ClosedTypes /\ m.cancel \in BOOLEAN
        /\ m.runDl \in Nat
    BY <1>3, <1>5, <1>7 DEF MutableStates
  <2> QED BY <1>2, <1>3, <1>4, <1>5, <1>6, <2>1, <2>2 DEF MutableStates
<1> QED BY <1>1, <1>3, <1>4, <1>5, <1>8 DEF Applied, m, n

\* An event that does not apply, or comes after a rejected one, is rejected.
LEMMA Rejects == ASSUME NEW ms \in MutableStates PROVE Reject(ms).ok = FALSE
BY DEF Reject, MutableStates

LEMMA ApplyRejects ==
  ASSUME NEW ms \in MutableStates, NEW e, Apply(ms, e).ok
  PROVE  ms.ok /\ Applicable(ms, e)
BY Rejects DEF Apply

-------------------------------------------------------------------------------
\* States that a replay cannot tell apart: they differ in what retries and heartbeats
\* have done without an event.

SameActs(f, g) ==
  /\ DOMAIN f = DOMAIN g
  /\ \A a \in DOMAIN f : /\ f[a].id = g[a].id /\ f[a].started = g[a].started
                         /\ f[a].closeDl = g[a].closeDl /\ f[a].cancel = g[a].cancel

Alike(a, b) ==
  /\ a.status = b.status /\ a.events = b.events /\ a.wt = b.wt /\ a.timers = b.timers
  /\ a.cancel = b.cancel /\ a.runDl = b.runDl
  /\ SameActs(a.acts, b.acts)

LEMMA AlikeIsDurable ==
  ASSUME NEW a, NEW b, Alike(a, b) PROVE Durable(a) = Durable(b)
BY DEF Alike, SameActs, Durable

LEMMA AlikeOrder ==
  ASSUME NEW a, NEW b, NEW c, Alike(a, b)
  PROVE  Alike(a, a) /\ Alike(b, a) /\ (Alike(b, c) => Alike(a, c))
BY DEF Alike, SameActs

LEMMA ActsAlike ==
  ASSUME opt \in Options, NEW a \in MutableStates, NEW b \in MutableStates, Alike(a, b),
         NEW e \in Events, NEW n \in Nat, Applicable(a, e)
  PROVE  SameActs(ActsAfter(a, e, n), ActsAfter(b, e, n))
<1>1. SameActs(a.acts, b.acts)
  BY DEF Alike
<1>2. /\ a.acts \in [DOMAIN a.acts -> ActStates] /\ b.acts \in [DOMAIN b.acts -> ActStates]
  BY PendingIs DEF MutableStates
<1>3. CASE e.type \in ClosedTypes
  BY <1>3 DEF ActsAfter, SameActs
<1>4. CASE e.type = "ActScheduled"
  BY <1>1, <1>4 DEF ActsAfter, SameActs, Put1, ClosedTypes
<1>5. CASE e.type = "ActStarted"
  <2>1. e.ref \in DOMAIN a.acts /\ e.ref \in DOMAIN b.acts
    BY <1>1, <1>5 DEF Applicable, SameActs
  <2> DEFINE x == StartedActivity(a.acts[e.ref], e, n)
             y == StartedActivity(b.acts[e.ref], e, n)
  <2>2. x.id = y.id /\ x.started = y.started /\ x.closeDl = y.closeDl /\ x.cancel = y.cancel
    BY <1>1, <1>2, <2>1 DEF StartedActivity, ActStates, SameActs
  <2>3. ActsAfter(a, e, n) = [a.acts EXCEPT ![e.ref] = x] /\ ActsAfter(b, e, n) = [b.acts EXCEPT ![e.ref] = y]
    BY <1>5 DEF ActsAfter, ClosedTypes
  <2> HIDE DEF x, y
  <2> QED BY <1>1, <2>1, <2>2, <2>3 DEF SameActs
<1>6. CASE e.type = "ActCancelRequested"
  <2>1. e.ref \in DOMAIN a.acts /\ e.ref \in DOMAIN b.acts
    BY <1>1, <1>6 DEF Applicable, SameActs
  <2> DEFINE x == [a.acts[e.ref] EXCEPT !.cancel = TRUE]
             y == [b.acts[e.ref] EXCEPT !.cancel = TRUE]
  <2>2. x.id = y.id /\ x.started = y.started /\ x.closeDl = y.closeDl /\ x.cancel = y.cancel
    BY <1>1, <1>2, <2>1 DEF ActStates, SameActs
  <2>3. ActsAfter(a, e, n) = [a.acts EXCEPT ![e.ref] = x] /\ ActsAfter(b, e, n) = [b.acts EXCEPT ![e.ref] = y]
    BY <1>6 DEF ActsAfter, ClosedTypes
  <2> HIDE DEF x, y
  <2> QED BY <1>1, <2>1, <2>2, <2>3 DEF SameActs
<1>7. CASE e.type \in Resolving
  BY <1>1, <1>7 DEF ActsAfter, SameActs, Remove1, ClosedTypes, Resolving
<1> QED BY <1>1, <1>3, <1>4, <1>5, <1>6, <1>7 DEF ActsAfter, Resolving

\* An event does the same to both.
LEMMA ApplyAlike ==
  ASSUME opt \in Options, NEW a \in MutableStates, NEW b \in MutableStates, Alike(a, b),
         a.ok, b.ok, NEW e \in Events, Applicable(a, e)
  PROVE  /\ Applicable(b, e)
         /\ Alike(Apply(a, e), Apply(b, e))
<1>1. Applicable(b, e)
  BY DEF Applicable, Alike, SameActs, Scheduled, Started
<1> DEFINE x == Apply(a, e)
           y == Apply(b, e)
           n == Len(a.events) + 1
<1>2. Applied(x, a, e, n) /\ Applied(y, b, e, n)
  <2>1. a.events = b.events
    BY DEF Alike
  <2> QED BY <1>1, <2>1, ApplyFields
<1> HIDE DEF x, y, n
<1>3. SameActs(x.acts, y.acts)
  BY <1>2, ActsAlike DEF Applied
<1>4. x.wt = y.wt /\ x.timers = y.timers
  BY <1>2 DEF TaskAfter, TimersAfter, Alike, Applied
<1>5. x.events = y.events /\ x.status = y.status /\ x.runDl = y.runDl /\ x.cancel = y.cancel
  BY <1>2 DEF Alike, Applied
<1> QED BY <1>1, <1>3, <1>4, <1>5 DEF Alike, x, y

-------------------------------------------------------------------------------
\* What is true of a state and its log at instant t.

At(h, i, type) == i \in DOMAIN h /\ h[i].type = type

\* No task was started after event i.
LastStart(h, i) == \A j \in DOMAIN h : h[j].type = "TaskStarted" => j <= i

TaskSound(ms) ==
  /\ ms.wt.sched # 0 => At(ms.events, ms.wt.sched, "TaskScheduled")
  /\ ms.wt.started # 0 => /\ At(ms.events, ms.wt.started, "TaskStarted")
                          /\ ms.wt.deadline = ms.events[ms.wt.started].time + TaskTimeout
                          /\ ms.wt.who = ms.events[ms.wt.started].id
                          /\ LastStart(ms.events, ms.wt.started)

ActsSound(ms) ==
  \A a \in DOMAIN ms.acts :
    /\ At(ms.events, a, "ActScheduled")
    /\ ms.acts[a].started # 0 => At(ms.events, ms.acts[a].started, "ActStarted")
    /\ \A i \in DOMAIN ms.events : ms.events[i].type \in Resolving => ms.events[i].ref # a

TimersSound(ms) ==
  \A k \in DOMAIN ms.timers :
    At(ms.events, k, "TimerStarted") /\ ms.timers[k].at = ms.events[k].time + TimerDelay

RunSound(ms, t) ==
  /\ ms.events # <<>> => ms.runDl = Deadline(ms.events[1].time, RunTimeout)
  /\ ~Terminal(ms) => \A i \in DOMAIN ms.events : ms.events[i].type \notin ClosedTypes
  /\ \A i \in DOMAIN ms.events : ms.events[i].time <= t

\* The properties of the log alone.

\* The owner a worker gives with its answer, or that was recorded, says nothing.
Unnamed(who) == who = ""

\* A task started at s can be answered in place of the one started at r.
Indistinct(h, s, r) ==
  /\ At(h, s, "TaskStarted") /\ At(h, r, "TaskStarted") /\ s <= r
  /\ s = r \/ h[s].id = h[r].id \/ Unnamed(h[s].id) \/ Unnamed(h[r].id)

Currently(h) == \A i \in DOMAIN h : h[i].type = "TaskCompleted" => Indistinct(h, h[i].seen, h[i].ref)

Timely(h) ==
  \A i \in DOMAIN h :
    /\ h[i].type = "TimerFired" => h[i].time >= h[h[i].ref].time + TimerDelay
    /\ h[i].type = "TaskTimedOut" => h[i].time >= h[h[i].ref].time + TaskTimeout
    /\ h[i].type = "TimedOut" => h[i].time >= h[1].time + RunTimeout

ResolvedOnce(h) ==
  \A i, j \in DOMAIN h :
    h[i].type \in Resolving /\ h[j].type \in Resolving /\ h[i].ref = h[j].ref => i = j

Replays(ms) ==
  LET r == FromLog(ms.events) IN r \in MutableStates /\ r.ok /\ Alike(r, ms)

Sound(ms, t) ==
  /\ ms \in MutableStates /\ ms.ok
  /\ WellFormed(ms.events)
  /\ Replays(ms)
  /\ TaskSound(ms)
  /\ ActsSound(ms)
  /\ TimersSound(ms)
  /\ RunSound(ms, t)
  /\ Currently(ms.events)
  /\ Timely(ms.events)
  /\ ResolvedOnce(ms.events)

\* What a transition knows about the event it appends.
Fits(ms, e, t) ==
  /\ e \in Events /\ e.time = t
  /\ e.type = "Started" <=> ms.events = <<>>
  /\ e.type = "TaskStarted" => e.ref = ms.wt.sched
  /\ e.type \in TaskEnding => e.ref = ms.wt.started
  /\ e.type = "TaskCompleted" => Indistinct(ms.events, e.seen, e.ref)
  /\ e.type = "TaskTimedOut" => t >= ms.wt.deadline
  /\ e.type = "TimerFired" => t >= ms.events[e.ref].time + TimerDelay
  /\ e.type = "TimedOut" => ms.runDl # 0 /\ t >= ms.runDl
  /\ e.type \in CommandTypes => At(ms.events, e.by, "TaskCompleted")
  /\ e.type = "ActCompleted" => e.start # 0 /\ e.start = ms.acts[e.ref].started

\* The log with one more event.
LEMMA OneMore ==
  ASSUME NEW S, NEW h \in Seq(S), NEW e \in S
  PROVE  LET g == Append(h, e)
             n == Len(h) + 1
         IN /\ g \in Seq(S) /\ Len(g) = n /\ g # <<>>
            /\ n \in Nat /\ n > 0
            /\ DOMAIN h = 1 .. n - 1 /\ DOMAIN g = 1 .. n
            /\ \A i \in 1 .. n - 1 : g[i] = h[i]
            /\ g[n] = e
            /\ h = <<>> <=> n = 1
OBVIOUS

LEMMA EventTyped ==
  ASSUME NEW h \in Seq(Events), NEW i \in DOMAIN h
  PROVE  h[i] \in Events /\ h[i].time \in Nat /\ h[i].ref \in Nat
<1>1. h[i] \in Events
  OBVIOUS
<1> QED BY <1>1 DEF Events

\* The log still passes History.WellFormed.
LEMMA ValidateAppend ==
  ASSUME NEW ms, NEW t \in Nat \ {0}, Sound(ms, t), NEW e, Fits(ms, e, t), Applicable(ms, e),
         ~Terminal(ms)
  PROVE  WellFormed(Append(ms.events, e))
<1> DEFINE h == ms.events
           g == Append(h, e)
           n == Len(h) + 1
<1>1. h \in Seq(Events) /\ e \in Events /\ e.time = t
  BY DEF Sound, MutableStates, Fits
<1>2. /\ g \in Seq(Events) /\ Len(g) = n /\ g # <<>> /\ n \in Nat /\ n > 0
      /\ DOMAIN h = 1 .. n - 1 /\ DOMAIN g = 1 .. n
      /\ \A i \in 1 .. n - 1 : g[i] = h[i]
      /\ g[n] = e
      /\ h = <<>> <=> n = 1
  BY <1>1, OneMore
<1>3. /\ WellFormed(h) /\ TaskSound(ms) /\ ActsSound(ms) /\ TimersSound(ms)
      /\ \A i \in DOMAIN h : h[i].type \notin ClosedTypes
      /\ \A i \in DOMAIN h : h[i].time <= t /\ h[i].time \in Nat
  <2>1. \A i \in DOMAIN h : h[i].time \in Nat
    BY <1>1, EventTyped
  <2> QED BY <2>1 DEF Sound, RunSound
<1>4. RefType(e.type) # "none" => At(h, e.ref, RefType(e.type))
  <2>1. CASE e.type = "TaskStarted"
    BY <1>3, <2>1 DEF Fits, Applicable, Scheduled, TaskSound, RefType
  <2>2. CASE e.type \in TaskEnding
    BY <1>3, <2>2 DEF Fits, Applicable, Started, TaskSound, RefType, TaskEnding
  <2>3. CASE e.type \in Resolving \cup {"ActStarted", "ActCancelRequested"}
    BY <1>3, <2>3 DEF Fits, Applicable, ActsSound, RefType, Resolving
  <2>4. CASE e.type \in {"TimerFired", "TimerCanceled"}
    BY <1>3, <2>4 DEF Fits, Applicable, TimersSound, RefType
  <2> QED BY <2>1, <2>2, <2>3, <2>4 DEF RefType, TaskEnding, Resolving
<1>5. e.type \in CommandTypes => At(h, e.by, "TaskCompleted")
  BY DEF Fits
<1>6. e.type = "ActCompleted" => At(h, e.start, "ActStarted")
  BY <1>3 DEF Fits, Applicable, ActsSound
<1>7. e.type = "Started" <=> n = 1
  BY <1>2 DEF Fits
<1>8. ASSUME NEW i, NEW type, At(h, i, type) PROVE PointsTo(g, n, i, type)
  BY <1>2, <1>8 DEF At, PointsTo
<1>9. ASSUME NEW i \in 1 .. n - 1, NEW j, NEW type, PointsTo(h, i, j, type)
      PROVE  PointsTo(g, i, j, type)
  BY <1>2, <1>9 DEF PointsTo
<1> HIDE DEF g, n, h
<1>10. g[1].type = "Started"
  BY <1>2, <1>3, <1>7 DEF WellFormed
<1>11. ASSUME NEW i \in 1 .. n - 1
       PROVE  /\ g[i].time > 0
              /\ i > 1 => g[i].time >= g[i - 1].time /\ g[i].type # "Started"
              /\ g[i].type \in ClosedTypes => i = Len(g)
              /\ RefType(g[i].type) # "none" => PointsTo(g, i, g[i].ref, RefType(g[i].type))
              /\ g[i].type \in CommandTypes => PointsTo(g, i, g[i].by, "TaskCompleted")
              /\ g[i].type = "ActCompleted" => PointsTo(g, i, g[i].start, "ActStarted")
  <2>1. i \in DOMAIN h /\ h # <<>> /\ g[i] = h[i] /\ (i > 1 => g[i - 1] = h[i - 1])
    BY <1>2
  <2> QED BY <1>3, <1>9, <2>1 DEF WellFormed
<1>12. /\ g[n].time > 0
       /\ n > 1 => g[n].time >= g[n - 1].time /\ g[n].type # "Started"
       /\ g[n].type \in ClosedTypes => n = Len(g)
       /\ RefType(g[n].type) # "none" => PointsTo(g, n, g[n].ref, RefType(g[n].type))
       /\ g[n].type \in CommandTypes => PointsTo(g, n, g[n].by, "TaskCompleted")
       /\ g[n].type = "ActCompleted" => PointsTo(g, n, g[n].start, "ActStarted")
  <2>1. n > 1 => g[n - 1].time <= t
    BY <1>2, <1>3
  <2> QED BY <1>1, <1>2, <1>4, <1>5, <1>6, <1>7, <1>8, <2>1
<1>13. \A i \in DOMAIN g : i \in 1 .. n - 1 \/ i = n
  BY <1>2
<1> QED BY <1>10, <1>11, <1>12, <1>13 DEF WellFormed, g, h

\* An event that fits leaves a sound state.
LEMMA ApplySound ==
  ASSUME opt \in Options, NEW ms, NEW t \in Nat \ {0}, Sound(ms, t), NEW e, Fits(ms, e, t),
         Applicable(ms, e), ~Terminal(ms)
  PROVE  Sound(Apply(ms, e), t)
<1> DEFINE h == ms.events
           m == Apply(ms, e)
           g == m.events
           n == Len(h) + 1
<1>1. h \in Seq(Events) /\ e \in Events /\ e.time = t
  BY DEF Sound, MutableStates, Fits
<1>2. Applied(m, ms, e, n)
  BY ApplyFields DEF Sound, Fits
<1>3. /\ g \in Seq(Events) /\ Len(g) = n /\ g # <<>> /\ n \in Nat /\ n > 0
      /\ DOMAIN h = 1 .. n - 1 /\ DOMAIN g = 1 .. n
      /\ \A i \in 1 .. n - 1 : g[i] = h[i]
      /\ g[n] = e
      /\ h = <<>> <=> n = 1
  <2>1. g = Append(h, e)
    BY <1>2 DEF Applied
  <2> HIDE DEF g
  <2> QED BY <1>1, <2>1, OneMore
<1>4. WellFormed(g)
  BY <1>2, ValidateAppend DEF Applied
<1>5. Replays(m)
  <2> DEFINE r == FromLog(h)
  <2>1. r \in MutableStates /\ r.ok /\ Alike(r, ms) /\ Alike(ms, r) /\ WellFormed(h) /\ ms \in MutableStates /\ ms.ok
    BY AlikeOrder DEF Sound, Replays
  <2>2. FromLog(g) = Apply(r, e)
    BY <1>1, <1>2, <1>4, <2>1, FromLogAppend DEF Applied
  <2> HIDE DEF r
  <2>3. Applicable(r, e) /\ Alike(m, Apply(r, e))
    BY <1>1, <2>1, ApplyAlike
  <2>4. Applied(Apply(r, e), r, e, Len(r.events) + 1)
    BY <1>1, <2>1, <2>3, ApplyFields
  <2> QED BY <2>2, <2>3, <2>4, AlikeOrder DEF Replays, Applied
<1>6. ms.wt \in TaskStates /\ ms.acts \in [DOMAIN ms.acts -> ActStates] /\ DOMAIN ms.acts \subseteq Nat
  BY PendingIs DEF Sound, MutableStates
<1> HIDE DEF m, n
<1>7. ASSUME NEW i, NEW type, At(h, i, type) PROVE At(g, i, type) /\ g[i] = h[i]
  BY <1>3, <1>7 DEF At
<1>8. TaskSound(m)
  <2>0. TaskSound(ms)
    BY DEF Sound
  <2>1. CASE e.type \in ClosedTypes \cup TaskEnding
    <3>1. m.wt = NoTask
      BY <1>2, <2>1 DEF Applied, TaskAfter
    <3>2. m.wt.sched = 0 /\ m.wt.started = 0
      BY <3>1, NoTaskFields
    <3> QED BY <3>2 DEF TaskSound
  <2>2. CASE e.type = "TaskScheduled"
    <3>1. m.wt.sched = n /\ m.wt.started = 0
      BY <1>2, <2>2 DEF Applied, TaskAfter, NoTask, ClosedTypes, TaskEnding
    <3> QED BY <1>3, <2>2, <3>1 DEF TaskSound, At
  <2>3. CASE e.type = "TaskStarted"
    <3>1. /\ m.wt.sched = ms.wt.sched /\ m.wt.started = n /\ m.wt.deadline = e.time + TaskTimeout
          /\ m.wt.who = e.id
      BY <1>2, <1>6, <2>3 DEF Applied, TaskAfter, TaskStates, ClosedTypes, TaskEnding
    <3>2. At(g, n, "TaskStarted")
      BY <1>3, <2>3 DEF At
    <3>3. LastStart(g, n)
      BY <1>3 DEF LastStart
    <3> QED BY <1>3, <1>7, <2>0, <3>1, <3>2, <3>3 DEF TaskSound
  <2>4. CASE e.type \notin ClosedTypes \cup TaskEnding \cup {"TaskScheduled", "TaskStarted"}
    <3>1. m.wt = ms.wt
      BY <1>2, <2>4 DEF Applied, TaskAfter
    <3>2. LastStart(h, ms.wt.started) => LastStart(g, ms.wt.started)
      <4>1. \A i \in DOMAIN g : (i \in DOMAIN h /\ g[i] = h[i]) \/ g[i].type # "TaskStarted"
        BY <1>3, <2>4
      <4> QED BY <4>1 DEF LastStart
    <3> QED BY <1>7, <2>0, <3>1, <3>2 DEF TaskSound
  <2> QED BY <2>1, <2>2, <2>3, <2>4
<1>9. ActsSound(m)
  <2>0. ActsSound(ms) /\ m.acts = ActsAfter(ms, e, n)
    BY <1>2 DEF Sound, Applied
  <2> DEFINE Free(a) == \A i \in DOMAIN g : g[i].type \in Resolving => g[i].ref # a
             Good(a, act) == /\ At(g, a, "ActScheduled")
                             /\ act.started # 0 => At(g, act.started, "ActStarted")
                             /\ Free(a)
  <2>1. ASSUME NEW a \in DOMAIN ms.acts, ~(e.type \in Resolving /\ e.ref = a)
        PROVE  Good(a, ms.acts[a])
    <3>1. Free(a)
      BY <1>3, <2>0, <2>1 DEF ActsSound
    <3> QED BY <1>7, <2>0, <3>1 DEF ActsSound
  <2> SUFFICES ASSUME NEW a \in DOMAIN m.acts PROVE Good(a, m.acts[a])
    BY DEF ActsSound
  <2> HIDE DEF g
  <2>2. CASE e.type \in ClosedTypes
    BY <2>0, <2>2 DEF ActsAfter, NoEntry
  <2>3. CASE e.type = "ActScheduled"
    <3>1. m.acts = Put1(ms.acts, n, NewActivity(e))
      BY <2>0, <2>3 DEF ActsAfter, ClosedTypes
    <3>2. CASE a = n
      <4>1. m.acts[a].started = 0
        BY <3>1, <3>2 DEF Put1, NewActivity
      <4>2. Free(n)
        <5> SUFFICES ASSUME NEW i \in DOMAIN g, g[i].type \in Resolving, g[i].ref = n PROVE FALSE
          OBVIOUS
        <5>1. RefType(g[i].type) = "ActScheduled"
          BY DEF Resolving, RefType
        <5>2. PointsTo(g, i, g[i].ref, "ActScheduled")
          BY <1>3, <1>4, <5>1 DEF WellFormed, g
        <5> QED BY <1>3, <5>2 DEF PointsTo, g
      <4> QED BY <1>3, <2>3, <3>2, <4>1, <4>2 DEF At, g
    <3>3. CASE a # n
      <4>1. a \in DOMAIN ms.acts /\ m.acts[a] = ms.acts[a]
        BY <3>1, <3>3 DEF Put1
      <4> QED BY <2>1, <2>3, <4>1 DEF Resolving
    <3> QED BY <3>2, <3>3
  <2>4. CASE e.type = "ActStarted"
    <3>1. e.ref \in DOMAIN ms.acts
      BY <2>4 DEF Applicable
    <3>2. m.acts = [ms.acts EXCEPT ![e.ref] = StartedActivity(ms.acts[e.ref], e, n)]
      BY <2>0, <2>4 DEF ActsAfter, ClosedTypes
    <3>3. a \in DOMAIN ms.acts /\ Good(a, ms.acts[a])
      BY <2>1, <2>4, <3>2 DEF Resolving
    <3>4. CASE a = e.ref
      <4>1. m.acts[a].started = n
        <5>1. ms.acts[e.ref] \in ActStates /\ m.acts[a] = StartedActivity(ms.acts[e.ref], e, n)
          BY <1>6, <3>1, <3>2, <3>4
        <5> QED BY <5>1 DEF StartedActivity, ActStates
      <4> QED BY <1>3, <2>4, <3>3, <4>1 DEF At, g
    <3>5. CASE a # e.ref
      BY <3>2, <3>3, <3>5
    <3> QED BY <3>4, <3>5
  <2>5. CASE e.type = "ActCancelRequested"
    <3>1. e.ref \in DOMAIN ms.acts
      BY <2>5 DEF Applicable
    <3>2. m.acts = [ms.acts EXCEPT ![e.ref].cancel = TRUE]
      BY <2>0, <2>5 DEF ActsAfter, ClosedTypes
    <3>3. a \in DOMAIN ms.acts /\ Good(a, ms.acts[a])
      BY <2>1, <2>5, <3>2 DEF Resolving
    <3>4. m.acts[a].started = ms.acts[a].started
      BY <1>6, <3>1, <3>2, <3>3 DEF ActStates
    <3> QED BY <3>3, <3>4
  <2>6. CASE e.type \in Resolving
    <3>1. m.acts = Remove1(ms.acts, e.ref)
      BY <2>0, <2>6 DEF ActsAfter, ClosedTypes, Resolving
    <3>2. a \in DOMAIN ms.acts /\ a # e.ref /\ m.acts[a] = ms.acts[a]
      BY <3>1 DEF Remove1
    <3> QED BY <2>1, <3>2
  <2>7. CASE e.type \notin ClosedTypes \cup Resolving \cup {"ActScheduled", "ActStarted", "ActCancelRequested"}
    <3>1. m.acts = ms.acts
      BY <2>0, <2>7 DEF ActsAfter
    <3> QED BY <2>1, <2>7, <3>1
  <2> QED BY <2>2, <2>3, <2>4, <2>5, <2>6, <2>7
<1>10. TimersSound(m)
  <2>0. TimersSound(ms) /\ m.timers = TimersAfter(ms, e, n)
    BY <1>2 DEF Sound, Applied
  <2> SUFFICES ASSUME NEW k \in DOMAIN m.timers
               PROVE  At(g, k, "TimerStarted") /\ m.timers[k].at = g[k].time + TimerDelay
    BY DEF TimersSound
  <2>1. CASE k \in DOMAIN ms.timers /\ m.timers[k] = ms.timers[k]
    BY <1>7, <2>0, <2>1 DEF TimersSound
  <2>2. CASE e.type = "TimerStarted" /\ k = n
    <3>1. m.timers[k].at = e.time + TimerDelay
      BY <2>0, <2>2 DEF TimersAfter, Put1, ClosedTypes
    <3> QED BY <1>3, <2>2, <3>1 DEF At
  <2> QED BY <2>0, <2>1, <2>2 DEF TimersAfter, Put1, Remove1, NoEntry
<1>11. RunSound(m, t)
  <2>0. RunSound(ms, t)
    BY DEF Sound
  <2>1. m.runDl = Deadline(g[1].time, RunTimeout)
    <3>1. CASE n = 1
      BY <1>2, <1>3, <3>1 DEF Fits, Applied
    <3>2. CASE n # 1
      BY <1>2, <1>3, <2>0, <3>2 DEF Fits, Applied, RunSound
    <3> QED BY <3>1, <3>2
  <2>2. \A i \in DOMAIN g : g[i].time <= t
    <3>1. \A i \in DOMAIN g : i \in DOMAIN h \/ i = n
      BY <1>3
    <3>2. \A i \in DOMAIN h : g[i].time <= t
      BY <1>3, <2>0 DEF RunSound
    <3>3. g[n].time <= t
      BY <1>1, <1>3
    <3> QED BY <3>1, <3>2, <3>3
  <2>3. ~Terminal(m) => \A i \in DOMAIN g : g[i].type \notin ClosedTypes
    <3>1. ~Terminal(m) => e.type \notin ClosedTypes
      BY <1>2 DEF Applied, Terminal, ClosedTypes
    <3>2. \A i \in DOMAIN g : i \in DOMAIN h \/ i = n
      BY <1>3
    <3> QED BY <1>3, <2>0, <3>1, <3>2 DEF RunSound
  <2> QED BY <2>1, <2>2, <2>3 DEF RunSound
<1>12. Currently(g)
  <2>1. \A i \in DOMAIN g : i \in DOMAIN h \/ i = n
    BY <1>3
  <2>2. ASSUME NEW s, NEW r, Indistinct(h, s, r) PROVE Indistinct(g, s, r)
    BY <1>7, <2>2 DEF Indistinct
  <2>3. Currently(h) /\ (e.type = "TaskCompleted" => Indistinct(h, e.seen, e.ref))
    BY DEF Sound, Fits
  <2> QED BY <1>3, <2>1, <2>2, <2>3 DEF Currently
<1>13. Timely(g)
  <2>0. \A i \in DOMAIN g : i \in DOMAIN h \/ i = n
    BY <1>3
  <2> DEFINE Good(i) ==
        /\ g[i].type = "TimerFired" => g[i].time >= g[g[i].ref].time + TimerDelay
        /\ g[i].type = "TaskTimedOut" => g[i].time >= g[g[i].ref].time + TaskTimeout
        /\ g[i].type = "TimedOut" => g[i].time >= g[1].time + RunTimeout
  <2>1. ASSUME NEW i \in DOMAIN h PROVE Good(i)
    <3>1. g[i] = h[i] /\ g[1] = h[1]
      BY <1>3
    <3>2. h[i].type \in {"TimerFired", "TaskTimedOut"} => h[i].ref \in 1 .. (i - 1)
      <4>1. h[i].type \in {"TimerFired", "TaskTimedOut"} => RefType(h[i].type) # "none"
        BY DEF RefType
      <4> QED BY <4>1, <1>3 DEF Sound, WellFormed, PointsTo
    <3>3. h[i].type \in {"TimerFired", "TaskTimedOut"} => g[h[i].ref] = h[h[i].ref]
      BY <1>3, <3>2
    <3> QED BY <3>1, <3>3 DEF Sound, Timely
  <2>2. Good(n)
    <3>1. CASE e.type = "TimerFired"
      <4>1. At(h, e.ref, "TimerStarted")
        BY <3>1 DEF Applicable, Sound, TimersSound
      <4> QED BY <1>1, <1>3, <1>7, <3>1, <4>1 DEF Fits
    <3>2. CASE e.type = "TaskTimedOut"
      <4>1. At(h, ms.wt.started, "TaskStarted") /\ ms.wt.deadline = h[ms.wt.started].time + TaskTimeout
        BY <3>2 DEF Applicable, Sound, TaskSound, Started
      <4>2. g[ms.wt.started] = h[ms.wt.started]
        BY <1>7, <4>1
      <4> QED BY <1>1, <1>3, <3>2, <4>1, <4>2 DEF Fits, TaskEnding
    <3>3. CASE e.type = "TimedOut"
      <4>1. h # <<>> /\ t >= ms.runDl /\ ms.runDl # 0
        BY <3>3 DEF Fits
      <4>2. ms.runDl = Deadline(h[1].time, RunTimeout)
        BY <4>1 DEF Sound, RunSound
      <4>3. ms.runDl = h[1].time + RunTimeout /\ g[1] = h[1]
        BY <1>3, <4>1, <4>2 DEF Deadline
      <4> QED BY <1>1, <1>3, <3>3, <4>1, <4>3
    <3> QED BY <1>3, <3>1, <3>2, <3>3
  <2> QED BY <2>0, <2>1, <2>2 DEF Timely
<1>14. ResolvedOnce(g)
  <2>0. \A i \in DOMAIN g : i \in DOMAIN h \/ i = n
    BY <1>3
  <2>1. ResolvedOnce(h)
    BY DEF Sound
  <2>2. e.type \in Resolving => \A i \in DOMAIN h : h[i].type \in Resolving => h[i].ref # e.ref
    BY DEF Applicable, Sound, ActsSound, Resolving
  <2> QED BY <1>3, <2>0, <2>1, <2>2 DEF ResolvedOnce
<1> QED BY <1>2, <1>4, <1>5, <1>8, <1>9, <1>10, <1>11, <1>12, <1>13, <1>14 DEF Sound, Applied, m

-------------------------------------------------------------------------------
\* Sound states.

\* What a retry or a heartbeat changes without an event does not matter.
LEMMA SoundAlike ==
  ASSUME NEW ms, NEW t, Sound(ms, t), NEW m \in MutableStates, m.ok, Alike(ms, m)
  PROVE  Sound(m, t)
<1>1. /\ m.status = ms.status /\ m.events = ms.events /\ m.wt = ms.wt /\ m.timers = ms.timers
      /\ m.runDl = ms.runDl /\ SameActs(ms.acts, m.acts)
  BY DEF Alike
<1>2. Replays(m)
  <2> DEFINE r == FromLog(ms.events)
  <2>1. r \in MutableStates /\ r.ok /\ Alike(r, ms)
    BY DEF Sound, Replays
  <2> HIDE DEF r
  <2>2. Alike(r, m)
    BY <2>1, AlikeOrder
  <2> QED BY <1>1, <2>1, <2>2 DEF Replays, r
<1>3. ActsSound(m)
  BY <1>1 DEF Sound, ActsSound, SameActs
<1>4. TaskSound(m) /\ TimersSound(m) /\ RunSound(m, t)
  BY <1>1 DEF Sound, TaskSound, TimersSound, RunSound, Terminal
<1> QED BY <1>1, <1>2, <1>3, <1>4 DEF Sound

LEMMA SoundLater ==
  ASSUME NEW ms, NEW t \in Nat, NEW u \in Nat, t <= u, Sound(ms, t)
  PROVE  Sound(ms, u)
<1>1. \A i \in DOMAIN ms.events : ms.events[i].time <= u
  <2> TAKE i \in DOMAIN ms.events
  <2>1. ms.events[i].time \in Nat /\ ms.events[i].time <= t
    BY EventTyped DEF Sound, MutableStates, RunSound
  <2> QED BY <2>1
<1> QED BY <1>1 DEF Sound, RunSound

\* What is pending is filed under a number.
LEMMA PendingTyped ==
  ASSUME NEW ms \in MutableStates
  PROVE  /\ \A a \in DOMAIN ms.acts : a \in Nat /\ ms.acts[a] \in ActStates
         /\ \A k \in DOMAIN ms.timers : k \in Nat /\ ms.timers[k] \in TimerStates
<1>1. ms.acts \in Pending(ActStates) /\ ms.timers \in Pending(TimerStates)
  BY DEF MutableStates
<1>2. DOMAIN ms.acts \subseteq Nat /\ ms.acts \in [DOMAIN ms.acts -> ActStates]
  BY <1>1, PendingIs
<1>3. DOMAIN ms.timers \subseteq Nat /\ ms.timers \in [DOMAIN ms.timers -> TimerStates]
  BY <1>1, PendingIs
<1> QED BY <1>2, <1>3

\* A log that has grown.
Extends(h, g) == Len(h) <= Len(g) /\ \A i \in DOMAIN h : i \in DOMAIN g /\ g[i] = h[i]

LEMMA AppendExtends ==
  ASSUME NEW h \in Seq(Events), NEW e \in Events
  PROVE  Extends(h, Append(h, e)) /\ Append(h, e) # <<>>
<1> DEFINE g == Append(h, e)
           n == Len(h) + 1
<1>1. /\ Len(g) = n /\ g # <<>> /\ n \in Nat
      /\ DOMAIN h = 1 .. n - 1 /\ DOMAIN g = 1 .. n
      /\ \A i \in 1 .. n - 1 : g[i] = h[i]
  BY OneMore
<1>2. Len(h) <= Len(g)
  BY <1>1
<1> HIDE DEF g, n
<1>3. \A i \in DOMAIN h : i \in DOMAIN g /\ g[i] = h[i]
  BY <1>1
<1> QED BY <1>1, <1>2, <1>3 DEF Extends, g

LEMMA ExtendsOrder ==
  ASSUME NEW f \in Seq(Events), NEW g \in Seq(Events), NEW h \in Seq(Events),
         Extends(f, g), Extends(g, h)
  PROVE  Extends(f, h)
BY DEF Extends

\* An appended event that was accepted.
LEMMA AppendSound ==
  ASSUME opt \in Options, NEW ms, NEW t \in Nat \ {0}, Sound(ms, t), NEW e, Fits(ms, e, t),
         AppendEvent(ms, e).ok
  PROVE  LET m == AppendEvent(ms, e)
         IN /\ ~Terminal(ms) /\ Applicable(ms, e)
            /\ Sound(m, t)
            /\ Applied(m, ms, e, Len(ms.events) + 1)
            /\ Extends(ms.events, m.events)
            /\ m.events # <<>>
<1> DEFINE m == AppendEvent(ms, e)
<1>1. ms \in MutableStates /\ ms.ok /\ ms.events \in Seq(Events) /\ e \in Events
  BY DEF Sound, MutableStates, Fits
<1>2. ~Terminal(ms)
  BY <1>1, Rejects DEF AppendEvent
<1>3. m = Apply(ms, e)
  BY <1>2 DEF AppendEvent
<1>4. Applicable(ms, e)
  BY <1>1, <1>3, ApplyRejects
<1>5. Sound(m, t) /\ Applied(m, ms, e, Len(ms.events) + 1)
  BY <1>1, <1>2, <1>3, <1>4, ApplySound, ApplyFields
<1>6. m.events = Append(ms.events, e)
  BY <1>5 DEF Applied
<1> HIDE DEF m
<1>7. Extends(ms.events, m.events) /\ m.events # <<>>
  BY <1>1, <1>6, AppendExtends
<1> QED BY <1>2, <1>4, <1>5, <1>7 DEF m

-------------------------------------------------------------------------------
\* Settings under which nothing moves the clock of an activity: one attempt, no heartbeat,
\* no limit on the wait for a worker.

Fixed == MaxAttempts = 1 /\ ScheduleToStart = 0 /\ HeartbeatTimeout = 0

\* Then the log determines everything there is to know about an activity.
PlainAct(act, h, a) ==
  /\ act.attempt = 1 /\ act.beatDl = 0
  /\ act.held <=> act.started # 0
  /\ act.closeDl = Deadline(h[a].time, ScheduleToClose)
  /\ act.attemptDl = IF act.started # 0 THEN Deadline(h[act.started].time, StartToClose) ELSE 0
  /\ act.started # 0 => h[act.started].ref = a
  /\ \A i \in DOMAIN h : h[i].type = "ActStarted" /\ h[i].ref = a => act.started = i

Plain(ms) == \A a \in DOMAIN ms.acts : PlainAct(ms.acts[a], ms.events, a)

Simple(ms) == Plain(ms) /\ ms = FromLog(ms.events) /\ (Terminal(ms) => DOMAIN ms.acts = {})

LEMMA PlainKept ==
  ASSUME NEW h \in Seq(Events), NEW e \in Events, NEW a \in DOMAIN h, NEW act \in ActStates,
         PlainAct(act, h, a), act.started # 0 => act.started \in DOMAIN h,
         ~(e.type = "ActStarted" /\ e.ref = a)
  PROVE  PlainAct(act, Append(h, e), a) /\ PlainAct([act EXCEPT !.cancel = TRUE], Append(h, e), a)
<1> DEFINE g == Append(h, e)
           n == Len(h) + 1
           v == [act EXCEPT !.cancel = TRUE]
<1>1. /\ n \in Nat /\ DOMAIN h = 1 .. n - 1 /\ DOMAIN g = 1 .. n
      /\ (\A i \in 1 .. n - 1 : g[i] = h[i]) /\ g[n] = e
  BY OneMore
<1>2. /\ v.attempt = act.attempt /\ v.beatDl = act.beatDl /\ v.held = act.held /\ v.started = act.started
      /\ v.closeDl = act.closeDl /\ v.attemptDl = act.attemptDl
  BY DEF ActStates
<1> HIDE DEF g, n, v
<1>3. \A i \in DOMAIN g : i \in DOMAIN h \/ i = n
  BY <1>1
<1>4. \A i \in DOMAIN g : g[i].type = "ActStarted" /\ g[i].ref = a => act.started = i
  BY <1>1, <1>3 DEF PlainAct
<1>5. g[a] = h[a] /\ (act.started # 0 => g[act.started] = h[act.started])
  BY <1>1
<1>6. PlainAct(act, g, a)
  BY <1>4, <1>5 DEF PlainAct
<1>7. PlainAct(v, g, a)
  BY <1>2, <1>6 DEF PlainAct
<1> QED BY <1>6, <1>7 DEF g, v

LEMMA PlainNew ==
  ASSUME opt \in Options, NEW h \in Seq(Events), NEW e \in Events, e.type = "ActScheduled",
         \A i \in DOMAIN h : h[i].type = "ActStarted" => h[i].ref \in DOMAIN h
  PROVE  PlainAct(NewActivity(e), Append(h, e), Len(h) + 1)
<1> DEFINE g == Append(h, e)
           n == Len(h) + 1
           v == NewActivity(e)
<1>1. /\ n \in Nat /\ DOMAIN h = 1 .. n - 1 /\ DOMAIN g = 1 .. n
      /\ (\A i \in 1 .. n - 1 : g[i] = h[i]) /\ g[n] = e
  BY OneMore
<1>2. /\ v.attempt = 1 /\ v.beatDl = 0 /\ v.held = FALSE /\ v.started = 0
      /\ v.closeDl = Deadline(e.time, ScheduleToClose) /\ v.attemptDl = 0
  BY DEF NewActivity
<1> HIDE DEF g, n, v
<1>3. \A i \in DOMAIN g : i \in DOMAIN h \/ i = n
  BY <1>1
<1>4. \A i \in DOMAIN g : ~(g[i].type = "ActStarted" /\ g[i].ref = n)
  BY <1>1, <1>3
<1> QED BY <1>1, <1>2, <1>4 DEF PlainAct, g, n, v

LEMMA PlainStarted ==
  ASSUME opt \in Options, Fixed, NEW h \in Seq(Events), NEW e \in Events, e.type = "ActStarted", e.n = 1,
         NEW a \in DOMAIN h, e.ref = a, NEW act \in ActStates, PlainAct(act, h, a), act.started = 0
  PROVE  PlainAct(StartedActivity(act, e, Len(h) + 1), Append(h, e), a)
<1> DEFINE g == Append(h, e)
           n == Len(h) + 1
           v == StartedActivity(act, e, n)
<1>1. /\ n \in Nat /\ n # 0 /\ DOMAIN h = 1 .. n - 1 /\ DOMAIN g = 1 .. n
      /\ (\A i \in 1 .. n - 1 : g[i] = h[i]) /\ g[n] = e
  BY OneMore
<1>2. ~(HeartbeatTimeout > 0)
  BY DEF Fixed
<1>3. /\ v.attempt = 1 /\ v.beatDl = act.beatDl /\ v.held = TRUE /\ v.started = n
      /\ v.closeDl = act.closeDl
      /\ v.attemptDl = IF StartToClose > 0 THEN e.time + StartToClose ELSE act.attemptDl
  BY <1>2 DEF StartedActivity, ActStates
<1> HIDE DEF g, n, v
<1>4. \A i \in DOMAIN g : i \in DOMAIN h \/ i = n
  BY <1>1
<1>5. \A i \in DOMAIN h : ~(h[i].type = "ActStarted" /\ h[i].ref = a)
  BY <1>1 DEF PlainAct
<1>6. \A i \in DOMAIN g : g[i].type = "ActStarted" /\ g[i].ref = a => i = n
  BY <1>1, <1>4, <1>5
<1>7. v.attemptDl = Deadline(e.time, StartToClose)
  BY <1>3 DEF Deadline, PlainAct
<1> QED BY <1>1, <1>3, <1>6, <1>7 DEF PlainAct, g, n, v

\* An accepted event keeps it so.
LEMMA SimpleAppend ==
  ASSUME opt \in Options, Fixed, NEW ms, NEW t \in Nat \ {0}, Sound(ms, t), NEW e, Fits(ms, e, t),
         AppendEvent(ms, e).ok, Simple(ms), e.type = "ActStarted" => e.n = 1
  PROVE  LET m == AppendEvent(ms, e)
         IN /\ Simple(m)
            /\ \A a \in DOMAIN m.acts : a \in DOMAIN ms.acts \/ (e.type = "ActScheduled" /\ a = Len(ms.events) + 1)
<1> DEFINE m == AppendEvent(ms, e)
           h == ms.events
           n == Len(ms.events) + 1
<1>1. /\ ~Terminal(ms) /\ Applicable(ms, e) /\ Sound(m, t) /\ Applied(m, ms, e, n)
  BY AppendSound
<1>2. ms \in MutableStates /\ h \in Seq(Events) /\ e \in Events /\ ms.ok /\ WellFormed(h) /\ ActsSound(ms)
  BY DEF Sound, MutableStates, Fits
<1>3. m = Apply(ms, e)
  BY <1>1 DEF AppendEvent
<1> HIDE DEF m
<1>4. m.events = Append(h, e) /\ m.acts = ActsAfter(ms, e, n)
  BY <1>1 DEF Applied
<1>5. m = FromLog(m.events)
  <2>1. WellFormed(Append(h, e))
    BY <1>1, <1>4 DEF Sound
  <2>2. FromLog(Append(h, e)) = Apply(FromLog(h), e)
    BY <1>2, <2>1, FromLogAppend
  <2> QED BY <1>3, <1>4, <2>2 DEF Simple
<1>6. \A a \in DOMAIN ms.acts : /\ a \in DOMAIN h /\ ms.acts[a] \in ActStates /\ PlainAct(ms.acts[a], h, a)
                                /\ ms.acts[a].started # 0 => ms.acts[a].started \in DOMAIN h
  BY <1>2, PendingTyped DEF ActsSound, At, Simple, Plain
<1>7. ASSUME NEW a \in DOMAIN ms.acts, ~(e.type = "ActStarted" /\ e.ref = a)
      PROVE  PlainAct(ms.acts[a], Append(h, e), a) /\ PlainAct([ms.acts[a] EXCEPT !.cancel = TRUE], Append(h, e), a)
  BY <1>2, <1>6, <1>7, PlainKept
<1> DEFINE Goal == /\ Plain(m)
                   /\ \A a \in DOMAIN m.acts : a \in DOMAIN ms.acts \/ (e.type = "ActScheduled" /\ a = n)
<1>8. ASSUME e.type \in ClosedTypes PROVE Goal
  BY <1>4, <1>8 DEF ActsAfter, NoEntry, Plain
<1>9. ASSUME e.type = "ActScheduled" PROVE Goal
  <2> DEFINE v == NewActivity(e)
  <2>1. m.acts = Put1(ms.acts, n, v)
    BY <1>4, <1>9 DEF ActsAfter, ClosedTypes
  <2>2. PlainAct(v, Append(h, e), n)
    <3>1. \A i \in DOMAIN h : h[i].type = "ActStarted" => h[i].ref \in DOMAIN h
      <4> SUFFICES ASSUME NEW i \in DOMAIN h, h[i].type = "ActStarted" PROVE h[i].ref \in DOMAIN h
        OBVIOUS
      <4>1. h # <<>>
        BY <1>2
      <4>2. PointsTo(h, i, h[i].ref, "ActScheduled")
        BY <1>2, <4>1 DEF WellFormed, RefType
      <4>3. i \in 1 .. Len(h) /\ h[i].ref \in 1 .. i - 1
        BY <1>2, <4>2 DEF PointsTo
      <4> HIDE DEF h
      <4> QED BY <1>2, <4>3
    <3> QED BY <1>2, <1>9, <3>1, PlainNew
  <2> HIDE DEF v
  <2>3. DOMAIN m.acts = DOMAIN ms.acts \cup {n} /\ \A a \in DOMAIN m.acts : m.acts[a] = IF a = n THEN v ELSE ms.acts[a]
    BY <2>1 DEF Put1
  <2>4. ASSUME NEW a \in DOMAIN m.acts PROVE PlainAct(m.acts[a], m.events, a)
    BY <1>4, <1>7, <1>9, <2>2, <2>3
  <2>5. Plain(m)
    BY <2>4 DEF Plain
  <2> QED BY <1>9, <2>3, <2>5
<1>10. ASSUME e.type = "ActStarted" PROVE Goal
  <2> DEFINE v == StartedActivity(ms.acts[e.ref], e, n)
  <2>1. m.acts = [ms.acts EXCEPT ![e.ref] = v] /\ e.ref \in DOMAIN ms.acts /\ ms.acts[e.ref].started = 0
    BY <1>1, <1>4, <1>10 DEF ActsAfter, ClosedTypes, Applicable
  <2>2. PlainAct(v, Append(h, e), e.ref)
    BY <1>2, <1>6, <1>10, <2>1, PlainStarted
  <2> HIDE DEF v
  <2>3. DOMAIN m.acts = DOMAIN ms.acts /\ \A a \in DOMAIN m.acts : m.acts[a] = IF a = e.ref THEN v ELSE ms.acts[a]
    BY <2>1
  <2>4. ASSUME NEW a \in DOMAIN m.acts PROVE PlainAct(m.acts[a], m.events, a)
    BY <1>4, <1>7, <2>2, <2>3
  <2>5. Plain(m)
    BY <2>4 DEF Plain
  <2> QED BY <2>3, <2>5
<1>11. ASSUME e.type = "ActCancelRequested" PROVE Goal
  <2>1. m.acts = [ms.acts EXCEPT ![e.ref].cancel = TRUE] /\ e.ref \in DOMAIN ms.acts
    BY <1>1, <1>4, <1>11 DEF ActsAfter, ClosedTypes, Applicable
  <2>2. DOMAIN m.acts = DOMAIN ms.acts /\ \A a \in DOMAIN m.acts : m.acts[a] = ms.acts[a] \/ m.acts[a] = [ms.acts[a] EXCEPT !.cancel = TRUE]
    BY <2>1
  <2>3. ASSUME NEW a \in DOMAIN m.acts PROVE PlainAct(m.acts[a], m.events, a)
    <3>1. a \in DOMAIN ms.acts /\ ~(e.type = "ActStarted" /\ e.ref = a)
      BY <1>11, <2>2
    <3> QED BY <1>4, <1>7, <2>2, <3>1
  <2>4. Plain(m)
    BY <2>3 DEF Plain
  <2> QED BY <2>2, <2>4
<1>12. ASSUME e.type \in Resolving PROVE Goal
  <2>1. m.acts = Remove1(ms.acts, e.ref)
    BY <1>4, <1>12 DEF ActsAfter, ClosedTypes, Resolving
  <2>2. \A a \in DOMAIN m.acts : a \in DOMAIN ms.acts /\ m.acts[a] = ms.acts[a]
    BY <2>1 DEF Remove1
  <2>3. ASSUME NEW a \in DOMAIN m.acts PROVE PlainAct(m.acts[a], m.events, a)
    BY <1>4, <1>7, <1>12, <2>2 DEF Resolving
  <2>4. Plain(m)
    BY <2>3 DEF Plain
  <2> QED BY <2>2, <2>4
<1>13. ASSUME e.type \notin ClosedTypes \cup Resolving \cup {"ActScheduled", "ActStarted", "ActCancelRequested"} PROVE Goal
  <2>1. m.acts = ms.acts
    BY <1>4, <1>13 DEF ActsAfter
  <2>2. ASSUME NEW a \in DOMAIN m.acts PROVE PlainAct(m.acts[a], m.events, a)
    BY <1>4, <1>7, <1>13, <2>1
  <2>3. Plain(m)
    BY <2>2 DEF Plain
  <2> QED BY <2>1, <2>3
<1>14. Goal
  BY <1>8, <1>9, <1>10, <1>11, <1>12, <1>13
<1>15. Terminal(m) => DOMAIN m.acts = {}
  <2>1. Terminal(m) => e.type \in ClosedTypes
    BY <1>1 DEF Applied, Terminal
  <2> QED BY <1>4, <2>1 DEF ActsAfter, NoEntry
<1> QED BY <1>5, <1>14, <1>15 DEF Simple, m

-------------------------------------------------------------------------------
\* Transitions.

\* Nothing that should wake the workflow is overlooked.
Awake(ms) ==
  ~Terminal(ms) /\ ms.wt.sched = 0 =>
    \A i \in DOMAIN ms.events : ms.events[i].type \in WakeTypes =>
      \E c \in DOMAIN ms.events : ms.events[c].type = "TaskCompleted" /\ ms.events[c].ref > i

Effects == [kind : {"workflow", "activity", "retry"}, ev : Nat, at : Nat]

\* What the effects of a transition to ms ask for.
EffectsFit(ms, eff) ==
  /\ eff \in Seq(Effects)
  /\ \A i \in DOMAIN eff :
       eff[i].kind = "retry" => eff[i].ev \in DOMAIN ms.acts /\ eff[i].at # 0 /\ Len(eff) = 1

\* A transition of ms at t that was not rejected.
Leads(ms, r, t) ==
  r.ms.ok => /\ Sound(r.ms, t)
             /\ Extends(ms.events, r.ms.events)
             /\ Awake(r.ms)
             /\ EffectsFit(r.ms, r.eff)

\* Under fixed settings a transition only appends events, arms no retry and announces each
\* activity it adds.
Straight(ms, r) ==
  Fixed /\ Simple(ms) /\ r.ms.ok =>
    /\ Simple(r.ms)
    /\ \A i \in DOMAIN r.eff : r.eff[i].kind # "retry"
    /\ \A a \in DOMAIN r.ms.acts :
         \/ a \in DOMAIN ms.acts
         \/ \E i \in DOMAIN r.eff : r.eff[i].kind = "activity" /\ r.eff[i].ev = a

LeadsStraight(ms, r, t) == Leads(ms, r, t) /\ Straight(ms, r)

LEMMA AcceptedLeads ==
  ASSUME NEW ms, NEW r, NEW t, r.ms.ok => Leads(ms, r, t) PROVE Leads(ms, r, t)
BY DEF Leads

LEMMA EmptyId == "" \in Ids
BY DEF Ids

LEMMA EventFields ==
  ASSUME NEW type \in EventTypes, NEW t \in Nat
  PROVE  LET e == Event(type, t)
         IN e \in Events /\ e.type = type /\ e.time = t /\ e.ref = 0
BY EmptyId DEF Event, Events

LEMMA NoEffects == ASSUME NEW ms PROVE EffectsFit(ms, <<>>)
BY DEF EffectsFit

LEMMA OneEffect ==
  ASSUME NEW ms, NEW kind \in {"workflow", "activity"}, NEW ev \in Nat
  PROVE  EffectsFit(ms, <<Effect(kind, ev, 0)>>)
<1>1. Effect(kind, ev, 0) \in Effects /\ Effect(kind, ev, 0).kind # "retry"
  BY DEF Effect, Effects
<1> HIDE DEF Effect
<1> QED BY <1>1 DEF EffectsFit

\* ScheduleWorkflowTask on any sound state: an open run has a task afterwards.
LEMMA ScheduleSound ==
  ASSUME opt \in Options, NEW ms, NEW t \in Nat \ {0}, Sound(ms, t), ms.events # <<>>,
         ScheduleWorkflowTask(ms, t).ms.ok
  PROVE  LET r == ScheduleWorkflowTask(ms, t)
         IN /\ Sound(r.ms, t) /\ Extends(ms.events, r.ms.events) /\ r.ms.events # <<>>
            /\ ~Terminal(r.ms) => r.ms.wt.sched # 0
            /\ \A m : EffectsFit(m, r.eff)
            /\ r.ms.acts = ms.acts
            /\ Straight(ms, r) /\ \A i \in DOMAIN r.eff : r.eff[i].kind = "workflow"
<1> DEFINE r == ScheduleWorkflowTask(ms, t)
           e == Event("TaskScheduled", t)
           m == AppendEvent(ms, e)
<1>1. ms.ok /\ ms.events \in Seq(Events)
  BY DEF Sound, MutableStates
<1>2. CASE Terminal(ms) \/ ms.wt.sched # 0
  <2>1. r.ms = ms /\ r.eff = <<>>
    BY <1>1, <1>2 DEF ScheduleWorkflowTask, Result
  <2>2. Straight(ms, r)
    BY <2>1 DEF Straight
  <2> QED BY <1>1, <1>2, <2>1, <2>2, NoEffects DEF Extends
<1>3. CASE ~(Terminal(ms) \/ ms.wt.sched # 0)
  <2>1. r.ms = m /\ r.eff = <<Effect("workflow", Len(ms.events) + 1, 0)>>
    BY <1>1, <1>3 DEF ScheduleWorkflowTask, Result, NextEventID
  <2>2. e \in Events /\ e.type = "TaskScheduled" /\ e.time = t
    BY EventFields DEF EventTypes
  <2>3. Fits(ms, e, t)
    <3> HIDE DEF e
    <3> QED BY <2>2 DEF Fits, TaskEnding, CommandTypes
  <2>4. Sound(m, t) /\ Applied(m, ms, e, Len(ms.events) + 1) /\ Extends(ms.events, m.events) /\ m.events # <<>>
    BY <2>1, <2>3, AppendSound
  <2> HIDE DEF m, e
  <2>5. m.wt = [NoTask EXCEPT !.sched = Len(ms.events) + 1] /\ m.acts = ms.acts
    BY <2>2, <2>4 DEF Applied, TaskAfter, ActsAfter, ClosedTypes, TaskEnding, Resolving
  <2>6. m.wt.sched # 0 /\ m.wt.started = 0
    BY <1>1, <2>5, FreshTask
  <2>7. \A x : EffectsFit(x, r.eff)
    BY <1>1, <2>1, OneEffect
  <2>8. \A i \in DOMAIN r.eff : r.eff[i].kind = "workflow"
    <3>1. Effect("workflow", Len(ms.events) + 1, 0).kind = "workflow"
      BY DEF Effect
    <3> HIDE DEF Effect, r
    <3> QED BY <2>1, <3>1
  <2> HIDE DEF r
  <2>9. Straight(ms, r)
    <3> SUFFICES ASSUME Fixed, Simple(ms) PROVE Simple(m) /\ \A i \in DOMAIN r.eff : r.eff[i].kind # "retry"
      BY <2>1, <2>5 DEF Straight
    <3>1. Simple(m)
      BY <2>1, <2>2, <2>3, SimpleAppend DEF r, m
    <3> QED BY <2>8, <3>1
  <2> QED BY <2>1, <2>4, <2>5, <2>6, <2>7, <2>8, <2>9 DEF r
<1> QED BY <1>2, <1>3

\* An event, then wakeWorkflow.
LEMMA RecordLeads ==
  ASSUME opt \in Options, NEW ms, NEW t \in Nat \ {0}, Sound(ms, t), NEW e, Fits(ms, e, t),
         e.type # "TaskStarted"
  PROVE  LET r == Record(ms, e)
         IN /\ Leads(ms, r, t)
            /\ r.ms.ok => r.ms.acts = ActsAfter(ms, e, Len(ms.events) + 1)
            /\ e.type \notin {"ActScheduled", "ActStarted"} => Straight(ms, r)
<1> DEFINE a == AppendEvent(ms, e)
           r == Record(ms, e)
<1> SUFFICES ASSUME r.ms.ok
             PROVE  /\ Leads(ms, r, t) /\ r.ms.acts = ActsAfter(ms, e, Len(ms.events) + 1)
                    /\ e.type \notin {"ActScheduled", "ActStarted"} => Straight(ms, r)
  BY DEF Leads, Straight
<1>1. r = ScheduleWorkflowTask(a, t)
  BY DEF Record, Fits
<1>2. a.ok
  BY <1>1 DEF ScheduleWorkflowTask, Result
<1>3. /\ Sound(a, t) /\ Applied(a, ms, e, Len(ms.events) + 1)
      /\ Extends(ms.events, a.events) /\ a.events # <<>>
  BY <1>2, AppendSound
<1>10. ASSUME e.type \notin {"ActScheduled", "ActStarted"}, Fixed, Simple(ms)
       PROVE  Simple(a) /\ \A x \in DOMAIN a.acts : x \in DOMAIN ms.acts
  BY <1>2, <1>10, SimpleAppend
<1> HIDE DEF a
<1>4. /\ Sound(r.ms, t) /\ Extends(a.events, r.ms.events)
      /\ ~Terminal(r.ms) => r.ms.wt.sched # 0
      /\ \A m : EffectsFit(m, r.eff)
      /\ r.ms.acts = a.acts
      /\ Straight(a, r) /\ \A i \in DOMAIN r.eff : r.eff[i].kind = "workflow"
  BY <1>1, <1>3, ScheduleSound
<1> HIDE DEF r
<1>5. Extends(ms.events, r.ms.events)
  BY <1>3, <1>4, ExtendsOrder DEF Sound, MutableStates
<1>6. a.wt = TaskAfter(ms, e, Len(ms.events) + 1) /\ a.acts = ActsAfter(ms, e, Len(ms.events) + 1)
      /\ Len(ms.events) + 1 \in Nat
  BY <1>3 DEF Applied
<1>8. Awake(r.ms)
  BY <1>4 DEF Awake
<1>11. ASSUME e.type \notin {"ActScheduled", "ActStarted"} PROVE Straight(ms, r)
  BY <1>4, <1>10, <1>11 DEF Straight
<1> QED BY <1>4, <1>5, <1>6, <1>8, <1>11 DEF Leads

\* An event that neither wakes the workflow nor touches its task.
LEMMA AppendLeads ==
  ASSUME opt \in Options, NEW ms, NEW t \in Nat \ {0}, Sound(ms, t), Awake(ms), NEW e, Fits(ms, e, t),
         e.type \notin WakeTypes \cup TaskEnding \cup {"TaskStarted", "TaskScheduled"}
  PROVE  LET r == Result(AppendEvent(ms, e), <<>>)
         IN /\ Leads(ms, r, t)
            /\ /\ e.type # "ActScheduled"
               /\ e.type = "ActStarted" => e.n = ms.acts[e.ref].attempt
               => Straight(ms, r)
<1> DEFINE m == AppendEvent(ms, e)
           r == Result(m, <<>>)
           n == Len(ms.events) + 1
           same == e.type # "ActScheduled" /\ (e.type = "ActStarted" => e.n = ms.acts[e.ref].attempt)
<1>1. r.ms = m /\ r.eff = <<>>
  BY DEF Result
<1> SUFFICES ASSUME m.ok PROVE Leads(ms, r, t) /\ (same => Straight(ms, r))
  BY <1>1 DEF Leads, Straight
<1>2. /\ ~Terminal(ms) /\ Sound(m, t) /\ Applied(m, ms, e, n)
      /\ Extends(ms.events, m.events) /\ Applicable(ms, e)
  BY AppendSound
<1>6. ASSUME same PROVE Straight(ms, r)
  <2> SUFFICES ASSUME Fixed, Simple(ms) PROVE Simple(m) /\ \A x \in DOMAIN m.acts : x \in DOMAIN ms.acts
    BY <1>1 DEF Straight
  <2>1. e.type = "ActStarted" => e.n = 1
    BY <1>2, <1>6 DEF Applicable, Simple, Plain, PlainAct
  <2> QED BY <1>6, <2>1, SimpleAppend
<1> HIDE DEF m, r, n
<1>5. Awake(m)
  <2> SUFFICES ASSUME ~Terminal(m), m.wt.sched = 0, NEW i \in DOMAIN m.events,
                      m.events[i].type \in WakeTypes
               PROVE  \E c \in DOMAIN m.events :
                        m.events[c].type = "TaskCompleted" /\ m.events[c].ref > i
    BY DEF Awake
  <2>1. m.status = (IF e.type \in ClosedTypes THEN e.type ELSE ms.status)
    BY <1>2 DEF Applied
  <2>2. e.type \notin ClosedTypes
    BY <2>1 DEF Terminal, ClosedTypes
  <2>3. ms.wt.sched = 0
    BY <1>2, <2>2 DEF Applied, TaskAfter
  <2>4. m.events = Append(ms.events, e) /\ ms.events \in Seq(Events) /\ e \in Events
    BY <1>2 DEF Applied, Sound, MutableStates, Fits
  <2>5. /\ n \in Nat /\ n > 0 /\ DOMAIN ms.events = 1 .. n - 1 /\ DOMAIN m.events = 1 .. n
        /\ \A j \in 1 .. n - 1 : m.events[j] = ms.events[j]
        /\ m.events[n] = e
    BY <2>4, OneMore DEF n
  <2>6. i \in DOMAIN ms.events /\ m.events[i] = ms.events[i]
    BY <2>5
  <2>7. PICK c \in DOMAIN ms.events : ms.events[c].type = "TaskCompleted" /\ ms.events[c].ref > i
    BY <1>2, <2>3, <2>6 DEF Awake
  <2> QED BY <2>5, <2>7
<1> QED BY <1>1, <1>2, <1>5, <1>6, NoEffects DEF Leads

\* Nothing, or what leaves no event.
LEMMA AlikeLeads ==
  ASSUME NEW ms, NEW t, Sound(ms, t), Awake(ms), NEW m \in MutableStates, m.ok, Alike(ms, m), NEW eff,
         EffectsFit(m, eff)
  PROVE  Leads(ms, Result(m, eff), t)
<1>1. Sound(m, t)
  BY SoundAlike
<1>2. m.events = ms.events /\ m.wt = ms.wt /\ m.status = ms.status
  BY DEF Alike
<1>3. Awake(m)
  BY <1>2 DEF Awake, Terminal
<1>4. Extends(ms.events, m.events)
  BY <1>2 DEF Extends, Sound, MutableStates
<1> QED BY <1>1, <1>2, <1>3, <1>4 DEF Leads, Result

LEMMA RejectLeads ==
  ASSUME NEW ms, NEW t, Sound(ms, t), NEW eff PROVE LeadsStraight(ms, Result(Reject(ms), eff), t)
BY Rejects DEF Sound, Leads, Straight, LeadsStraight, Result

LEMMA StayLeads ==
  ASSUME NEW ms, NEW t, Sound(ms, t), Awake(ms) PROVE LeadsStraight(ms, Result(ms, <<>>), t)
<1>1. Alike(ms, ms)
  BY DEF Alike, SameActs
<1>2. Straight(ms, Result(ms, <<>>))
  BY DEF Straight, Result
<1> QED BY <1>1, <1>2, AlikeLeads, NoEffects DEF Sound, LeadsStraight

\* Clients and the clock.
LEMMA SignalLeads ==
  ASSUME opt \in Options, NEW ms, NEW t \in Nat \ {0}, Sound(ms, t), ms.events # <<>>
  PROVE  LeadsStraight(ms, Signal(ms, t), t)
<1> DEFINE e == Event("Signaled", t)
<1>1. e \in Events /\ e.type = "Signaled" /\ e.time = t
  BY EventFields DEF EventTypes
<1> HIDE DEF e
<1>2. Fits(ms, e, t)
  BY <1>1 DEF Fits, TaskEnding, CommandTypes
<1> QED BY <1>1, <1>2, RecordLeads DEF Signal, e, LeadsStraight

LEMMA RequestCancelLeads ==
  ASSUME opt \in Options, NEW ms, NEW t \in Nat \ {0}, Sound(ms, t), Awake(ms), ms.events # <<>>
  PROVE  LeadsStraight(ms, RequestCancel(ms, t), t)
<1> DEFINE e == Event("CancelRequested", t)
<1>1. e \in Events /\ e.type = "CancelRequested" /\ e.time = t
  BY EventFields DEF EventTypes
<1> HIDE DEF e
<1>2. Fits(ms, e, t)
  BY <1>1 DEF Fits, TaskEnding, CommandTypes
<1>3. LeadsStraight(ms, Record(ms, e), t)
  BY <1>1, <1>2, RecordLeads DEF LeadsStraight
<1> QED BY <1>3, StayLeads DEF RequestCancel, e

LEMMA CloseLeads ==
  ASSUME opt \in Options, NEW ms, NEW t \in Nat \ {0}, Sound(ms, t), Awake(ms), ms.events # <<>>,
         NEW type \in {"Terminated", "TimedOut"},
         type = "TimedOut" => ms.runDl # 0 /\ t >= ms.runDl
  PROVE  LeadsStraight(ms, Result(AppendEvent(ms, Event(type, t)), <<>>), t)
<1> DEFINE e == Event(type, t)
<1>1. e \in Events /\ e.type = type /\ e.time = t
  BY EventFields DEF EventTypes, ClosedTypes
<1> HIDE DEF e
<1>2. Fits(ms, e, t)
  BY <1>1 DEF Fits, TaskEnding, CommandTypes
<1>3. e.type \notin WakeTypes \cup TaskEnding \cup {"TaskStarted", "TaskScheduled"}
  BY <1>1 DEF WakeTypes, TaskEnding
<1>4. LeadsStraight(ms, Result(AppendEvent(ms, e), <<>>), t)
  BY <1>1, <1>2, <1>3, AppendLeads DEF LeadsStraight
<1> QED BY <1>4 DEF e

LEMMA ScheduleLeads ==
  ASSUME opt \in Options, NEW ms, NEW t \in Nat \ {0}, Sound(ms, t), Awake(ms), ms.events # <<>>
  PROVE  LeadsStraight(ms, ScheduleWorkflowTask(ms, t), t)
<1> SUFFICES ASSUME ScheduleWorkflowTask(ms, t).ms.ok PROVE LeadsStraight(ms, ScheduleWorkflowTask(ms, t), t)
  BY DEF Leads, LeadsStraight, Straight
<1> QED BY ScheduleSound DEF Leads, LeadsStraight, Awake

\* A task that failed or timed out.
LEMMA TaskEndLeads ==
  ASSUME opt \in Options, NEW ms, NEW t \in Nat \ {0}, Sound(ms, t), ms.events # <<>>, Started(ms),
         NEW type \in {"TaskFailed", "TaskTimedOut"},
         type = "TaskTimedOut" => t >= ms.wt.deadline
  PROVE  LeadsStraight(ms, Record(ms, [Event(type, t) EXCEPT !.ref = ms.wt.started]), t)
<1> DEFINE e == [Event(type, t) EXCEPT !.ref = ms.wt.started]
<1>1. ms.wt.started \in Nat
  BY DEF Sound, MutableStates, TaskStates
<1>2. e \in Events /\ e.type = type /\ e.time = t /\ e.ref = ms.wt.started
  BY <1>1, EmptyId DEF Event, Events, EventTypes
<1> HIDE DEF e
<1>3. Fits(ms, e, t)
  BY <1>2 DEF Fits, TaskEnding, CommandTypes
<1>4. LeadsStraight(ms, Record(ms, e), t)
  BY <1>2, <1>3, RecordLeads DEF LeadsStraight
<1> QED BY <1>4 DEF e

\* A timer that fires, and is due.
LEMMA FireTimerLeads ==
  ASSUME opt \in Options, NEW ms, NEW t \in Nat \ {0}, Sound(ms, t), Awake(ms), ms.events # <<>>,
         NEW k, k \in DOMAIN ms.timers => t >= ms.events[k].time + TimerDelay
  PROVE  LeadsStraight(ms, FireTimer(ms, k, t), t)
<1>1. CASE k \in DOMAIN ms.timers
  <2> DEFINE e == [Event("TimerFired", t) EXCEPT !.ref = k]
  <2>1. k \in Nat
    BY <1>1, PendingTyped DEF Sound
  <2>2. e \in Events /\ e.type = "TimerFired" /\ e.time = t /\ e.ref = k
    BY <2>1, EmptyId DEF Event, Events, EventTypes
  <2> HIDE DEF e
  <2>3. Fits(ms, e, t)
    BY <1>1, <2>2 DEF Fits, TaskEnding, CommandTypes
  <2>4. LeadsStraight(ms, Record(ms, e), t)
    BY <2>2, <2>3, RecordLeads DEF LeadsStraight
  <2> QED BY <1>1, <2>4 DEF FireTimer, e
<1>2. CASE k \notin DOMAIN ms.timers
  BY <1>2, StayLeads DEF FireTimer
<1> QED BY <1>1, <1>2

\* An activity that ends without a result of its own.
LEMMA ActivityEndLeads ==
  ASSUME opt \in Options, NEW ms, NEW t \in Nat \ {0}, Sound(ms, t), ms.events # <<>>,
         NEW a \in DOMAIN ms.acts, NEW type \in {"ActFailed", "ActTimedOut", "ActCanceled"}
  PROVE  LET r == Record(ms, [Event(type, t) EXCEPT !.ref = a])
         IN LeadsStraight(ms, r, t) /\ (r.ms.ok => a \notin DOMAIN r.ms.acts)
<1> DEFINE e == [Event(type, t) EXCEPT !.ref = a]
<1>1. a \in Nat
  BY PendingTyped DEF Sound
<1>2. e \in Events /\ e.type = type /\ e.time = t /\ e.ref = a
  BY <1>1, EmptyId DEF Event, Events, EventTypes
<1> HIDE DEF e
<1>3. Fits(ms, e, t)
  BY <1>2 DEF Fits, TaskEnding, CommandTypes
<1>4. LeadsStraight(ms, Record(ms, e), t) /\ (Record(ms, e).ms.ok => Record(ms, e).ms.acts = ActsAfter(ms, e, Len(ms.events) + 1))
  BY <1>2, <1>3, RecordLeads DEF LeadsStraight
<1>5. ActsAfter(ms, e, Len(ms.events) + 1) = Remove1(ms.acts, a)
  BY <1>2 DEF ActsAfter, ClosedTypes, Resolving
<1> QED BY <1>4, <1>5 DEF e, Remove1

LEMMA CompleteActivityLeads ==
  ASSUME opt \in Options, NEW ms, NEW t \in Nat \ {0}, Sound(ms, t), ms.events # <<>>,
         NEW a \in DOMAIN ms.acts
  PROVE  LeadsStraight(ms, CompleteActivity(ms, a, t), t)
<1> DEFINE e == [Event("ActCompleted", t) EXCEPT !.ref = a, !.start = ms.acts[a].started]
<1>1. a \in Nat /\ ms.acts[a] \in ActStates
  BY PendingTyped DEF Sound
<1>2. ms.acts[a].started \in Nat 
  BY <1>1 DEF ActStates
<1>3. /\ e \in Events /\ e.type = "ActCompleted" /\ e.time = t /\ e.ref = a
      /\ e.start = ms.acts[a].started
  BY <1>1, <1>2, EmptyId DEF Event, Events, EventTypes
<1> HIDE DEF e
<1>4. CASE ms.acts[a].started # 0
  <2>1. Fits(ms, e, t)
    BY <1>3, <1>4 DEF Fits, TaskEnding, CommandTypes
  <2>2. LeadsStraight(ms, Record(ms, e), t)
    BY <1>3, <2>1, RecordLeads DEF LeadsStraight
  <2> QED BY <1>4, <2>2 DEF CompleteActivity, e
<1>5. CASE ms.acts[a].started = 0
  BY <1>5, RejectLeads DEF CompleteActivity
<1> QED BY <1>4, <1>5

LEMMA StartActivityLeads ==
  ASSUME opt \in Options, NEW ms, NEW t \in Nat \ {0}, Sound(ms, t), Awake(ms), ms.events # <<>>,
         NEW a \in DOMAIN ms.acts
  PROVE  LeadsStraight(ms, Result(StartActivity(ms, a, t), <<>>), t)
<1> DEFINE e == [Event("ActStarted", t) EXCEPT !.ref = a, !.n = ms.acts[a].attempt]
<1>1. a \in Nat /\ ms.acts[a] \in ActStates
  BY PendingTyped DEF Sound
<1>2. ms.acts[a].attempt \in Nat 
  BY <1>1 DEF ActStates
<1>3. e \in Events /\ e.type = "ActStarted" /\ e.time = t /\ e.ref = a /\ e.n = ms.acts[a].attempt
  BY <1>1, <1>2, EmptyId DEF Event, Events, EventTypes
<1> HIDE DEF e
<1>4. Fits(ms, e, t)
  BY <1>3 DEF Fits, TaskEnding, CommandTypes
<1>5. e.type \notin WakeTypes \cup TaskEnding \cup {"TaskStarted", "TaskScheduled"}
  BY <1>3 DEF WakeTypes, TaskEnding
<1>6. LeadsStraight(ms, Result(AppendEvent(ms, e), <<>>), t)
  BY <1>3, <1>4, <1>5, AppendLeads DEF LeadsStraight
<1> QED BY <1>6 DEF StartActivity, e

\* The state with activity a replaced.
Puts(m, ms, a, v) ==
  /\ m \in MutableStates /\ m.ok = ms.ok /\ m.status = ms.status /\ m.events = ms.events
  /\ m.wt = ms.wt /\ m.timers = ms.timers /\ m.cancel = ms.cancel /\ m.runDl = ms.runDl
  /\ DOMAIN m.acts = DOMAIN ms.acts /\ m.acts[a] = v
  /\ \A b \in DOMAIN ms.acts : b # a => m.acts[b] = ms.acts[b]

LEMMA PutsActivity ==
  ASSUME NEW ms \in MutableStates, NEW a \in DOMAIN ms.acts, NEW v \in ActStates
  PROVE  Puts([ms EXCEPT !.acts[a] = v], ms, a, v)
<1> DEFINE f == [ms.acts EXCEPT ![a] = v]
           m == [ms EXCEPT !.acts[a] = v]
<1>1. ms.acts \in Pending(ActStates) /\ a \in Nat
  BY PendingTyped DEF MutableStates
<1>2. f \in Pending(ActStates)
  BY <1>1, PendingKept
<1>3. DOMAIN f = DOMAIN ms.acts /\ f[a] = v /\ \A b \in DOMAIN ms.acts : b # a => f[b] = ms.acts[b]
  OBVIOUS
<1>4. m = [ms EXCEPT !.acts = f]
  OBVIOUS
<1> HIDE DEF f, m
<1>5. /\ m.acts = f /\ m.ok = ms.ok /\ m.status = ms.status /\ m.events = ms.events /\ m.wt = ms.wt
      /\ m.timers = ms.timers /\ m.cancel = ms.cancel /\ m.runDl = ms.runDl
  BY <1>4 DEF MutableStates
<1>6. m \in MutableStates
  BY <1>2, <1>4 DEF MutableStates
<1> QED BY <1>3, <1>5, <1>6 DEF Puts, m

\* An attempt that is retried, redispatched, started again or heard of: the log does
\* not know.
SameAttempt(v, w) == v.id = w.id /\ v.started = w.started /\ v.closeDl = w.closeDl /\ v.cancel = w.cancel

LEMMA PutsAlike ==
  ASSUME NEW ms, NEW m, NEW a \in DOMAIN ms.acts, NEW v, Puts(m, ms, a, v), SameAttempt(v, ms.acts[a])
  PROVE  Alike(ms, m)
<1>1. SameActs(ms.acts, m.acts)
  BY DEF Puts, SameAttempt, SameActs
<1> QED BY <1>1 DEF Puts, Alike

LEMMA TouchLeads ==
  ASSUME NEW ms, NEW t, Sound(ms, t), Awake(ms), NEW m, NEW a \in DOMAIN ms.acts, NEW v,
         Puts(m, ms, a, v), SameAttempt(v, ms.acts[a]), NEW eff, EffectsFit(m, eff)
  PROVE  Leads(ms, Result(m, eff), t)
<1>1. m \in MutableStates /\ m.ok /\ Alike(ms, m)
  BY PutsAlike DEF Puts, Sound
<1> QED BY <1>1, AlikeLeads

LEMMA BeginRetryLeads ==
  ASSUME opt \in Options, now \in Nat, NEW ms, NEW t, Sound(ms, t), Awake(ms),
         NEW a \in DOMAIN ms.acts, NEW n \in Nat
  PROVE  Leads(ms, Result(BeginRetryAttempt(ms, a, n), <<>>), t)
<1> DEFINE x == ms.acts[a]
           v == [x EXCEPT !.attempt = IF n > @ THEN n ELSE @, !.held = TRUE,
                          !.attemptDl = Deadline(now, StartToClose),
                          !.beatDl = Deadline(now, HeartbeatTimeout)]
           m == BeginRetryAttempt(ms, a, n)
<1>1. ms \in MutableStates
  BY DEF Sound
<1>2. x \in ActStates /\ Deadline(now, StartToClose) \in Nat /\ Deadline(now, HeartbeatTimeout) \in Nat
  BY <1>1, PendingTyped, Settings, DeadlineNat
<1>3. v \in ActStates /\ SameAttempt(v, x)
  BY <1>2 DEF ActStates, SameAttempt
<1>4. m = [ms EXCEPT !.acts[a] = v]
  BY DEF BeginRetryAttempt
<1> HIDE DEF v, m
<1>5. Puts(m, ms, a, v)
  BY <1>1, <1>3, <1>4, PutsActivity
<1> QED BY <1>3, <1>5, TouchLeads, NoEffects DEF m

LEMMA HeartbeatLeads ==
  ASSUME opt \in Options, NEW ms, NEW t \in Nat, Sound(ms, t), Awake(ms), NEW a \in DOMAIN ms.acts
  PROVE  Leads(ms, Result(RecordActivityHeartbeat(ms, a, t), <<>>), t)
<1> DEFINE x == ms.acts[a]
           d == IF HeartbeatTimeout > 0 THEN t + HeartbeatTimeout ELSE x.beatDl
           v == [x EXCEPT !.beatDl = d]
           m == [ms EXCEPT !.acts[a] = v]
<1>1. ms \in MutableStates
  BY DEF Sound
<1>2. x \in ActStates /\ t + HeartbeatTimeout \in Nat
  BY <1>1, PendingTyped, Settings
<1>3. d \in Nat
  BY <1>2 DEF ActStates
<1> HIDE DEF d
<1>4. v \in ActStates /\ SameAttempt(v, x)
  BY <1>2, <1>3 DEF ActStates, SameAttempt
<1>5. RecordActivityHeartbeat(ms, a, t) = IF x.started = 0 THEN Reject(ms) ELSE m
  BY DEF RecordActivityHeartbeat, d
<1>6. Puts(m, ms, a, v)
  <2> HIDE DEF v
  <2> QED BY <1>1, <1>4, PutsActivity
<1> HIDE DEF v, m
<1>7. Leads(ms, Result(m, <<>>), t)
  BY <1>4, <1>6, TouchLeads, NoEffects
<1> QED BY <1>5, <1>7, RejectLeads DEF LeadsStraight

\* A retried attempt, with its started event put back.
LEMMA RetryLeads ==
  ASSUME opt \in Options, NEW ms, NEW t \in Nat, Sound(ms, t), Awake(ms), NEW a \in DOMAIN ms.acts
  PROVE  Leads(ms, Restored(ms, RetryActivity(ms, a, t), a), t)
<1> DEFINE x == ms.acts[a]
           v == [x EXCEPT !.attempt = @ + 1, !.started = 0, !.attemptDl = 0, !.beatDl = 0,
                          !.held = FALSE]
           m == [ms EXCEPT !.acts[a] = v]
           w == [v EXCEPT !.started = x.started]
           eff == <<Effect("retry", a, t + Backoff)>>
           r == RetryActivity(ms, a, t)
           q == [m EXCEPT !.acts[a] = w]
<1>1. ms \in MutableStates /\ ms.ok
  BY DEF Sound
<1>2. x \in ActStates
  BY <1>1, PendingTyped
<1>3. v \in ActStates /\ v.started = 0 /\ w \in ActStates /\ SameAttempt(w, x)
  <2> HIDE DEF x
  <2>0. x.attempt + 1 \in Nat /\ x.started \in Nat
    BY <1>2 DEF ActStates
  <2>1. v \in ActStates
    BY <1>2, <2>0 DEF ActStates
  <2>3. v.started = 0 /\ v.id = x.id /\ v.closeDl = x.closeDl /\ v.cancel = x.cancel
    BY <1>2 DEF ActStates
  <2> HIDE DEF v
  <2>2. w \in ActStates /\ SameAttempt(w, x)
    BY <2>0, <2>1, <2>3 DEF ActStates, SameAttempt
  <2> QED BY <2>1, <2>2, <2>3
<1>4. r = Result(m, eff)
  BY DEF RetryActivity
<1>5. Puts(m, ms, a, v)
  <2> HIDE DEF v
  <2> QED BY <1>1, <1>3, PutsActivity
<1>6. m.ok /\ m \in MutableStates /\ a \in DOMAIN m.acts /\ m.acts[a] = v
  BY <1>1, <1>5 DEF Puts
<1>7. Restored(ms, r, a) = Result(q, eff)
  <2>1. r.ms = m /\ r = [ms |-> m, eff |-> eff]
    BY <1>4 DEF Result
  <2> HIDE DEF m, r, v, eff, x
  <2>2. Restored(ms, r, a) = [r EXCEPT !.ms.acts[a].started = IF @ = 0 THEN ms.acts[a].started ELSE @]
    BY <1>6, <2>1 DEF Restored
  <2>3. [r EXCEPT !.ms.acts[a].started = IF @ = 0 THEN ms.acts[a].started ELSE @] = [r EXCEPT !.ms = q]
    BY <1>3, <1>6, <2>1 DEF x
  <2> QED BY <2>1, <2>2, <2>3 DEF Result
<1>8. Puts(q, m, a, w)
  <2> HIDE DEF m, w
  <2> QED BY <1>3, <1>6, PutsActivity
<1> HIDE DEF m, q, v, w
<1>9. Puts(q, ms, a, w)
  BY <1>5, <1>8 DEF Puts
<1>10. EffectsFit(q, eff)
  <2> DEFINE f == Effect("retry", a, t + Backoff)
  <2>1. a \in Nat /\ t + Backoff \in Nat /\ t + Backoff # 0
    BY <1>1, PendingTyped, Settings
  <2>2. f \in Effects /\ f.ev = a /\ f.at = t + Backoff
    BY <2>1 DEF Effect, Effects
  <2>3. a \in DOMAIN q.acts
    BY <1>9 DEF Puts
  <2> HIDE DEF f
  <2>4. <<f>> \in Seq(Effects) /\ \A i \in DOMAIN <<f>> : <<f>>[i] = f
    BY <2>2
  <2>5. EffectsFit(q, <<f>>)
    BY <2>1, <2>2, <2>3, <2>4 DEF EffectsFit
  <2> QED BY <2>5 DEF f
<1> HIDE DEF eff
<1>11. Leads(ms, Result(q, eff), t)
  BY <1>3, <1>9, <1>10, TouchLeads
<1> QED BY <1>7, <1>11 DEF r

LEMMA RestoredGone ==
  ASSUME NEW ms, NEW r, NEW a, r.ms.ok => a \notin DOMAIN r.ms.acts
  PROVE  Restored(ms, r, a) = r
BY DEF Restored

LEMMA FailActivityLeads ==
  ASSUME opt \in Options, NEW ms, NEW t \in Nat \ {0}, Sound(ms, t), Awake(ms), ms.events # <<>>,
         NEW a \in DOMAIN ms.acts, NEW retryable
  PROVE  LeadsStraight(ms, Restored(ms, FailActivity(ms, a, retryable, t), a), t)
<1> DEFINE r == Record(ms, [Event("ActFailed", t) EXCEPT !.ref = a])
<1>1. Leads(ms, Restored(ms, RetryActivity(ms, a, t), a), t)
  BY RetryLeads
<1>2. LeadsStraight(ms, r, t) /\ Restored(ms, r, a) = r
  <2>1. LeadsStraight(ms, r, t) /\ (r.ms.ok => a \notin DOMAIN r.ms.acts)
    BY ActivityEndLeads
  <2> HIDE DEF r
  <2> QED BY <2>1, RestoredGone
<1>3. LeadsStraight(ms, Restored(ms, Result(Reject(ms), <<>>), a), t)
  <2>1. Result(Reject(ms), <<>>).ms.ok = FALSE
    BY Rejects DEF Sound, Result
  <2>2. Restored(ms, Result(Reject(ms), <<>>), a) = Result(Reject(ms), <<>>)
    BY <2>1, RestoredGone
  <2> QED BY <2>2, RejectLeads
<1>4. Fixed /\ Simple(ms) => ~Retries(ms.acts[a], retryable, t)
  BY DEF Fixed, Simple, Plain, PlainAct, Retries
<1> QED BY <1>1, <1>2, <1>3, <1>4 DEF FailActivity, LeadsStraight, Straight

LEMMA TimeoutActivityLeads ==
  ASSUME opt \in Options, NEW ms, NEW t \in Nat \ {0}, Sound(ms, t), Awake(ms), ms.events # <<>>,
         NEW a \in DOMAIN ms.acts, NEW kind
  PROVE  LeadsStraight(ms, Restored(ms, TimeoutActivity(ms, a, kind, t), a), t)
<1> DEFINE r == Record(ms, [Event("ActTimedOut", t) EXCEPT !.ref = a])
<1>1. Leads(ms, Restored(ms, RetryActivity(ms, a, t), a), t)
  BY RetryLeads
<1>2. LeadsStraight(ms, r, t) /\ Restored(ms, r, a) = r
  <2>1. LeadsStraight(ms, r, t) /\ (r.ms.ok => a \notin DOMAIN r.ms.acts)
    BY ActivityEndLeads
  <2> HIDE DEF r
  <2> QED BY <2>1, RestoredGone
<1>3. Fixed /\ Simple(ms) => ~Retries(ms.acts[a], kind # "ScheduleToClose", t)
  BY DEF Fixed, Simple, Plain, PlainAct, Retries
<1> HIDE DEF r
<1>4. TimeoutActivity(ms, a, kind, t) = IF Retries(ms.acts[a], kind # "ScheduleToClose", t) THEN RetryActivity(ms, a, t) ELSE r
  BY DEF TimeoutActivity, r
<1> QED BY <1>1, <1>2, <1>3, <1>4 DEF LeadsStraight, Straight

LEMMA CancelActivityLeads ==
  ASSUME opt \in Options, NEW ms, NEW t \in Nat \ {0}, Sound(ms, t), ms.events # <<>>,
         NEW a \in DOMAIN ms.acts
  PROVE  LeadsStraight(ms, CancelActivity(ms, a, t), t)
BY ActivityEndLeads DEF CancelActivity

\* timeoutActivity, redispatchActivity: the entry's attempt counts.
LEMMA AttemptSet ==
  ASSUME NEW ms, NEW t, Sound(ms, t), Awake(ms), NEW a \in DOMAIN ms.acts, NEW n \in Nat
  PROVE  LET m == [ms EXCEPT !.acts[a].attempt = n]
         IN /\ Sound(m, t) /\ Awake(m) /\ m.events = ms.events /\ m.wt = ms.wt
            /\ DOMAIN m.acts = DOMAIN ms.acts
            /\ Leads(ms, Result(m, <<>>), t)
<1> DEFINE x == ms.acts[a]
           v == [x EXCEPT !.attempt = n]
           m == [ms EXCEPT !.acts[a] = v]
<1>1. ms \in MutableStates
  BY DEF Sound
<1>2. x \in ActStates
  BY <1>1, PendingTyped
<1>3. v \in ActStates /\ SameAttempt(v, x)
  BY <1>2 DEF ActStates, SameAttempt
<1>4. Puts(m, ms, a, v)
  <2> HIDE DEF v
  <2> QED BY <1>1, <1>3, PutsActivity
<1>5. m = [ms EXCEPT !.acts[a].attempt = n]
  OBVIOUS
<1> HIDE DEF v, m
<1>6. Leads(ms, Result(m, <<>>), t)
  BY <1>3, <1>4, TouchLeads, NoEffects
<1>7. m.ok /\ m.events = ms.events /\ m.wt = ms.wt /\ DOMAIN m.acts = DOMAIN ms.acts
  BY <1>4 DEF Puts, Sound
<1>8. Sound(m, t) /\ Awake(m)
  BY <1>6, <1>7 DEF Leads, Result
<1> QED BY <1>5, <1>6, <1>7, <1>8

LEMMA RedispatchLeads ==
  ASSUME opt \in Options, NEW ms, NEW t \in Nat, Sound(ms, t), Awake(ms), NEW a \in DOMAIN ms.acts,
         NEW n \in Nat
  PROVE  LET act == ms.acts[a]
             m == [ms EXCEPT !.acts[a] = [act EXCEPT !.attempt = n, !.held = FALSE, !.beatDl = 0,
                                                     !.attemptDl = t + Redispatch]]
         IN Leads(ms, Result(m, <<Effect("activity", a, 0)>>), t)
<1> DEFINE x == ms.acts[a]
           v == [x EXCEPT !.attempt = n, !.held = FALSE, !.beatDl = 0, !.attemptDl = t + Redispatch]
           m == [ms EXCEPT !.acts[a] = v]
           eff == <<Effect("activity", a, 0)>>
<1>1. ms \in MutableStates
  BY DEF Sound
<1>2. x \in ActStates /\ t + Redispatch \in Nat /\ a \in Nat
  BY <1>1, PendingTyped, Settings
<1>3. v \in ActStates /\ SameAttempt(v, x)
  BY <1>2 DEF ActStates, SameAttempt
<1>4. Puts(m, ms, a, v)
  <2> HIDE DEF v
  <2> QED BY <1>1, <1>3, PutsActivity
<1>5. EffectsFit(m, eff)
  BY <1>2, OneEffect
<1> HIDE DEF m, v, eff
<1>6. Leads(ms, Result(m, eff), t)
  BY <1>3, <1>4, <1>5, TouchLeads
<1> QED BY <1>6 DEF m, v, eff

\* A worker takes the scheduled task.
LEMMA StartTaskSound ==
  ASSUME opt \in Options, NEW ms, NEW t \in Nat \ {0}, Sound(ms, t), ms.events # <<>>, NEW w \in Workers,
         StartWorkflowTask(ms, w, t).ok
  PROVE  LET m == StartWorkflowTask(ms, w, t)
         IN /\ Sound(m, t) /\ Awake(m) /\ Extends(ms.events, m.events)
            /\ Len(m.events) = Len(ms.events) + 1
            /\ At(m.events, Len(m.events), "TaskStarted") /\ m.events[Len(m.events)].id = w
            /\ Straight(ms, Result(m, <<>>))
<1> DEFINE e == [Event("TaskStarted", t) EXCEPT !.ref = ms.wt.sched, !.id = w]
           m == AppendEvent(ms, e)
           n == Len(ms.events) + 1
<1>1. Scheduled(ms)
  BY Rejects DEF StartWorkflowTask, Sound
<1>2. m = StartWorkflowTask(ms, w, t)
  BY <1>1 DEF StartWorkflowTask
<1>3. ms.wt \in TaskStates /\ ms.wt.sched \in Nat /\ w \in Ids /\ ms.events \in Seq(Events)
  BY DEF Sound, MutableStates, TaskStates, Ids
<1>4. e \in Events /\ e.type = "TaskStarted" /\ e.time = t /\ e.ref = ms.wt.sched /\ e.id = w
  BY <1>3 DEF Event, Events, EventTypes
<1> HIDE DEF e
<1>5. Fits(ms, e, t)
  BY <1>4 DEF Fits, TaskEnding, CommandTypes
<1>6. Sound(m, t) /\ Applied(m, ms, e, n) /\ Extends(ms.events, m.events)
  BY <1>2, <1>5, AppendSound
<1>11. Straight(ms, Result(m, <<>>))
  <2> SUFFICES ASSUME Fixed, Simple(ms) PROVE Simple(m) /\ \A x \in DOMAIN m.acts : x \in DOMAIN ms.acts
    BY DEF Straight, Result
  <2> QED BY <1>2, <1>4, <1>5, SimpleAppend
<1> HIDE DEF m, n
<1>7. m.wt = [ms.wt EXCEPT !.started = n, !.who = w, !.deadline = e.time + TaskTimeout]
  BY <1>4, <1>6 DEF Applied, TaskAfter, ClosedTypes, TaskEnding
<1>8. m.wt.started = n /\ m.wt.who = w /\ m.wt.sched = ms.wt.sched
  BY <1>3, <1>7 DEF TaskStates
<1>9. Awake(m)
  BY <1>1, <1>8 DEF Awake, Scheduled
<1>10. Len(m.events) = n /\ At(m.events, n, "TaskStarted") /\ m.events[n].id = w
  BY <1>3, <1>4, <1>6 DEF Applied, At, n
<1> QED BY <1>2, <1>6, <1>8, <1>9, <1>10, <1>11 DEF n

-------------------------------------------------------------------------------
\* A completed workflow task and its commands.

CommandNames == Closing \cup {"ScheduleActivity", "CancelActivity", "StartTimer", "CancelTimer", "Marker"}
CommandSet == [do : CommandNames, id : Ids, ev : Nat]

\* f gives the results of the first k commands.
IsBatch(f, done, cmds, by, t, k) ==
  f = [n \in 0 .. k |-> IF n = 0 THEN Result(done, <<>>) ELSE ApplyCommand(f[n - 1], cmds[n], by, t)]

LEMMA BatchExists ==
  ASSUME NEW done, NEW cmds, NEW by, NEW t
  PROVE  \A k \in Nat : \E f : IsBatch(f, done, cmds, by, t, k)
<1> DEFINE S == {k \in Nat : \E f : IsBatch(f, done, cmds, by, t, k)}
<1>1. 0 \in S
  <2>1. IsBatch([n \in 0 .. 0 |-> Result(done, <<>>)], done, cmds, by, t, 0)
    BY DEF IsBatch
  <2> QED BY <2>1
<1>2. ASSUME NEW k \in S PROVE k + 1 \in S
  <2>1. PICK f : IsBatch(f, done, cmds, by, t, k)
    OBVIOUS
  <2> DEFINE g == [n \in 0 .. k + 1 |-> IF n <= k THEN f[n] ELSE ApplyCommand(f[k], cmds[k + 1], by, t)]
  <2>2. ASSUME NEW n \in 0 .. k + 1
        PROVE  g[n] = IF n = 0 THEN Result(done, <<>>) ELSE ApplyCommand(g[n - 1], cmds[n], by, t)
    <3>1. CASE n = 0
      BY <2>1, <3>1 DEF IsBatch
    <3>2. CASE n \in 1 .. k
      <4>1. f[n] = ApplyCommand(f[n - 1], cmds[n], by, t)
        BY <2>1, <3>2 DEF IsBatch
      <4> QED BY <4>1, <3>2
    <3>3. CASE n = k + 1
      BY <3>3
    <3> QED BY <3>1, <3>2, <3>3
  <2>3. g = [n \in 0 .. k + 1 |-> IF n = 0 THEN Result(done, <<>>) ELSE ApplyCommand(g[n - 1], cmds[n], by, t)]
    BY <2>2
  <2>4. IsBatch(g, done, cmds, by, t, k + 1)
    BY <2>3 DEF IsBatch
  <2> QED BY <2>4
<1>3. S = Nat
  <2> HIDE DEF S
  <2> QED BY <1>1, <1>2, Induction DEF S
<1> QED BY <1>3

\* Where a batch stands: event c completed the task started at s, and nothing after it
\* wakes the workflow.
Completes(h, c, s) == At(h, c, "TaskCompleted") /\ h[c].ref = s
Quietly(h, c) == \A i \in DOMAIN h : i > c => h[i].type \notin WakeTypes

InBatch(r, ms, c, s, t) ==
  /\ r.ms \in MutableStates
  /\ \A m : EffectsFit(m, r.eff)
  /\ Straight(ms, r)
  /\ r.ms.ok => /\ Sound(r.ms, t) /\ Extends(ms.events, r.ms.events) /\ r.ms.events # <<>>
                /\ Completes(r.ms.events, c, s) /\ Quietly(r.ms.events, c)
                /\ r.ms.wt.sched = 0 /\ r.ms.wt.started = 0

LEMMA RejectTyped == ASSUME NEW ms \in MutableStates PROVE Reject(ms) \in MutableStates
BY DEF Reject, MutableStates

LEMMA MoreEffects ==
  ASSUME NEW eff, \A m : EffectsFit(m, eff), NEW more, \A m : EffectsFit(m, more), NEW ms
  PROVE  EffectsFit(ms, eff \o more)
<1> DEFINE all == eff \o more
<1>1. eff \in Seq(Effects) /\ more \in Seq(Effects)
  BY DEF EffectsFit
<1>2. /\ all \in Seq(Effects)
      /\ \A i \in DOMAIN all : \/ i \in DOMAIN eff /\ all[i] = eff[i]
                               \/ i - Len(eff) \in DOMAIN more /\ all[i] = more[i - Len(eff)]
  BY <1>1
<1>3. /\ \A i \in DOMAIN eff : eff[i].kind # "retry"
      /\ \A i \in DOMAIN more : more[i].kind # "retry"
  <2> DEFINE m == [acts |-> NoEntry]
  <2>1. DOMAIN m.acts = {}
    BY DEF NoEntry
  <2>2. EffectsFit(m, eff) /\ EffectsFit(m, more)
    OBVIOUS
  <2> HIDE DEF m
  <2> QED BY <2>1, <2>2 DEF EffectsFit
<1>4. \A i \in DOMAIN all : all[i].kind # "retry"
  BY <1>2, <1>3
<1> QED BY <1>2, <1>4 DEF EffectsFit

\* One transition after another.
LEMMA StraightThen ==
  ASSUME NEW ms, NEW r, Straight(ms, r), r.eff \in Seq(Effects), NEW more \in Seq(Effects),
         NEW q, q.eff = r.eff \o more, q.ms.ok => r.ms.ok, Straight(r.ms, Result(q.ms, more))
  PROVE  Straight(ms, q)
<1> SUFFICES ASSUME Fixed, Simple(ms), q.ms.ok
             PROVE  /\ Simple(q.ms)
                    /\ \A i \in DOMAIN q.eff : q.eff[i].kind # "retry"
                    /\ \A a \in DOMAIN q.ms.acts :
                         \/ a \in DOMAIN ms.acts
                         \/ \E i \in DOMAIN q.eff : q.eff[i].kind = "activity" /\ q.eff[i].ev = a
  BY DEF Straight
<1> DEFINE Sent(eff, a) == \E i \in DOMAIN eff : eff[i].kind = "activity" /\ eff[i].ev = a
<1>1. /\ Simple(r.ms) /\ (\A i \in DOMAIN r.eff : r.eff[i].kind # "retry")
      /\ \A a \in DOMAIN r.ms.acts : a \in DOMAIN ms.acts \/ Sent(r.eff, a)
  BY DEF Straight
<1>2. /\ Simple(q.ms) /\ (\A i \in DOMAIN more : more[i].kind # "retry")
      /\ \A a \in DOMAIN q.ms.acts : a \in DOMAIN r.ms.acts \/ Sent(more, a)
  BY <1>1 DEF Straight, Result
<1>3. /\ \A i \in DOMAIN q.eff : \/ i \in DOMAIN r.eff /\ q.eff[i] = r.eff[i]
                                 \/ i - Len(r.eff) \in DOMAIN more /\ q.eff[i] = more[i - Len(r.eff)]
      /\ \A i \in DOMAIN r.eff : i \in DOMAIN q.eff /\ q.eff[i] = r.eff[i]
      /\ \A i \in DOMAIN more : Len(r.eff) + i \in DOMAIN q.eff /\ q.eff[Len(r.eff) + i] = more[i]
  BY SMTT(30)
<1>4. \A a : Sent(r.eff, a) \/ Sent(more, a) => Sent(q.eff, a)
  <2> TAKE a
  <2>1. ASSUME NEW i \in DOMAIN r.eff, r.eff[i].kind = "activity", r.eff[i].ev = a PROVE Sent(q.eff, a)
    <3>1. i \in DOMAIN q.eff /\ q.eff[i] = r.eff[i]
      BY <1>3
    <3> QED BY <2>1, <3>1
  <2>2. ASSUME NEW i \in DOMAIN more, more[i].kind = "activity", more[i].ev = a PROVE Sent(q.eff, a)
    <3> DEFINE j == Len(r.eff) + i
    <3>1. j \in DOMAIN q.eff /\ q.eff[j] = more[i]
      BY <1>3
    <3> HIDE DEF j
    <3> QED BY <2>2, <3>1
  <2> QED BY <2>1, <2>2
<1>5. \A i \in DOMAIN q.eff : q.eff[i].kind # "retry"
  BY <1>1, <1>2, <1>3
<1> QED BY <1>1, <1>2, <1>4, <1>5

LEMMA CommandEvents ==
  ASSUME NEW do \in CommandNames
  PROVE  CommandEvent(do) \in CommandTypes /\ (CommandEvent(do) = "ActScheduled" <=> do = "ScheduleActivity")
BY DEF CommandNames, CommandEvent, CommandTypes, Closing

LEMMA CommandKeeps ==
  ASSUME opt \in Options, NEW t \in Nat \ {0}, NEW r, NEW ms, ms.events \in Seq(Events), NEW c \in Nat,
         NEW s, InBatch(r, ms, c, s, t), NEW cmd \in CommandSet
  PROVE  InBatch(ApplyCommand(r, cmd, c, t), ms, c, s, t)
<1> DEFINE q == ApplyCommand(r, cmd, c, t)
           type == CommandEvent(cmd.do)
           e == [Event(type, t) EXCEPT !.ref = cmd.ev, !.id = cmd.id, !.by = c]
           m == AppendEvent(r.ms, e)
           n == Len(r.ms.events) + 1
<1>1. r.ms \in MutableStates /\ n \in Nat /\ r.ms.events \in Seq(Events)
  BY DEF InBatch, MutableStates
<1>2. q.ms = m /\ q.eff = IF cmd.do = "ScheduleActivity" THEN Append(r.eff, Effect("activity", n, 0)) ELSE r.eff
  BY DEF ApplyCommand, Result, NextEventID
<1>3. /\ type \in CommandTypes /\ type \in EventTypes /\ cmd.ev \in Nat /\ cmd.id \in Ids
      /\ type = "ActScheduled" <=> cmd.do = "ScheduleActivity"
  <2>1. cmd.do \in CommandNames /\ cmd.ev \in Nat /\ cmd.id \in Ids
    BY DEF CommandSet
  <2>2. type \in CommandTypes /\ (type = "ActScheduled" <=> cmd.do = "ScheduleActivity")
    BY <2>1, CommandEvents
  <2> QED BY <2>1, <2>2 DEF CommandTypes, EventTypes, ClosedTypes
<1> HIDE DEF type
<1>4. e \in Events /\ e.type = type /\ e.time = t /\ e.by = c
  BY <1>3 DEF Event, Events
<1> HIDE DEF e, n
<1>5. \A x : EffectsFit(x, q.eff)
  <2>1. CASE cmd.do = "ScheduleActivity"
    <3>1. \A x : EffectsFit(x, r.eff)
      BY DEF InBatch
    <3>2. \A x : EffectsFit(x, <<Effect("activity", n, 0)>>)
      BY <1>1, OneEffect
    <3>3. r.eff \in Seq(Effects)
      BY <3>1 DEF EffectsFit
    <3>4. q.eff = r.eff \o <<Effect("activity", n, 0)>>
      BY <1>2, <2>1, <3>3, SMTT(30)
    <3> QED BY <3>1, <3>2, <3>4, MoreEffects
  <2>2. CASE cmd.do # "ScheduleActivity"
    BY <1>2, <2>2 DEF InBatch
  <2> QED BY <2>1, <2>2
<1>8. m.ok => r.ms.ok
  BY <1>1, Rejects, ApplyRejects DEF AppendEvent
<1>9. Straight(ms, q)
  <2> DEFINE more == IF cmd.do = "ScheduleActivity" THEN <<Effect("activity", n, 0)>> ELSE <<>>
  <2>1. r.eff \in Seq(Effects) /\ Straight(ms, r)
    BY DEF InBatch, EffectsFit
  <2>2. more \in Seq(Effects)
    BY <1>1, OneEffect, NoEffects DEF EffectsFit
  <2>3. q.eff = r.eff \o more
    <3> DEFINE f == Effect("activity", n, 0)
    <3>1. q.eff = IF cmd.do = "ScheduleActivity" THEN Append(r.eff, f) ELSE r.eff
      BY <1>2
    <3>2. more = IF cmd.do = "ScheduleActivity" THEN <<f>> ELSE <<>>
      OBVIOUS
    <3>3. Append(r.eff, f) = r.eff \o <<f>> /\ r.eff = r.eff \o <<>>
      <4> HIDE DEF f
      <4> QED BY <2>1
    <3> HIDE DEF f, more, q
    <3> QED BY <3>1, <3>2, <3>3
  <2>4. Straight(r.ms, Result(m, more))
    <3> SUFFICES ASSUME Fixed, Simple(r.ms), m.ok
                 PROVE  /\ Simple(m)
                        /\ \A i \in DOMAIN more : more[i].kind # "retry"
                        /\ \A a \in DOMAIN m.acts :
                             \/ a \in DOMAIN r.ms.acts
                             \/ \E i \in DOMAIN more : more[i].kind = "activity" /\ more[i].ev = a
      <4> HIDE DEF more, m
      <4> QED BY DEF Straight, Result
    <3>1. Sound(r.ms, t) /\ Completes(r.ms.events, c, s) /\ r.ms.events # <<>>
      BY <1>8 DEF InBatch
    <3>2. Fits(r.ms, e, t)
      BY <1>3, <1>4, <3>1 DEF Fits, TaskEnding, CommandTypes, At, Completes
    <3>3. /\ Simple(m)
          /\ \A a \in DOMAIN m.acts : a \in DOMAIN r.ms.acts \/ (e.type = "ActScheduled" /\ a = Len(r.ms.events) + 1)
      BY <1>3, <1>4, <3>1, <3>2, SimpleAppend DEF CommandTypes
    <3>4. /\ \A i \in DOMAIN more : more[i].kind = "activity"
          /\ cmd.do = "ScheduleActivity" => 1 \in DOMAIN more /\ more[1].kind = "activity" /\ more[1].ev = n
      <4> DEFINE f == Effect("activity", n, 0)
      <4>1. f.kind = "activity" /\ f.ev = n
        BY DEF Effect
      <4>2. more = IF cmd.do = "ScheduleActivity" THEN <<f>> ELSE <<>>
        OBVIOUS
      <4> HIDE DEF f, more
      <4> QED BY <4>1, <4>2
    <3> HIDE DEF more, m
    <3> QED BY <1>3, <1>4, <3>3, <3>4 DEF n
  <2> HIDE DEF more, m, q
  <2> QED BY <1>2, <1>8, <2>1, <2>2, <2>3, <2>4, StraightThen
<1>6. CASE m.ok
  <2>1. r.ms.ok
    BY <1>6, <1>8
  <2>2. /\ Sound(r.ms, t) /\ Extends(ms.events, r.ms.events) /\ r.ms.events # <<>>
        /\ Completes(r.ms.events, c, s) /\ Quietly(r.ms.events, c)
        /\ r.ms.wt.sched = 0 /\ r.ms.wt.started = 0
    BY <2>1 DEF InBatch
  <2>3. Fits(r.ms, e, t)
    BY <1>3, <1>4, <2>2 DEF Fits, TaskEnding, CommandTypes, At, Completes
  <2>4. /\ Sound(m, t) /\ Applied(m, r.ms, e, n)
        /\ Extends(r.ms.events, m.events) /\ m.events # <<>>
    BY <1>6, <2>2, <2>3, AppendSound DEF n
  <2> HIDE DEF m, q
  <2>5. m \in MutableStates /\ m.events \in Seq(Events) /\ m.events = Append(r.ms.events, e)
    BY <2>4 DEF Sound, MutableStates, Applied
  <2>6. Extends(ms.events, m.events)
    BY <1>1, <2>2, <2>4, <2>5, ExtendsOrder
  <2>7. /\ DOMAIN r.ms.events = 1 .. n - 1 /\ DOMAIN m.events = 1 .. n /\ m.events[n] = e
        /\ \A i \in 1 .. n - 1 : m.events[i] = r.ms.events[i]
    BY <1>1, <1>4, <2>5, OneMore DEF n
  <2>8. Completes(m.events, c, s)
    BY <2>2, <2>4 DEF Completes, At, Extends
  <2>9. e.type \notin WakeTypes
    BY <1>3, <1>4 DEF CommandTypes, WakeTypes
  <2>10. Quietly(m.events, c)
    <3>1. \A i \in 1 .. n : i = n \/ i \in 1 .. n - 1
      BY <1>1
    <3> QED BY <2>2, <2>7, <2>9, <3>1 DEF Quietly
  <2>11. m.wt = NoTask \/ m.wt = r.ms.wt
    BY <1>3, <1>4, <2>4 DEF Applied, TaskAfter, CommandTypes, TaskEnding
  <2>12. m.wt.sched = 0 /\ m.wt.started = 0
    BY <2>2, <2>11, NoTaskFields
  <2> QED BY <1>2, <1>5, <1>9, <2>4, <2>5, <2>6, <2>8, <2>10, <2>12 DEF InBatch, q
<1>7. CASE ~m.ok
  <2>1. m \in MutableStates
    <3>1. CASE Terminal(r.ms) \/ ~r.ms.ok \/ ~Applicable(r.ms, e)
      <4>1. m = Reject(r.ms)
        BY <3>1 DEF AppendEvent, Apply
      <4> QED BY <1>1, <4>1, RejectTyped
    <3>2. CASE ~Terminal(r.ms) /\ r.ms.ok /\ Applicable(r.ms, e)
      <4>1. m = Apply(r.ms, e)
        BY <3>2 DEF AppendEvent
      <4>2. Applied(Apply(r.ms, e), r.ms, e, Len(r.ms.events) + 1)
        BY <1>1, <1>4, <3>2, ApplyFields
      <4> QED BY <4>1, <4>2 DEF Applied
    <3> QED BY <3>1, <3>2
  <2> HIDE DEF m, q
  <2> QED BY <1>2, <1>5, <1>7, <1>9, <2>1 DEF InBatch, q
<1> QED BY <1>6, <1>7 DEF q

LEMMA BatchKeeps ==
  ASSUME opt \in Options, NEW t \in Nat \ {0}, NEW done, NEW ms, ms.events \in Seq(Events), NEW c \in Nat, NEW s,
         InBatch(Result(done, <<>>), ms, c, s, t), NEW cmds \in Seq(CommandSet),
         NEW f, IsBatch(f, done, cmds, c, t, Len(cmds))
  PROVE  InBatch(f[Len(cmds)], ms, c, s, t)
<1> DEFINE k == Len(cmds)
           S == {n \in Nat : n <= k => InBatch(f[n], ms, c, s, t)}
<1>0. k \in Nat
  OBVIOUS
<1>1. \A n \in 0 .. k : f[n] = IF n = 0 THEN Result(done, <<>>) ELSE ApplyCommand(f[n - 1], cmds[n], c, t)
  BY DEF IsBatch
<1> HIDE DEF k
<1>2. 0 \in S
  BY <1>0, <1>1
<1>3. ASSUME NEW n \in S PROVE n + 1 \in S
  <2> SUFFICES ASSUME n + 1 <= k PROVE InBatch(f[n + 1], ms, c, s, t)
    OBVIOUS
  <2>1. n \in Nat /\ InBatch(f[n], ms, c, s, t) /\ n + 1 \in 0 .. k /\ n + 1 # 0 /\ (n + 1) - 1 = n
    BY <1>0
  <2>2. f[n + 1] = ApplyCommand(f[n], cmds[n + 1], c, t)
    BY <1>1, <2>1
  <2>3. cmds[n + 1] \in CommandSet
    BY <2>1 DEF k
  <2> QED BY <2>1, <2>2, <2>3, CommandKeeps
<1>4. S = Nat
  <2> HIDE DEF S
  <2> QED BY <1>2, <1>3, Induction DEF S
<1> QED BY <1>0, <1>4 DEF k

\* The event that completes the task.
LEMMA CompletedInBatch ==
  ASSUME opt \in Options, NEW ms, NEW t \in Nat \ {0}, Sound(ms, t), ms.events # <<>>, Started(ms),
         NEW seen, Indistinct(ms.events, seen, ms.wt.started)
  PROVE  LET done == AppendEvent(ms, [Event("TaskCompleted", t) EXCEPT !.ref = ms.wt.started,
                                                                      !.seen = seen])
         IN InBatch(Result(done, <<>>), ms, Len(ms.events) + 1, ms.wt.started, t)
<1> DEFINE e == [Event("TaskCompleted", t) EXCEPT !.ref = ms.wt.started, !.seen = seen]
           done == AppendEvent(ms, e)
           n == Len(ms.events) + 1
           r == Result(done, <<>>)
<1>1. /\ ms \in MutableStates /\ ms.ok /\ ms.events \in Seq(Events) /\ ms.wt.started \in Nat
      /\ n \in Nat /\ seen \in Nat
  BY DEF Sound, MutableStates, TaskStates, Indistinct, At
<1>2. /\ e \in Events /\ e.type = "TaskCompleted" /\ e.time = t /\ e.ref = ms.wt.started
      /\ e.seen = seen
  BY <1>1, EmptyId DEF Event, Events, EventTypes
<1>3. r.ms = done /\ r.eff = <<>>
  BY DEF Result
<1> HIDE DEF e, n
<1>4. Fits(ms, e, t)
  BY <1>2 DEF Fits, TaskEnding, CommandTypes
<1>7. Straight(ms, r)
  <2> SUFFICES ASSUME Fixed, Simple(ms), done.ok
               PROVE  Simple(done) /\ \A a \in DOMAIN done.acts : a \in DOMAIN ms.acts
    BY <1>3 DEF Straight
  <2> QED BY <1>2, <1>4, SimpleAppend
<1>5. CASE done.ok
  <2>1. /\ Sound(done, t) /\ Applied(done, ms, e, n)
        /\ Extends(ms.events, done.events) /\ done.events # <<>>
    BY <1>4, <1>5, AppendSound DEF n
  <2> HIDE DEF done, r
  <2>2. done.events = Append(ms.events, e) /\ done \in MutableStates /\ done.wt = NoTask
    BY <1>2, <2>1 DEF Applied, TaskAfter, TaskEnding
  <2>3. /\ DOMAIN done.events = 1 .. n /\ done.events[n] = e /\ n > 0
    BY <1>1, <1>2, <2>2, OneMore DEF n
  <2>4. Completes(done.events, n, ms.wt.started) /\ Quietly(done.events, n)
    BY <1>1, <1>2, <2>3 DEF Completes, At, Quietly
  <2>5. InBatch(r, ms, n, ms.wt.started, t)
    BY <1>3, <1>7, <2>1, <2>2, <2>4, NoTaskFields, NoEffects DEF InBatch
  <2> QED BY <2>5 DEF done, r, e, n
<1>6. CASE ~done.ok
  <2>1. done \in MutableStates
    <3>1. CASE Terminal(ms) \/ ~Applicable(ms, e)
      <4>1. done = Reject(ms)
        BY <3>1 DEF AppendEvent, Apply
      <4> QED BY <1>1, <4>1, RejectTyped
    <3>2. CASE ~Terminal(ms) /\ Applicable(ms, e)
      <4>1. done = Apply(ms, e)
        BY <3>2 DEF AppendEvent
      <4>2. Applied(Apply(ms, e), ms, e, Len(ms.events) + 1)
        BY <1>1, <1>2, <3>2, ApplyFields
      <4> QED BY <4>1, <4>2 DEF Applied
    <3> QED BY <3>1, <3>2
  <2> HIDE DEF done, r
  <2>2. InBatch(r, ms, n, ms.wt.started, t)
    BY <1>3, <1>6, <1>7, <2>1, NoEffects DEF InBatch
  <2> QED BY <2>2 DEF done, r, e, n
<1> QED BY <1>5, <1>6

LEMMA CompletedTaskLeads ==
  ASSUME opt \in Options, NEW ms, NEW t \in Nat \ {0}, Sound(ms, t), ms.events # <<>>, Started(ms),
         NEW seen, Indistinct(ms.events, seen, ms.wt.started), NEW cmds \in Seq(CommandSet)
  PROVE  LeadsStraight(ms, CompletedTask(ms, seen, cmds, t), t)
<1> DEFINE s == ms.wt.started
           c == Len(ms.events) + 1
           e == [Event("TaskCompleted", t) EXCEPT !.ref = s, !.seen = seen]
           done == AppendEvent(ms, e)
           r == CompleteWorkflowTask(ms, seen, cmds, t)
           q == CompletedTask(ms, seen, cmds, t)
           woken == ScheduleWorkflowTask(r.ms, t)
<1>1. /\ ms \in MutableStates /\ ms.events \in Seq(Events) /\ s \in Nat /\ c \in Nat
      /\ At(ms.events, s, "TaskStarted")
  BY DEF Sound, MutableStates, TaskStates, TaskSound, Started
<1>2. q = IF c - s > 1 /\ ~Terminal(r.ms) THEN Result(woken.ms, r.eff \o woken.eff) ELSE r
  BY DEF CompletedTask, NextEventID
<1>3. CASE ~(ValidateBatch(cmds) /\ PrecheckCommands(ms, cmds))
  <2>1. r = Result(Reject(ms), <<>>)
    BY <1>3 DEF CompleteWorkflowTask
  <2> HIDE DEF r
  <2>2. ~r.ms.ok
    <3>1. r.ms = Reject(ms)
      BY <2>1 DEF Result
    <3> QED BY <1>1, <3>1, Rejects
  <2>3. woken.ms = r.ms
    BY <2>2 DEF ScheduleWorkflowTask, Result
  <2>4. ~q.ms.ok
    BY <1>2, <2>2, <2>3 DEF Result
  <2> QED BY <2>4 DEF Leads, LeadsStraight, Straight
<1>4. CASE ValidateBatch(cmds) /\ PrecheckCommands(ms, cmds)
  <2>1. \E f : IsBatch(f, done, cmds, c, t, Len(cmds))
    <3>1. Len(cmds) \in Nat
      OBVIOUS
    <3> HIDE DEF done, c
    <3> QED BY <3>1, BatchExists
  <2>2. \E f : IsBatch(f, done, cmds, c, t, Len(cmds)) /\ r = f[Len(cmds)]
    BY <1>4, <2>1 DEF CompleteWorkflowTask, IsBatch, NextEventID
  <2>3. InBatch(Result(done, <<>>), ms, c, s, t)
    BY CompletedInBatch
  <2> HIDE DEF done, c, s
  <2>4. InBatch(r, ms, c, s, t)
    BY <1>1, <2>2, <2>3, BatchKeeps
  <2> HIDE DEF r, q
  <2> SUFFICES ASSUME q.ms.ok PROVE LeadsStraight(ms, q, t)
    BY DEF Leads, LeadsStraight, Straight, q, s
  <2>5. CASE c - s > 1 /\ ~Terminal(r.ms)
    <3>1. q.ms = woken.ms /\ q.eff = r.eff \o woken.eff
      BY <1>2, <2>5 DEF Result
    <3>2. r.ms.ok
      BY <3>1 DEF ScheduleWorkflowTask, Result
    <3>3. Sound(r.ms, t) /\ Extends(ms.events, r.ms.events) /\ r.ms.events # <<>> /\ r.ms.wt.started = 0
      BY <2>4, <3>2 DEF InBatch
    <3>4. /\ Sound(woken.ms, t) /\ Extends(r.ms.events, woken.ms.events)
          /\ ~Terminal(woken.ms) => woken.ms.wt.sched # 0
          /\ \A m : EffectsFit(m, woken.eff)
          /\ Straight(r.ms, woken)
      BY <3>1, <3>3, ScheduleSound
    <3> HIDE DEF woken
    <3>8. Straight(ms, q)
      <4>1. r.eff \in Seq(Effects) /\ woken.eff \in Seq(Effects) /\ Straight(ms, r)
        BY <2>4, <3>4 DEF InBatch, EffectsFit
      <4>2. Straight(r.ms, Result(q.ms, woken.eff))
        BY <3>1, <3>4 DEF Straight, Result
      <4> QED BY <3>1, <3>2, <4>1, <4>2, StraightThen
    <3>5. Extends(ms.events, q.ms.events)
      BY <3>1, <3>3, <3>4, ExtendsOrder DEF Sound, MutableStates
    <3>6. EffectsFit(q.ms, q.eff)
      BY <2>4, <3>1, <3>4, MoreEffects DEF InBatch
    <3>7. Awake(q.ms)
      BY <3>1, <3>4 DEF Awake
    <3> QED BY <3>1, <3>4, <3>5, <3>6, <3>7, <3>8 DEF Leads, LeadsStraight
  <2>6. CASE ~(c - s > 1 /\ ~Terminal(r.ms))
    <3>1. q = r /\ r.ms.ok
      BY <1>2, <2>6
    <3>2. /\ Sound(r.ms, t) /\ Extends(ms.events, r.ms.events) /\ r.ms.wt.started = 0
          /\ Completes(r.ms.events, c, s) /\ Quietly(r.ms.events, c)
          /\ EffectsFit(r.ms, r.eff) /\ Straight(ms, r)
      BY <2>4, <3>1 DEF InBatch
    <3>3. Awake(r.ms)
      <4> SUFFICES ASSUME ~Terminal(r.ms), NEW i \in DOMAIN r.ms.events, r.ms.events[i].type \in WakeTypes
                   PROVE  s > i
        BY <3>2 DEF Awake, Completes, At
      <4>1. i \in Nat /\ DOMAIN ms.events = 1 .. (c - 1)
        BY <1>1, <3>2 DEF Sound, MutableStates, c
      <4>2. c - 1 <= s
        BY <1>1, <2>6
      <4>3. i <= c /\ i # c
        BY <1>1, <3>2, <4>1 DEF Quietly, Completes, At, WakeTypes
      <4>4. i # s
        BY <1>1, <3>2 DEF At, Extends, WakeTypes
      <4>5. s <= c - 1
        BY <1>1, <4>1 DEF At
      <4> QED BY <1>1, <4>1, <4>2, <4>3, <4>4, <4>5
    <3> QED BY <3>1, <3>2, <3>3 DEF Leads, LeadsStraight
  <2> QED BY <2>5, <2>6
<1> QED BY <1>3, <1>4 DEF q, s

-------------------------------------------------------------------------------
\* The settings of a run never change, so what they determine does not either.

LEMMA FrozenChanged ==
  ASSUME opt' = opt, NEW ms, NEW e, NEW n PROVE Changed(ms, e, n)' = Changed(ms, e, n)
BY DEF Changed, Deadline, RunTimeout, TaskTimeout, NewActivity, ScheduleToClose, StartedActivity,
   StartToClose, HeartbeatTimeout, TimerDelay, Close, Put1, Remove1, NoTask, NoEntry, ClosedTypes

LEMMA FrozenApply ==
  ASSUME opt' = opt, NEW ms, NEW e PROVE Apply(ms, e)' = Apply(ms, e)
<1>1. \A n : Changed(ms, e, n)' = Changed(ms, e, n)
  BY FrozenChanged
<1>2. Applicable(ms, e)' = Applicable(ms, e)
  BY DEF Applicable, Scheduled, Started
<1> QED BY <1>1, <1>2 DEF Apply, NextEventID, Reject

LEMMA FrozenFromLog ==
  ASSUME opt' = opt, NEW S, NEW h \in Seq(S) PROVE FromLog(h)' = FromLog(h)
<1> DEFINE k == Len(h)
<1>1. \A ms, e : Apply(ms, e)' = Apply(ms, e)
  BY FrozenApply
<1>2. WellFormed(h)' <=> WellFormed(h)
  BY DEF WellFormed, RefType, PointsTo, CommandTypes, ClosedTypes
<1>3. NewMutableState' = NewMutableState /\ k \in Nat
  BY DEF NewMutableState, NoTask, NoEntry
<1>4. CASE WellFormed(h)
  <2>1. PICK g : IsReplay(g, h, k)
    BY <1>3, ReplayExists
  <2>3. \A f : IsReplay(f, h, k)' <=> IsReplay(f, h, k)
    BY <1>1, <1>3 DEF IsReplay
  <2>4. \E f : IsReplay(f, h, k)' /\ FromLog(h)' = f[k]
    <3>1. IsReplay(g, h, k)'
      BY <2>1, <2>3
    <3> QED BY <1>2, <1>4, <3>1 DEF FromLog, IsReplay
  <2>5. \E f : IsReplay(f, h, k) /\ FromLog(h)' = f[k]
    BY <2>3, <2>4
  <2>6. \E f : IsReplay(f, h, k) /\ FromLog(h) = f[k]
    BY <1>4, FromLogIs
  <2> QED BY <1>3, <2>5, <2>6, ReplayUnique
<1>5. CASE ~WellFormed(h)
  BY <1>2, <1>3, <1>5 DEF FromLog, Reject
<1> QED BY <1>4, <1>5

LEMMA FrozenSets == ASSUME opt' = opt PROVE MutableStates' = MutableStates /\ Events' = Events
BY DEF MutableStates, Events, TaskStates, ActStates, TimerStates, Pending, Ids, Workers, ActivityIds,
   TimerIds, EventTypes, ClosedTypes

LEMMA FrozenSound ==
  ASSUME opt' = opt, NEW ms, NEW t PROVE Sound(ms, t)' <=> Sound(ms, t)
<1>1. ms \in MutableStates' <=> ms \in MutableStates
  BY FrozenSets
<1>2. CASE ms \notin MutableStates
  BY <1>1, <1>2 DEF Sound
<1>3. CASE ms \in MutableStates
  <2>1. FromLog(ms.events)' = FromLog(ms.events)
    BY <1>3, FrozenFromLog DEF MutableStates
  <2>2. Replays(ms)' <=> Replays(ms)
    BY <2>1, FrozenSets DEF Replays, Alike, SameActs
  <2>3. WellFormed(ms.events)' <=> WellFormed(ms.events)
    BY DEF WellFormed, RefType, PointsTo, CommandTypes, ClosedTypes
  <2>4. TaskSound(ms)' <=> TaskSound(ms)
    BY DEF TaskSound, At, TaskTimeout
  <2>5. ActsSound(ms)' <=> ActsSound(ms)
    BY DEF ActsSound, At, Resolving
  <2>6. TimersSound(ms)' <=> TimersSound(ms)
    BY DEF TimersSound, At, TimerDelay
  <2>7. RunSound(ms, t)' <=> RunSound(ms, t)
    BY DEF RunSound, Deadline, RunTimeout, Terminal, ClosedTypes
  <2>8. /\ Currently(ms.events)' <=> Currently(ms.events)
        /\ Timely(ms.events)' <=> Timely(ms.events)
        /\ ResolvedOnce(ms.events)' <=> ResolvedOnce(ms.events)
    BY DEF Currently, Timely, ResolvedOnce, TimerDelay, TaskTimeout, RunTimeout, Resolving
  <2> QED BY <1>1, <2>2, <2>3, <2>4, <2>5, <2>6, <2>7, <2>8 DEF Sound
<1> QED BY <1>2, <1>3

LEMMA FrozenAwake ==
  ASSUME NEW ms PROVE Awake(ms)' <=> Awake(ms)
BY DEF Awake, Terminal, WakeTypes

-------------------------------------------------------------------------------
\* Timers.

TimerKinds == {"Execution", "Task", "User", "Activity", "Retry", "WorkflowRetry"}
TimerRecords == [kind : TimerKinds, ev : Nat, at : Nat, attempt : Nat]

TimerFits(r, h) ==
  /\ r \in TimerRecords /\ r.at # 0 /\ r.ev \in DOMAIN h
  /\ r.kind = "User" => r.at = h[r.ev].time + TimerDelay
  /\ r.kind = "Task" => r.at = h[r.ev].time + TaskTimeout
  /\ r.kind = "Execution" => r.ev = 1 /\ r.at = Deadline(h[r.ev].time, RunTimeout)

OneEach(S) == \A r, s \in S : r.kind = s.kind /\ r.ev = s.ev => r = s

TimersFit(S, h) == (\A r \in S : TimerFits(r, h)) /\ OneEach(S)

LEMMA KeyIs == ASSUME NEW r, NEW s PROVE Key(r) = Key(s) <=> r.kind = s.kind /\ r.ev = s.ev
BY DEF Key

LEMMA FitLater ==
  ASSUME NEW S, NEW h, NEW g, Extends(h, g)
  PROVE  /\ \A r : TimerFits(r, h) => TimerFits(r, g)
         /\ TimersFit(S, h) => TimersFit(S, g)
<1>1. \A r : TimerFits(r, h) => TimerFits(r, g)
  BY DEF TimerFits, Extends
<1> QED BY <1>1 DEF TimersFit

LEMMA FitTogether ==
  ASSUME NEW S, NEW T, NEW h, TimersFit(S, h), TimersFit(T, h),
         \A r \in S : \A s \in T : ~(r.kind = s.kind /\ r.ev = s.ev)
  PROVE  TimersFit(S \cup T, h)
BY DEF TimersFit, OneEach

LEMMA WithoutFits ==
  ASSUME NEW S, NEW h, TimersFit(S, h), NEW keys
  PROVE  TimersFit(Without(S, keys), h)
BY DEF TimersFit, OneEach, Without

\* Upserts by key.
LEMMA UpsertFits ==
  ASSUME NEW S, NEW T, NEW h, TimersFit(S, h), TimersFit(T, h), NEW keys, Keys(T) \subseteq keys
  PROVE  TimersFit(Without(S, keys) \cup T, h)
<1>1. TimersFit(Without(S, keys), h)
  BY WithoutFits
<1>2. ASSUME NEW r \in Without(S, keys), NEW s \in T, r.kind = s.kind /\ r.ev = s.ev PROVE FALSE
  <2>1. Key(r) = Key(s) /\ Key(r) \notin keys
    BY <1>2, KeyIs DEF Without
  <2> QED BY <2>1 DEF Keys
<1> QED BY <1>1, <1>2, FitTogether

LEMMA EarliestNat ==
  ASSUME NEW a \in Nat, NEW b \in Nat, NEW c \in Nat PROVE Earliest({a, b, c}) \in Nat
<1> DEFINE S == {a, b, c} \ {0}
<1>1. CASE {a, b, c} \subseteq {0}
  BY <1>1 DEF Earliest
<1>2. CASE ~({a, b, c} \subseteq {0})
  <2>1. \E t \in S : \A u \in S : t <= u
    BY <1>2
  <2>2. Earliest({a, b, c}) \in S
    BY <1>2, <2>1 DEF Earliest
  <2> QED BY <2>2
<1> QED BY <1>1, <1>2

LEMMA ActivityDeadlineNat ==
  ASSUME opt \in Options, NEW act \in ActStates PROVE ActivityDeadline(act) \in Nat
<1>1. /\ act.attemptDl \in Nat /\ act.beatDl \in Nat /\ act.closeDl \in Nat
      /\ Deadline(act.at, ScheduleToStart) \in Nat
  BY Settings, DeadlineNat DEF ActStates
<1>2. ScheduleToStartDl(act) \in Nat
  BY <1>1 DEF ScheduleToStartDl
<1> QED BY <1>1, <1>2, EarliestNat DEF ActivityDeadline

LEMMA TimerFields ==
  ASSUME NEW kind, NEW ev, NEW at, NEW attempt
  PROVE  LET r == Timer(kind, ev, at, attempt)
         IN /\ r.kind = kind /\ r.ev = ev /\ r.at = at /\ r.attempt = attempt
            /\ kind \in TimerKinds /\ ev \in Nat /\ at \in Nat /\ attempt \in Nat => r \in TimerRecords
BY DEF Timer, TimerRecords

LEMMA DerivedFit ==
  ASSUME opt \in Options, NEW ms, NEW t, Sound(ms, t), ms.events # <<>>
  PROVE  /\ TimersFit(DerivedTimers(ms), ms.events)
         /\ \A r \in DerivedTimers(ms) : r.kind \notin {"Retry", "WorkflowRetry"}
<1> DEFINE h == ms.events
           E == IF ms.runDl # 0 THEN {Timer("Execution", 1, ms.runDl, 0)} ELSE {}
           T == IF Started(ms) THEN {Timer("Task", ms.wt.started, ms.wt.deadline, 0)} ELSE {}
           U == {Timer("User", k, ms.timers[k].at, 0) : k \in DOMAIN ms.timers}
           A == {Timer("Activity", a, ActivityDeadline(ms.acts[a]), ms.acts[a].attempt) :
                   a \in {a \in DOMAIN ms.acts : ActivityDeadline(ms.acts[a]) # 0}}
<1>1. ms \in MutableStates /\ h \in Seq(Events) /\ 1 \in DOMAIN h /\ ms.runDl \in Nat
  BY DEF Sound, MutableStates
<1>2. TimersFit(E, h) /\ \A r \in E : r.kind = "Execution"
  <2> DEFINE r == Timer("Execution", 1, ms.runDl, 0)
  <2>1. r.kind = "Execution" /\ r.ev = 1 /\ r.at = ms.runDl /\ r \in TimerRecords
    BY <1>1, TimerFields DEF TimerKinds
  <2>0. ms.runDl = Deadline(h[1].time, RunTimeout)
    BY DEF Sound, RunSound
  <2> HIDE DEF r, h
  <2>2. E = IF ms.runDl # 0 THEN {r} ELSE {}
    BY DEF r
  <2> HIDE DEF E
  <2> QED BY <1>1, <2>0, <2>1, <2>2 DEF TimersFit, TimerFits, OneEach
<1>3. TimersFit(T, h) /\ \A r \in T : r.kind = "Task"
  <2> DEFINE r == Timer("Task", ms.wt.started, ms.wt.deadline, 0)
  <2>1. r.kind = "Task" /\ r.ev = ms.wt.started /\ r.at = ms.wt.deadline /\ r \in TimerRecords
    BY <1>1, TimerFields DEF TimerKinds, MutableStates, TaskStates
  <2>2. Started(ms) => /\ ms.wt.started \in DOMAIN h /\ ms.wt.deadline # 0
                       /\ ms.wt.deadline = h[ms.wt.started].time + TaskTimeout
    <3> SUFFICES ASSUME Started(ms)
                 PROVE  /\ ms.wt.started \in DOMAIN h /\ ms.wt.deadline # 0
                        /\ ms.wt.deadline = h[ms.wt.started].time + TaskTimeout
      OBVIOUS
    <3>1. ms.wt.started \in DOMAIN h /\ ms.wt.deadline = h[ms.wt.started].time + TaskTimeout
      BY DEF Sound, TaskSound, At, Started
    <3>2. h[ms.wt.started].time \in Nat /\ TaskTimeout \in Nat \ {0}
      BY <1>1, <3>1, EventTyped, Settings
    <3> HIDE DEF h
    <3> QED BY <3>1, <3>2
  <2> HIDE DEF r, h
  <2>3. T = IF Started(ms) THEN {r} ELSE {}
    BY DEF r
  <2> HIDE DEF T
  <2> QED BY <1>1, <2>1, <2>2, <2>3 DEF TimersFit, TimerFits, OneEach
<1>4. TimersFit(U, h) /\ \A r \in U : r.kind = "User"
  <2>1. ASSUME NEW k \in DOMAIN ms.timers
        PROVE  LET r == Timer("User", k, ms.timers[k].at, 0)
               IN TimerFits(r, h) /\ r.kind = "User" /\ r.ev = k
    <3> DEFINE r == Timer("User", k, ms.timers[k].at, 0)
    <3>1. k \in Nat /\ ms.timers[k].at \in Nat
      BY <1>1, PendingTyped DEF TimerStates
    <3>2. k \in DOMAIN h /\ ms.timers[k].at = h[k].time + TimerDelay
      BY DEF Sound, TimersSound, At
    <3>3. h[k].time \in Nat /\ TimerDelay \in Nat \ {0}
      BY <1>1, <3>2, EventTyped, Settings
    <3>4. ms.timers[k].at # 0
      <4> HIDE DEF h
      <4> QED BY <3>2, <3>3
    <3>5. r.kind = "User" /\ r.ev = k /\ r.at = ms.timers[k].at /\ r \in TimerRecords
      BY <3>1, TimerFields DEF TimerKinds
    <3> HIDE DEF r, h
    <3>6. TimerFits(r, h)
      BY <3>2, <3>4, <3>5 DEF TimerFits
    <3> QED BY <3>5, <3>6 DEF r
  <2> HIDE DEF h
  <2>2. \A r \in U : TimerFits(r, h) /\ r.kind = "User" /\ r.ev \in DOMAIN ms.timers /\ r = Timer("User", r.ev, ms.timers[r.ev].at, 0)
    BY <2>1
  <2> HIDE DEF U
  <2> QED BY <2>2 DEF TimersFit, OneEach
<1>5. TimersFit(A, h) /\ \A r \in A : r.kind = "Activity"
  <2> DEFINE D(a) == ActivityDeadline(ms.acts[a])
  <2>1. ASSUME NEW a \in DOMAIN ms.acts, D(a) # 0
        PROVE  LET r == Timer("Activity", a, D(a), ms.acts[a].attempt)
               IN TimerFits(r, h) /\ r.kind = "Activity" /\ r.ev = a
    <3> DEFINE r == Timer("Activity", a, D(a), ms.acts[a].attempt)
    <3>1. a \in Nat /\ D(a) \in Nat /\ ms.acts[a].attempt \in Nat
      <4>1. a \in Nat /\ ms.acts[a] \in ActStates
        BY <1>1, PendingTyped
      <4> QED BY <4>1, ActivityDeadlineNat DEF ActStates
    <3>2. a \in DOMAIN h
      BY DEF Sound, ActsSound, At
    <3>3. r.kind = "Activity" /\ r.ev = a /\ r.at = D(a) /\ r \in TimerRecords
      BY <3>1, TimerFields DEF TimerKinds
    <3> HIDE DEF r, h, D
    <3>4. TimerFits(r, h)
      BY <2>1, <3>2, <3>3 DEF TimerFits
    <3> QED BY <3>3, <3>4 DEF r
  <2> HIDE DEF h
  <2>2. \A r \in A : TimerFits(r, h) /\ r.kind = "Activity" /\ r = Timer("Activity", r.ev, D(r.ev), ms.acts[r.ev].attempt)
    BY <2>1
  <2> HIDE DEF A, D
  <2> QED BY <2>2 DEF TimersFit, OneEach
<1>6. DerivedTimers(ms) = E \cup T \cup U \cup A
  BY DEF DerivedTimers
<1> HIDE DEF E, T, U, A, h
<1>7. TimersFit(E \cup T, h)
  BY <1>2, <1>3, FitTogether
<1>8. TimersFit((E \cup T) \cup U, h)
  BY <1>2, <1>3, <1>4, <1>7, FitTogether
<1>9. TimersFit(((E \cup T) \cup U) \cup A, h)
  BY <1>2, <1>3, <1>4, <1>5, <1>8, FitTogether
<1> QED BY <1>2, <1>3, <1>4, <1>5, <1>6, <1>9 DEF h

\* What a run should have armed.
LEMMA DesiredFit ==
  ASSUME opt \in Options, NEW ms, NEW t, Sound(ms, t), ms.events # <<>>,
         NEW armed, TimersFit(armed, ms.events), NEW arm, TimersFit(arm, ms.events), NEW drop
  PROVE  TimersFit(DesiredTimers(ms, armed, arm, drop), ms.events)
<1> DEFINE h == ms.events
           carried == {r \in armed : \/ r.kind = "WorkflowRetry"
                                     \/ r.kind = "Retry" /\ r.ev \in DOMAIN ms.acts}
           derived == IF Terminal(ms) THEN {} ELSE DerivedTimers(ms)
<1>1. TimersFit(carried, h) /\ \A r \in carried : r.kind \in {"Retry", "WorkflowRetry"}
  BY DEF TimersFit, OneEach
<1>2. TimersFit(derived, h) /\ \A r \in derived : r.kind \notin {"Retry", "WorkflowRetry"}
  <2>1. TimersFit({}, h)
    BY DEF TimersFit, OneEach
  <2> QED BY <2>1, DerivedFit
<1>3. DesiredTimers(ms, armed, arm, drop) = Without(Without(carried \cup derived, Keys(arm)) \cup arm, drop)
  BY DEF DesiredTimers
<1> HIDE DEF h, carried, derived
<1>4. TimersFit(carried \cup derived, h)
  BY <1>1, <1>2, FitTogether
<1>5. TimersFit(Without(carried \cup derived, Keys(arm)) \cup arm, h)
  BY <1>4, UpsertFits DEF h
<1> QED BY <1>3, <1>5, WithoutFits DEF h

LEMMA RetryTimersFit ==
  ASSUME NEW ms, NEW t, Sound(ms, t), NEW eff, EffectsFit(ms, eff)
  PROVE  TimersFit(RetryTimers(ms, eff), ms.events)
<1> DEFINE R == {i \in DOMAIN eff : eff[i].kind = "retry"}
           N(i) == Timer("Retry", eff[i].ev, eff[i].at, ms.acts[eff[i].ev].attempt)
<1>1. ASSUME NEW i \in R PROVE TimerFits(N(i), ms.events) /\ i = 1
  <2> DEFINE r == N(i)
  <2>1. /\ eff \in Seq(Effects) /\ eff[i] \in Effects /\ eff[i].ev \in DOMAIN ms.acts /\ eff[i].at # 0
        /\ Len(eff) = 1
    BY DEF EffectsFit
  <2>2. eff[i].ev \in Nat /\ eff[i].at \in Nat /\ ms.acts[eff[i].ev].attempt \in Nat
    BY <2>1, PendingTyped DEF Sound, Effects, ActStates
  <2>3. r.kind = "Retry" /\ r.ev = eff[i].ev /\ r.at = eff[i].at /\ r \in TimerRecords
    BY <2>2, TimerFields DEF TimerKinds
  <2>4. eff[i].ev \in DOMAIN ms.events
    BY <2>1 DEF Sound, ActsSound, At
  <2> HIDE DEF r
  <2>5. TimerFits(r, ms.events)
    BY <2>1, <2>3, <2>4 DEF TimerFits
  <2>6. i = 1
    BY <2>1
  <2> QED BY <2>5, <2>6 DEF r
<1>2. RetryTimers(ms, eff) = {N(i) : i \in R}
  BY DEF RetryTimers
<1> HIDE DEF N, R
<1>3. \A r \in RetryTimers(ms, eff) : TimerFits(r, ms.events) /\ r = N(1)
  BY <1>1, <1>2
<1> QED BY <1>3 DEF TimersFit, OneEach

-------------------------------------------------------------------------------
\* References.

RefsFit(rf) == IsABag(rf) /\ \A ref \in DOMAIN rf : ref.attempt \in Nat

LEMMA TaskRefFits == ASSUME NEW ev PROVE TaskRef(ev).attempt \in Nat
BY DEF TaskRef

LEMMA ActivityRefFits ==
  ASSUME NEW ms \in MutableStates, NEW ev PROVE ActivityRef(ms, ev).attempt \in Nat
<1>1. ev \in DOMAIN ms.acts => ms.acts[ev].attempt \in Nat
  BY PendingTyped DEF ActStates
<1> QED BY <1>1 DEF ActivityRef

LEMMA SetToBagFits ==
  ASSUME NEW S, \A ref \in S : ref.attempt \in Nat PROVE RefsFit(SetToBag(S))
BY DEF RefsFit, IsABag, SetToBag

LEMMA EmptyBagFits == RefsFit(EmptyBag)
BY DEF RefsFit, IsABag, EmptyBag, SetToBag

LEMMA TakenFits ==
  ASSUME NEW rf, RefsFit(rf), NEW ref PROVE RefsFit(rf (-) SetToBag({ref}))
<1> DEFINE b == [e \in DOMAIN rf |-> IF e \in {ref} THEN rf[e] - SetToBag({ref})[e] ELSE rf[e]]
           c == [e \in {d \in DOMAIN b : b[d] > 0} |-> b[e]]
<1>1. rf (-) SetToBag({ref}) = c
  BY DEF (-), SetToBag
<1>2. \A e \in DOMAIN rf : rf[e] \in Nat /\ rf[e] > 0
  BY DEF RefsFit, IsABag
<1>3. \A e \in DOMAIN c : e \in DOMAIN rf /\ c[e] \in Nat /\ c[e] > 0
  BY <1>2 DEF SetToBag
<1>4. c = [e \in DOMAIN c |-> c[e]]
  OBVIOUS
<1> HIDE DEF c
<1> QED BY <1>1, <1>3, <1>4 DEF RefsFit, IsABag

LEMMA AddedFits ==
  ASSUME NEW rf, RefsFit(rf), NEW more, RefsFit(more) PROVE RefsFit(rf (+) more)
<1> DEFINE c == rf (+) more
<1>1. DOMAIN c = DOMAIN rf \cup DOMAIN more /\ c = [e \in DOMAIN c |-> c[e]]
  BY DEF (+)
<1>2. \A e \in DOMAIN rf : rf[e] \in Nat /\ rf[e] > 0
  BY DEF RefsFit, IsABag
<1>3. \A e \in DOMAIN more : more[e] \in Nat /\ more[e] > 0
  BY DEF RefsFit, IsABag
<1>4. \A e \in DOMAIN c : c[e] \in Nat /\ c[e] > 0
  BY <1>2, <1>3 DEF (+)
<1> HIDE DEF c
<1>5. IsABag(c)
  BY <1>1, <1>4 DEF IsABag
<1>6. \A ref \in DOMAIN c : ref.attempt \in Nat
  BY <1>1 DEF RefsFit
<1> QED BY <1>5, <1>6 DEF RefsFit, c

LEMMA DispatchedFits ==
  ASSUME NEW ms \in MutableStates, NEW eff \in Seq(Effects) PROVE RefsFit(Dispatched(ms, eff))
<1> DEFINE Ref(e) == IF e.kind = "workflow" THEN TaskRef(e.ev) ELSE ActivityRef(ms, e.ev)
           sends == {i \in DOMAIN eff : eff[i].kind \in {"workflow", "activity"}}
           S(ref) == {i \in sends : Ref(eff[i]) = ref}
           D == {Ref(eff[i]) : i \in sends}
           c == [ref \in D |-> Cardinality(S(ref))]
<1>1. Dispatched(ms, eff) = c
  BY DEF Dispatched
<1>2. \A ref \in D : ref.attempt \in Nat
  BY TaskRefFits, ActivityRefFits
<1>3. ASSUME NEW ref \in D PROVE Cardinality(S(ref)) \in Nat /\ Cardinality(S(ref)) > 0
  <2>1. IsFiniteSet(1 .. Len(eff))
    BY FS_Interval
  <2>2. \A i \in S(ref) : i \in 1 .. Len(eff)
    OBVIOUS
  <2>3. S(ref) # {}
    OBVIOUS
  <2> HIDE DEF S
  <2>4. IsFiniteSet(S(ref))
    BY <2>1, <2>2, FS_Subset
  <2>5. Cardinality(S(ref)) \in Nat /\ Cardinality(S(ref)) # 0
    BY <2>3, <2>4, FS_CardinalityType, FS_EmptySet
  <2> QED BY <2>5
<1> HIDE DEF D, S
<1>4. IsABag(c)
  BY <1>3 DEF IsABag
<1>5. \A ref \in DOMAIN c : ref.attempt \in Nat
  BY <1>2
<1> HIDE DEF c
<1> QED BY <1>1, <1>4, <1>5 DEF RefsFit

-------------------------------------------------------------------------------
\* The write path.

StateOf(c, h) == IF c = NoState THEN FromLog(h) ELSE c.ms

Standing(ms, h, t) == Sound(ms, t) /\ Awake(ms) /\ ms.events = h /\ h # <<>>

\* The store and the cache agree, and every timer is about this log.
Kept(c, h, ix, t) ==
  /\ h \in Seq(Events)
  /\ Standing(StateOf(c, h), h, t)
  /\ c # NoState => TimersFit(c.armed, h)
  /\ TimersFit(ix, h)

LEMMA CacheIs ==
  ASSUME NEW ms, NEW armed, NEW h, ms.events # <<>>
  PROVE  LET c == [ms |-> ms, armed |-> armed]
         IN c # NoState /\ c.armed = armed /\ StateOf(c, h) = ms
<1> DEFINE c == [ms |-> ms, armed |-> armed]
<1>1. c.ms = ms /\ c.armed = armed
  OBVIOUS
<1>2. NoState.ms.events = <<>>
  BY DEF NoState, NewMutableState
<1> HIDE DEF c
<1>3. c # NoState
  BY <1>1, <1>2
<1> QED BY <1>1, <1>3 DEF StateOf, c

\* A dropped cache entry costs a replay.
LEMMA EvictKeeps ==
  ASSUME NEW c, NEW h, NEW ix, NEW t, Kept(c, h, ix, t)
  PROVE  Kept(NoState, h, ix, t)
<1> DEFINE ms == StateOf(c, h)
           r == FromLog(h)
<1>1. Sound(ms, t) /\ Awake(ms) /\ ms.events = h /\ h # <<>>
  BY DEF Kept, Standing
<1>2. StateOf(NoState, h) = r
  BY DEF StateOf
<1> HIDE DEF ms
<1>3. r \in MutableStates /\ r.ok /\ Alike(r, ms)
  BY <1>1 DEF Sound, Replays
<1> HIDE DEF r
<1>4. Alike(ms, r)
  BY <1>3, AlikeOrder
<1>5. Sound(r, t)
  BY <1>1, <1>3, <1>4, SoundAlike
<1>6. r.events = h /\ r.wt = ms.wt /\ r.status = ms.status
  BY <1>1, <1>3 DEF Alike
<1>7. Awake(r)
  BY <1>1, <1>6 DEF Awake, Terminal
<1>8. Kept(NoState, h, ix, t)
  BY <1>1, <1>2, <1>5, <1>6, <1>7 DEF Kept, Standing
<1> QED BY <1>8

\* What a transition hands to the write path.
Fine(out) ==
  out.ms.ok =>
    /\ Sound(out.ms, now) /\ Awake(out.ms) /\ Extends(hist, out.ms.events)
    /\ EffectsFit(out.ms, out.eff)
    /\ out.noop => out.ms = State

LEMMA CommitKeeps ==
  ASSUME opt \in Options, Kept(cache, hist, index, now), NEW out, Fine(out), out.ms.ok, Commit(out)
  PROVE  /\ Kept(cache', hist', index', now)
         /\ Extends(hist, hist')
         /\ StateOf(cache', hist') = out.ms
<1> DEFINE m == out.ms
           g == out.ms.events
           want == DesiredTimers(m, Armed, RetryTimers(m, out.eff), out.drop)
           diff == DiffTimers(Armed, want)
           keys == (diff.deletes \cup (out.drop \ Keys(want))) \cup Keys(diff.upserts)
<1>1. /\ hist' = g /\ cache' = [ms |-> m, armed |-> want]
      /\ index' = IF Terminal(m) THEN {} ELSE Without(index, keys) \cup diff.upserts
  BY DEF Commit
<1>2. /\ Sound(m, now) /\ Awake(m) /\ Extends(hist, g) /\ EffectsFit(m, out.eff)
  BY DEF Fine
<1>3. hist \in Seq(Events) /\ hist # <<>> /\ TimersFit(index, hist)
  BY DEF Kept, Standing
<1>4. g \in Seq(Events) /\ g # <<>>
  BY <1>2, <1>3 DEF Sound, MutableStates, Extends
<1>5. TimersFit(Armed, hist)
  BY DEF Armed, Kept, TimersFit, OneEach
<1>6. TimersFit(Armed, g) /\ TimersFit(index, g)
  BY <1>2, <1>3, <1>5, FitLater
<1>7. TimersFit(RetryTimers(m, out.eff), g)
  BY <1>2, RetryTimersFit
<1>8. TimersFit(want, g)
  <2> HIDE DEF m
  <2> QED BY <1>2, <1>4, <1>6, <1>7, DesiredFit DEF m
<1>9. diff.upserts = want \ Armed
  BY DEF DiffTimers
<1> HIDE DEF want, diff
<1>10. TimersFit(diff.upserts, g)
  BY <1>8, <1>9 DEF TimersFit, OneEach
<1>11. TimersFit(index', g)
  <2>1. TimersFit({}, g)
    BY DEF TimersFit, OneEach
  <2>2. TimersFit(Without(index, keys) \cup diff.upserts, g)
    BY <1>6, <1>10, UpsertFits
  <2> QED BY <1>1, <2>1, <2>2
<1>12. cache' # NoState /\ cache'.armed = want /\ StateOf(cache', hist') = m
  BY <1>1, <1>4, CacheIs
<1> QED BY <1>1, <1>2, <1>4, <1>8, <1>11, <1>12 DEF Kept, Standing

LEMMA MutateKeeps ==
  ASSUME opt \in Options, Kept(cache, hist, index, now), NEW out, Fine(out), Mutate(out)
  PROVE  /\ Kept(cache', hist', index', now)
         /\ Extends(hist, hist')
         /\ Loads /\ out.ms.ok /\ ~out.noop => hist' = out.ms.events
<1>0. hist \in Seq(Events) /\ State = StateOf(cache, hist) /\ State.events = hist /\ hist # <<>>
  BY DEF Kept, Standing, State, StateOf
<1>1. Extends(hist, hist)
  BY <1>0 DEF Extends
<1>2. CASE ~(Loads /\ out.ms.ok)
  <2>1. cache' = NoState /\ hist' = hist /\ index' = index
    BY <1>2 DEF Mutate, store
  <2> QED BY <1>0, <1>1, <1>2, <2>1, EvictKeeps
<1>3. CASE Loads /\ out.ms.ok /\ out.noop
  <2>1. cache' = [ms |-> State, armed |-> Armed] /\ hist' = hist /\ index' = index /\ out.ms = State
    BY <1>3 DEF Mutate, store, Fine
  <2>2. cache' # NoState /\ cache'.armed = Armed /\ StateOf(cache', hist') = State
    BY <1>0, <2>1, CacheIs
  <2>3. TimersFit(Armed, hist)
    BY DEF Armed, Kept, TimersFit, OneEach
  <2>4. Kept(cache', hist', index', now)
    BY <1>0, <2>1, <2>2, <2>3 DEF Kept
  <2> QED BY <1>1, <1>3, <2>1, <2>2, <2>4
<1>4. CASE Loads /\ out.ms.ok /\ ~out.noop
  BY <1>4, CommitKeeps DEF Mutate, Commit
<1> QED BY <1>2, <1>3, <1>4

-------------------------------------------------------------------------------
\* The inductive invariant.

\* A task in a worker's hands: a workflow task was started in that worker's name.
HeldFits(hd, h) ==
  \A k \in hd : /\ k.kind \in {"wf", "act"} /\ k.ev \in DOMAIN h
                /\ k.kind = "wf" => At(h, k.ev, "TaskStarted") /\ h[k.ev].id = k.who

\* Due timers.
PageFits(pg, h, t) == \A r \in pg : TimerFits(r, h) /\ r.at <= t

Good(c, h, ix, rf, hd, t, pg) ==
  /\ Kept(c, h, ix, t)
  /\ RefsFit(rf)
  /\ HeldFits(hd, h)
  /\ PageFits(pg, h, t)

IInv ==
  /\ opt \in Options
  /\ now \in 1 .. MaxTime /\ lost \in 0 .. MaxLost /\ faults \in 0 .. MaxFaults
  /\ Good(cache, hist, index, refs, held, now, page)

LEMMA FrozenGood ==
  ASSUME opt' = opt, NEW c, NEW h, NEW ix, NEW rf, NEW hd, NEW t, NEW pg
  PROVE  Good(c, h, ix, rf, hd, t, pg)' <=> Good(c, h, ix, rf, hd, t, pg)
<1>1. Seq(Events)' = Seq(Events)
  BY FrozenSets
<1>2. CASE h \notin Seq(Events)
  BY <1>1, <1>2 DEF Good, Kept
<1>3. CASE h \in Seq(Events)
  <2>1. FromLog(h)' = FromLog(h)
    BY <1>3, FrozenFromLog
  <2>2. NoState' = NoState
    BY DEF NoState, NewMutableState, NoTask, NoEntry
  <2>3. StateOf(c, h)' = StateOf(c, h)
    BY <2>1, <2>2 DEF StateOf
  <2>4. \A ms : Sound(ms, t)' <=> Sound(ms, t)
    BY FrozenSound
  <2>5. \A ms : Awake(ms)' <=> Awake(ms)
    BY FrozenAwake
  <2>6. \A r : TimerFits(r, h)' <=> TimerFits(r, h)
    BY DEF TimerFits, TimerRecords, TimerKinds, TimerDelay, TaskTimeout, RunTimeout, Deadline
  <2>7. \A S : TimersFit(S, h)' <=> TimersFit(S, h)
    BY <2>6 DEF TimersFit, OneEach
  <2>8. Standing(StateOf(c, h), h, t)' <=> Standing(StateOf(c, h), h, t)
    BY <2>3, <2>4, <2>5 DEF Standing
  <2>9. Kept(c, h, ix, t)' <=> Kept(c, h, ix, t)
    BY <1>1, <2>2, <2>7, <2>8 DEF Kept
  <2>10. RefsFit(rf)' <=> RefsFit(rf)
    BY DEF RefsFit, IsABag
  <2>11. HeldFits(hd, h)' <=> HeldFits(hd, h)
    BY DEF HeldFits, At
  <2>12. PageFits(pg, h, t)' <=> PageFits(pg, h, t)
    BY <2>6 DEF PageFits
  <2> QED BY <2>9, <2>10, <2>11, <2>12 DEF Good
<1> QED BY <1>2, <1>3

LEMMA InvStep ==
  ASSUME IInv, opt' = opt, now' \in 1 .. MaxTime, lost' \in 0 .. MaxLost, faults' \in 0 .. MaxFaults,
         Good(cache', hist', index', refs', held', now', page')
  PROVE  IInv'
<1>1. Good(cache, hist, index, refs, held, now, page)'
  BY FrozenGood
<1>2. MaxTime' = MaxTime /\ MaxLost' = MaxLost /\ MaxFaults' = MaxFaults /\ opt' \in Options
  BY DEF MaxTime, MaxLost, MaxFaults, IInv
<1> QED BY <1>1, <1>2 DEF IInv

LEMMA StateIs ==
  ASSUME IInv
  PROVE  /\ opt \in Options /\ now \in Nat \ {0}
         /\ State = StateOf(cache, hist) /\ Sound(State, now) /\ Awake(State)
         /\ State.events = hist /\ hist # <<>> /\ hist \in Seq(Events)
         /\ Kept(cache, hist, index, now)
<1>1. now \in Nat \ {0}
  BY Settings DEF IInv
<1>2. State = StateOf(cache, hist)
  BY DEF State, StateOf
<1> QED BY <1>1, <1>2 DEF IInv, Good, Kept, Standing

LEMMA LeadsFine ==
  ASSUME IInv, NEW r, Leads(State, r, now)
  PROVE  Fine(Outcome(r)) /\ \A key : Fine(Dropping(r, key))
<1>1. Outcome(r).ms = r.ms /\ Outcome(r).eff = r.eff /\ Outcome(r).noop = FALSE
  BY DEF Outcome
<1>2. \A key : Dropping(r, key).ms = r.ms /\ Dropping(r, key).eff = r.eff /\ Dropping(r, key).noop = FALSE
  BY DEF Outcome, Dropping
<1>3. State.events = hist
  BY StateIs
<1> QED BY <1>1, <1>2, <1>3 DEF Fine, Leads

LEMMA NoopFine == ASSUME IInv PROVE Fine(Noop)
<1>1. Noop.ms = State /\ Noop.eff = <<>>
  BY DEF Noop, Quiet, Outcome, Result
<1>2. Sound(State, now) /\ Awake(State) /\ State.events = hist /\ hist \in Seq(Events)
  BY StateIs
<1>3. Extends(hist, State.events)
  BY <1>2 DEF Extends
<1> QED BY <1>1, <1>2, <1>3, NoEffects DEF Fine

LEMMA RejectedFine == ASSUME IInv PROVE Fine(Rejected)
<1>1. Rejected.ms = Reject(State)
  BY DEF Rejected, Quiet, Outcome, Result
<1>2. Rejected.ms.ok = FALSE
  BY <1>1, StateIs, Rejects DEF Sound
<1> QED BY <1>2 DEF Fine

\* An outcome that asks for no timer to be dropped.
Steady(out) == Fine(out) /\ Straight(State, out) /\ out.drop = {}

LEMMA LeadsSteady ==
  ASSUME IInv, NEW r, LeadsStraight(State, r, now) PROVE Steady(Outcome(r))
<1>1. Outcome(r).ms = r.ms /\ Outcome(r).eff = r.eff /\ Outcome(r).drop = {}
  BY DEF Outcome
<1>2. Fine(Outcome(r))
  BY LeadsFine DEF LeadsStraight
<1> HIDE DEF Outcome
<1> QED BY <1>1, <1>2 DEF Steady, LeadsStraight, Straight

LEMMA RejectedSteady == ASSUME IInv PROVE Steady(Rejected)
<1>1. Rejected.ms = Reject(State) /\ Rejected.drop = {}
  BY DEF Rejected, Quiet, Outcome, Result
<1>2. Rejected.ms.ok = FALSE
  BY <1>1, StateIs, Rejects DEF Sound
<1> QED BY <1>1, <1>2, RejectedFine DEF Steady, Straight

LEMMA HeldKept ==
  ASSUME NEW hd, NEW h, HeldFits(hd, h), NEW g, Extends(h, g), NEW fewer \in SUBSET hd
  PROVE  HeldFits(fewer, g)
BY DEF HeldFits, Extends, At

LEMMA PageKept ==
  ASSUME NEW pg, NEW h, NEW t, PageFits(pg, h, t), NEW g, Extends(h, g), NEW fewer \in SUBSET pg
  PROVE  PageFits(fewer, g, t)
BY FitLater DEF PageFits

\* A call, whatever its transition.
LEMMA CallKeeps ==
  ASSUME IInv, NEW out, Fine(out), Call(out), held' \in SUBSET held, page' \in SUBSET page
  PROVE  Good(cache', hist', index', refs', held', now, page')
<1>1. /\ opt \in Options /\ Kept(cache, hist, index, now) /\ RefsFit(refs)
      /\ HeldFits(held, hist) /\ PageFits(page, hist, now)
  BY StateIs DEF IInv, Good
<1>2. /\ Kept(cache', hist', index', now) /\ Extends(hist, hist')
  BY <1>1, MutateKeeps DEF Fine, Call
<1>3. HeldFits(held', hist')
  BY <1>1, <1>2, HeldKept
<1>4. PageFits(page', hist', now)
  BY <1>1, <1>2, PageKept
<1>5. RefsFit(refs')
  <2>1. CASE Loads /\ out.ms.ok
    <3>1. out.ms \in MutableStates /\ out.eff \in Seq(Effects)
      BY <2>1 DEF Fine, Sound, EffectsFit
    <3>2. RefsFit(Dispatched(out.ms, out.eff))
      BY <3>1, DispatchedFits
    <3> QED BY <1>1, <2>1, <3>2, AddedFits DEF Call
  <2>2. CASE ~(Loads /\ out.ms.ok)
    BY <1>1, <2>2 DEF Call
  <2> QED BY <2>1, <2>2
<1> QED BY <1>2, <1>3, <1>4, <1>5 DEF Good

-------------------------------------------------------------------------------
\* Every step keeps the invariant.

LEMMA Counts ==
  ASSUME IInv
  PROVE  /\ now \in 1 .. MaxTime /\ lost \in 0 .. MaxLost /\ faults \in 0 .. MaxFaults
         /\ lost < MaxLost => lost + 1 \in 0 .. MaxLost
         /\ faults < MaxFaults => faults + 1 \in 0 .. MaxFaults
         /\ now < MaxTime => now + 1 \in 1 .. MaxTime
BY Settings DEF IInv

\* A call that answers neither a worker nor a timer.
LEMMA PlainCall ==
  ASSUME IInv, opt' = opt, NEW out, Fine(out), Call(out),
         held' = held, now' = now, page' = page, lost' = lost, faults' = faults
  PROVE  IInv'
<1>1. Good(cache', hist', index', refs', held', now, page')
  BY CallKeeps
<1> QED BY <1>1, Counts, InvStep

LEMMA ClientCall ==
  ASSUME IInv, SignalWorkflow \/ CancelWorkflow \/ TerminateWorkflow
  PROVE  \E out : /\ Steady(out) /\ Call(out)
                  /\ held' = held /\ now' = now /\ page' = page /\ del' = del /\ lost' = lost /\ faults' = faults
<1>1. /\ opt \in Options /\ now \in Nat \ {0} /\ Sound(State, now) /\ Awake(State)
      /\ State.events # <<>>
  BY StateIs
<1>2. ASSUME NEW out, Steady(out) PROVE Steady(Open(out))
  BY <1>2, RejectedSteady DEF Open
<1>3. CASE SignalWorkflow
  <2>1. Steady(Outcome(Signal(State, now)))
    BY <1>1, SignalLeads, LeadsSteady
  <2> QED BY <1>2, <1>3, <2>1 DEF SignalWorkflow, scanner
<1>4. CASE CancelWorkflow
  <2>1. Steady(Outcome(RequestCancel(State, now)))
    BY <1>1, RequestCancelLeads, LeadsSteady
  <2> QED BY <1>2, <1>4, <2>1 DEF CancelWorkflow, scanner
<1>5. CASE TerminateWorkflow
  <2>1. LeadsStraight(State, Result(Terminate(State, now), <<>>), now)
    BY <1>1, CloseLeads DEF Terminate
  <2>2. Steady(Quiet(Terminate(State, now)))
    BY <2>1, LeadsSteady DEF Quiet
  <2> QED BY <1>2, <1>5, <2>2 DEF TerminateWorkflow, scanner
<1> QED BY <1>3, <1>4, <1>5

LEMMA ClientSteps ==
  ASSUME IInv, opt' = opt, SignalWorkflow \/ CancelWorkflow \/ TerminateWorkflow
  PROVE  IInv'
BY ClientCall, PlainCall DEF Steady

\* The worker of the task answers, or reports that it could not process it.
LEMMA AnsweredIs ==
  ASSUME IInv, NEW h, Answered(h)
  PROVE  held' \in SUBSET held /\ faults' \in 0 .. MaxFaults
BY Counts DEF Answered

LEMMA AnswerCall ==
  ASSUME IInv, opt' = opt, NEW out, Fine(out), Call(out), held' \in SUBSET held,
         faults' \in 0 .. MaxFaults, now' = now, page' = page, lost' = lost
  PROVE  IInv'
<1>1. Good(cache', hist', index', refs', held', now, page')
  BY CallKeeps
<1> QED BY <1>1, Counts, InvStep

\* The state after a log, and what workflow code makes of it.
LEMMA ApplyTyped ==
  ASSUME opt \in Options, NEW ms \in MutableStates, NEW e \in Events PROVE Apply(ms, e) \in MutableStates
<1>1. CASE ms.ok /\ Applicable(ms, e)
  BY <1>1, ApplyFields DEF Applied
<1>2. CASE ~(ms.ok /\ Applicable(ms, e))
  BY <1>2, RejectTyped DEF Apply
<1> QED BY <1>1, <1>2

LEMMA NewTyped == NewMutableState \in MutableStates /\ NewMutableState.ok /\ NewMutableState.events = <<>>
<1>1. NoTask \in TaskStates
  BY EmptyId DEF NoTask, TaskStates
<1>2. NoEntry \in Pending(ActStates) /\ NoEntry \in Pending(TimerStates)
  BY PendingIs DEF NoEntry
<1>3. <<>> \in Seq(Events)
  OBVIOUS
<1> HIDE DEF NoTask, NoEntry
<1> QED BY <1>1, <1>2, <1>3 DEF NewMutableState, MutableStates

LEMMA FromLogTyped ==
  ASSUME opt \in Options, NEW h \in Seq(Events) PROVE FromLog(h) \in MutableStates
<1>1. CASE WellFormed(h)
  <2>1. PICK f : IsReplay(f, h, Len(h)) /\ FromLog(h) = f[Len(h)]
    BY <1>1, FromLogIs
  <2> DEFINE k == Len(h)
             S == {n \in Nat : n <= k => f[n] \in MutableStates}
  <2>2. k \in Nat
    OBVIOUS
  <2>3. f[0] = NewMutableState /\ \A n \in 1 .. k : f[n] = Apply(f[n - 1], h[n])
    BY <2>1, <2>2, ReplayAt
  <2>4. 0 \in S
    BY <2>3, NewTyped
  <2>5. ASSUME NEW n \in S PROVE n + 1 \in S
    <3> SUFFICES ASSUME n + 1 <= k PROVE f[n + 1] \in MutableStates
      OBVIOUS
    <3>1. n + 1 \in 1 .. k /\ (n + 1) - 1 = n /\ f[n] \in MutableStates
      BY <2>2
    <3>2. h[n + 1] \in Events
      BY <3>1
    <3> QED BY <2>3, <3>1, <3>2, ApplyTyped
  <2>6. S = Nat
    <3> HIDE DEF S
    <3> QED BY <2>4, <2>5, Induction DEF S
  <2> QED BY <2>1, <2>2, <2>6
<1>2. CASE ~WellFormed(h)
  BY <1>2, NewTyped, RejectTyped DEF FromLog
<1> QED BY <1>1, <1>2

LEMMA CommandsTyped ==
  ASSUME opt \in Options, hist \in Seq(Events), NEW n \in DOMAIN hist, NEW b \in Batches(n)
  PROVE  b \in Seq(CommandSet)
<1> DEFINE view == FromLog(SubSeq(hist, 1, n))
           Cmd(do, id, ev) == [do |-> do, id |-> id, ev |-> ev]
<1>1. SubSeq(hist, 1, n) \in Seq(Events)
  OBVIOUS
<1>2. view \in MutableStates
  BY <1>1, FromLogTyped
<1>3. \A do \in CommandNames, id \in Ids, ev \in Nat : Cmd(do, id, ev) \in CommandSet
  BY DEF CommandSet
<1>4. (\A k \in DOMAIN view.timers : k \in Nat) /\ (\A a \in DOMAIN view.acts : a \in Nat)
  BY <1>2, PendingTyped
<1> HIDE DEF view
<1>5. ActivityIds \subseteq Ids /\ TimerIds \subseteq Ids /\ "" \in Ids /\ 0 \in Nat
  BY DEF Ids
<1>6. /\ {"ScheduleActivity", "StartTimer", "CancelTimer", "CancelActivity", "Marker"} \subseteq CommandNames
      /\ Closing \subseteq CommandNames
  BY DEF CommandNames
<1> DEFINE Used(type) == {hist[i].id : i \in {i \in 1 .. n : hist[i].type = type}}
           A == {Cmd("ScheduleActivity", a, 0) : a \in ActivityIds \ Used("ActScheduled")}
           B == {Cmd("StartTimer", k, 0) : k \in TimerIds \ Used("TimerStarted")}
           C == {Cmd("CancelTimer", "", k) : k \in DOMAIN view.timers}
           D == {Cmd("CancelActivity", "", a) : a \in {a \in DOMAIN view.acts : ~view.acts[a].cancel}}
           E == {Cmd(do, "", 0) : do \in Closing \cup {"Marker"}}
<1>7. Commands(n) = {c \in A \cup B \cup C \cup D \cup E : c.do \in CommandKinds}
  BY DEF Commands, view
<1> HIDE DEF Cmd
<1>8. A \subseteq CommandSet /\ B \subseteq CommandSet
  BY <1>3, <1>5, <1>6
<1>9. C \subseteq CommandSet /\ D \subseteq CommandSet
  BY <1>3, <1>4, <1>5, <1>6
<1>10. E \subseteq CommandSet
  BY <1>3, <1>5, <1>6
<1> HIDE DEF A, B, C, D, E
<1>11. \A c \in Commands(n) : c \in CommandSet
  BY <1>7, <1>8, <1>9, <1>10
<1>12. b \in SeqOf(Commands(n), MaxCommands)
  BY DEF Batches
<1>13. \E m \in 0 .. MaxCommands : b \in [1 .. m -> Commands(n)]
  BY <1>12 DEF SeqOf
<1>14. PICK m \in Nat : b \in [1 .. m -> Commands(n)]
  <2>1. MaxCommands \in Nat
    BY Settings
  <2>2. \A m \in 0 .. MaxCommands : m \in Nat
    BY <2>1
  <2> QED BY <1>13, <2>2, Zenon
<1>15. b \in [1 .. m -> CommandSet]
  BY <1>11, <1>14
<1> QED BY <1>15

LEMMA TaskAnswers ==
  ASSUME IInv, NEW h \in held,
         \/ h.kind = "wf" /\ \E b \in Batches(h.ev) : RespondWorkflowTaskCompleted(h, b)
         \/ RespondWorkflowTaskFailed(h)
  PROVE  \E out : /\ Steady(out) /\ Call(out) /\ held' \in SUBSET held /\ faults' \in 0 .. MaxFaults
                  /\ now' = now /\ page' = page /\ del' = del /\ lost' = lost
<1> DEFINE Goal == \E out : /\ Steady(out) /\ Call(out) /\ held' \in SUBSET held /\ faults' \in 0 .. MaxFaults
                            /\ now' = now /\ page' = page /\ del' = del /\ lost' = lost
<1>1. /\ opt \in Options /\ now \in Nat \ {0} /\ Sound(State, now) /\ Awake(State)
      /\ State.events # <<>> /\ hist \in Seq(Events)
  BY StateIs
<1>2. /\ h.ev \in DOMAIN hist /\ State.events = hist
      /\ h.kind = "wf" => At(hist, h.ev, "TaskStarted") /\ hist[h.ev].id = h.who
  BY StateIs DEF IInv, Good, HeldFits
<1>3. ASSUME h.kind = "wf", NEW b \in Batches(h.ev), RespondWorkflowTaskCompleted(h, b) PROVE Goal
  <2> DEFINE out == IF OwnsTask(State, h.who) THEN Outcome(CompletedTask(State, h.ev, b, now)) ELSE Rejected
  <2>2. Steady(out)
    <3>1. CASE OwnsTask(State, h.who)
      <4>1. Started(State) /\ Indistinct(State.events, h.ev, State.wt.started)
        <5>1. Started(State) /\ (Unnamed(h.who) \/ Unnamed(State.wt.who) \/ State.wt.who = h.who)
          BY <3>1, Zenon DEF OwnsTask, Unnamed
        <5>2. /\ At(hist, State.wt.started, "TaskStarted") /\ State.wt.who = hist[State.wt.started].id
              /\ LastStart(hist, State.wt.started)
          BY <1>1, <1>2, <5>1 DEF Sound, TaskSound, Started
        <5>3. h.ev <= State.wt.started
          BY <1>2, <1>3, <5>2 DEF LastStart, At
        <5> QED BY <1>2, <1>3, <5>1, <5>2, <5>3 DEF Indistinct
      <4>2. b \in Seq(CommandSet)
        BY <1>1, <1>2, CommandsTyped
      <4>3. LeadsStraight(State, CompletedTask(State, h.ev, b, now), now)
        BY <1>1, <4>1, <4>2, CompletedTaskLeads
      <4> QED BY <3>1, <4>3, LeadsSteady
    <3>2. CASE ~OwnsTask(State, h.who)
      BY <3>2, RejectedSteady
    <3> QED BY <3>1, <3>2
  <2>3. Call(out) /\ Answered(h) /\ now' = now /\ page' = page /\ del' = del /\ lost' = lost
    BY <1>3 DEF RespondWorkflowTaskCompleted, scanner
  <2> HIDE DEF out
  <2> QED BY <2>2, <2>3, AnsweredIs
<1>4. CASE RespondWorkflowTaskFailed(h)
  <2> DEFINE out == IF OwnsTask(State, h.who) THEN Outcome(FailWorkflowTask(State, now)) ELSE Rejected
  <2>1. Steady(out)
    <3>1. CASE OwnsTask(State, h.who)
      <4>1. Started(State)
        BY <3>1 DEF OwnsTask
      <4>2. LeadsStraight(State, FailWorkflowTask(State, now), now)
        BY <1>1, <4>1, TaskEndLeads DEF FailWorkflowTask
      <4> QED BY <3>1, <4>2, LeadsSteady
    <3>2. CASE ~OwnsTask(State, h.who)
      BY <3>2, RejectedSteady
    <3> QED BY <3>1, <3>2
  <2>2. /\ Call(out) /\ held' \in SUBSET held /\ now' = now /\ page' = page /\ del' = del /\ lost' = lost
        /\ faults < MaxFaults /\ faults' = faults + 1
    BY <1>4 DEF RespondWorkflowTaskFailed, scanner
  <2> HIDE DEF out
  <2> QED BY <2>1, <2>2, Counts
<1> QED BY <1>3, <1>4

LEMMA ActivityAnswers ==
  ASSUME IInv, NEW h \in held,
         \/ RespondActivityTaskCompleted(h)
         \/ \E retryable \in BOOLEAN : RespondActivityTaskFailed(h, retryable)
         \/ RespondActivityTaskCanceled(h)
         \/ Heartbeat(h)
  PROVE  \E out : /\ Steady(out) /\ Call(out) /\ held' \in SUBSET held /\ faults' \in 0 .. MaxFaults
                  /\ now' = now /\ page' = page /\ del' = del /\ lost' = lost
<1> DEFINE Goal == \E out : /\ Steady(out) /\ Call(out) /\ held' \in SUBSET held /\ faults' \in 0 .. MaxFaults
                            /\ now' = now /\ page' = page /\ del' = del /\ lost' = lost
<1>1. /\ opt \in Options /\ now \in Nat \ {0} /\ Sound(State, now) /\ Awake(State)
      /\ State.events # <<>> /\ hist \in Seq(Events)
  BY StateIs
<1>2. CASE RespondActivityTaskCompleted(h)
  <2> DEFINE out == IF OwnsActivity(State, h.ev) THEN Outcome(CompleteActivity(State, h.ev, now)) ELSE Rejected
  <2>1. Steady(out)
    <3>1. CASE OwnsActivity(State, h.ev)
      <4>1. LeadsStraight(State, CompleteActivity(State, h.ev, now), now)
        BY <1>1, <3>1, CompleteActivityLeads DEF OwnsActivity
      <4> QED BY <3>1, <4>1, LeadsSteady
    <3>2. CASE ~OwnsActivity(State, h.ev)
      BY <3>2, RejectedSteady
    <3> QED BY <3>1, <3>2
  <2>2. Call(out) /\ Answered(h) /\ now' = now /\ page' = page /\ del' = del /\ lost' = lost
    BY <1>2 DEF RespondActivityTaskCompleted, scanner
  <2> HIDE DEF out
  <2> QED BY <2>1, <2>2, AnsweredIs
<1>3. ASSUME NEW retryable \in BOOLEAN, RespondActivityTaskFailed(h, retryable) PROVE Goal
  <2> DEFINE r == Restored(State, FailActivity(State, h.ev, retryable, now), h.ev)
             out == IF OwnsActivity(State, h.ev) THEN Outcome(r) ELSE Rejected
  <2>1. Steady(out)
    <3>1. CASE OwnsActivity(State, h.ev)
      <4>1. LeadsStraight(State, r, now)
        BY <1>1, <3>1, FailActivityLeads DEF OwnsActivity
      <4> HIDE DEF r
      <4> QED BY <3>1, <4>1, LeadsSteady
    <3>2. CASE ~OwnsActivity(State, h.ev)
      BY <3>2, RejectedSteady
    <3> QED BY <3>1, <3>2
  <2>2. Call(out) /\ Answered(h) /\ now' = now /\ page' = page /\ del' = del /\ lost' = lost
    BY <1>3 DEF RespondActivityTaskFailed, scanner
  <2> HIDE DEF out
  <2> QED BY <2>1, <2>2, AnsweredIs
<1>4. CASE RespondActivityTaskCanceled(h)
  <2> DEFINE out == IF h.ev \in DOMAIN State.acts THEN Outcome(CancelActivity(State, h.ev, now)) ELSE Rejected
  <2>1. Steady(out)
    <3>1. CASE h.ev \in DOMAIN State.acts
      <4>1. LeadsStraight(State, CancelActivity(State, h.ev, now), now)
        BY <1>1, <3>1, CancelActivityLeads
      <4> QED BY <3>1, <4>1, LeadsSteady
    <3>2. CASE h.ev \notin DOMAIN State.acts
      BY <3>2, RejectedSteady
    <3> QED BY <3>1, <3>2
  <2>2. Call(out) /\ Answered(h) /\ now' = now /\ page' = page /\ del' = del /\ lost' = lost
    BY <1>4 DEF RespondActivityTaskCanceled, scanner
  <2> HIDE DEF out
  <2> QED BY <2>1, <2>2, AnsweredIs
<1>5. CASE Heartbeat(h)
  <2> DEFINE out == IF OwnsActivity(State, h.ev) THEN Quiet(RecordActivityHeartbeat(State, h.ev, now)) ELSE Rejected
  <2>1. Steady(out)
    <3>1. CASE OwnsActivity(State, h.ev)
      <4>1. LeadsStraight(State, Result(RecordActivityHeartbeat(State, h.ev, now), <<>>), now)
        <5>1. ~Fixed
          BY <1>1, <1>5, Settings DEF Heartbeat, Fixed
        <5> QED BY <1>1, <3>1, <5>1, HeartbeatLeads DEF OwnsActivity, LeadsStraight, Straight
      <4>2. Steady(Quiet(RecordActivityHeartbeat(State, h.ev, now)))
        BY <4>1, LeadsSteady DEF Quiet
      <4> QED BY <3>1, <4>2
    <3>2. CASE ~OwnsActivity(State, h.ev)
      BY <3>2, RejectedSteady
    <3> QED BY <3>1, <3>2
  <2>2. /\ Call(out) /\ held' = held /\ now' = now /\ page' = page /\ del' = del /\ lost' = lost /\ faults' = faults
    BY <1>5 DEF Heartbeat, scanner
  <2> HIDE DEF out
  <2> QED BY <2>1, <2>2, Counts
<1> QED BY <1>2, <1>3, <1>4, <1>5

LEMMA MutateStep ==
  ASSUME IInv, NEW out, Fine(out), Mutate(out)
  PROVE  /\ Kept(cache', hist', index', now) /\ Extends(hist, hist')
         /\ HeldFits(held, hist')
         /\ PageFits(page, hist', now)
<1>1. /\ opt \in Options /\ Kept(cache, hist, index, now)
      /\ HeldFits(held, hist) /\ PageFits(page, hist, now)
  BY StateIs DEF IInv, Good
<1>2. /\ Kept(cache', hist', index', now) /\ Extends(hist, hist')
  BY <1>1, MutateKeeps DEF Fine
<1> QED BY <1>1, <1>2, HeldKept, PageKept

LEMMA TaskFields ==
  ASSUME NEW kind, NEW ev, NEW who, NEW nth
  PROVE  LET k == Task(kind, ev, who, nth) IN k.kind = kind /\ k.ev = ev /\ k.who = who
BY DEF Task

LEMMA StartTaskOk ==
  ASSUME opt \in Options, NEW ms, NEW t \in Nat, Sound(ms, t), ~Terminal(ms), Scheduled(ms), NEW w \in Workers
  PROVE  StartWorkflowTask(ms, w, t).ok
<1> DEFINE e == [Event("TaskStarted", t) EXCEPT !.ref = ms.wt.sched, !.id = w]
<1>1. ms \in MutableStates /\ ms.ok /\ ms.wt.sched \in Nat /\ w \in Ids
  BY DEF Sound, MutableStates, TaskStates, Ids
<1>2. e \in Events /\ e.type = "TaskStarted"
  BY <1>1 DEF Event, Events, EventTypes
<1>3. StartWorkflowTask(ms, w, t) = Apply(ms, e)
  BY DEF StartWorkflowTask, AppendEvent
<1> HIDE DEF e
<1>4. Applicable(ms, e)
  BY <1>2 DEF Applicable
<1>5. Applied(Apply(ms, e), ms, e, Len(ms.events) + 1)
  BY <1>1, <1>2, <1>4, ApplyFields
<1> QED BY <1>3, <1>5 DEF Applied

LEMMA PollTask ==
  ASSUME IInv, opt' = opt, NEW w \in Workers, NEW ref, PollWorkflowTask(w, ref)
  PROVE  IInv'
<1> DEFINE ms == State
           current == Loads /\ ~Terminal(ms) /\ Scheduled(ms) /\ ms.wt.sched = ref.ev
           m == StartWorkflowTask(ms, w, now)
           k == Task("wf", NextEventID(ms), w, 0)
<1>1. /\ opt \in Options /\ now \in Nat \ {0} /\ Sound(ms, now) /\ Awake(ms)
      /\ ms.events # <<>> /\ ms.events = hist /\ Kept(cache, hist, index, now)
  BY StateIs
<1>2. /\ refs' = refs (-) SetToBag({ref}) /\ now' = now /\ page' = page /\ lost' = lost /\ faults' = faults
  BY DEF PollWorkflowTask, Take, scanner
<1>3. RefsFit(refs')
  BY <1>2, TakenFits DEF IInv, Good
<1>4. CASE current
  <2> DEFINE out == Quiet(m)
  <2>1. Mutate(out) /\ held' = held \cup {k}
    BY <1>4 DEF PollWorkflowTask
  <2>2. m.ok
    BY <1>1, <1>4, StartTaskOk
  <2>3. /\ Sound(m, now) /\ Awake(m) /\ Extends(ms.events, m.events)
        /\ Len(m.events) = Len(ms.events) + 1
        /\ At(m.events, Len(m.events), "TaskStarted") /\ m.events[Len(m.events)].id = w
    BY <1>1, <2>2, StartTaskSound
  <2>4. out.ms = m /\ out.eff = <<>> /\ out.noop = FALSE
    BY DEF Quiet, Outcome, Result
  <2> HIDE DEF out, m
  <2>5. Fine(out)
    BY <1>1, <2>3, <2>4, NoEffects DEF Fine
  <2>6. /\ Kept(cache', hist', index', now) /\ Extends(hist, hist')
        /\ hist' = m.events
    BY <1>1, <1>4, <2>1, <2>2, <2>4, <2>5, MutateKeeps
  <2>7. HeldFits(held, hist')
    <3>1. HeldFits(held, hist)
      BY StateIs DEF IInv, Good
    <3> QED BY <2>6, <3>1, HeldKept
  <2>8. k.kind = "wf" /\ k.ev = Len(m.events) /\ k.who = w
    BY <2>3, TaskFields DEF NextEventID
  <2> HIDE DEF k
  <2>9. HeldFits(held', hist')
    BY <2>1, <2>3, <2>6, <2>7, <2>8 DEF HeldFits, At
  <2>10. PageFits(page', hist', now)
    BY <1>2, <2>6, PageKept DEF IInv, Good
  <2>11. Good(cache', hist', index', refs', held', now', page')
    BY <1>2, <1>3, <2>6, <2>9, <2>10 DEF Good
  <2> QED BY <1>2, <2>11, Counts, InvStep
<1>5. CASE ~current
  <2>1. Mutate(Noop) /\ held' = held
    BY <1>5 DEF PollWorkflowTask
  <2>2. Good(cache', hist', index', refs', held', now', page')
    BY <1>2, <1>3, <2>1, NoopFine, MutateStep DEF Good
  <2> QED BY <1>2, <2>2, Counts, InvStep
<1> QED BY <1>4, <1>5

LEMMA PollActivity ==
  ASSUME IInv, opt' = opt, NEW ref \in BagToSet(refs), PollActivityTask(ref)
  PROVE  IInv'
<1> DEFINE ms == State
           act == ms.acts[ref.ev]
           current == /\ Loads /\ ~Terminal(ms) /\ ref.ev \in DOMAIN ms.acts
                      /\ \/ act.started = 0
                         \/ ref.attempt > act.attempt
                         \/ ref.attempt = act.attempt /\ ~act.held
           k == Task("act", ref.ev, "", given[act.id] + 1)
<1>1. /\ opt \in Options /\ now \in Nat \ {0} /\ Sound(ms, now) /\ Awake(ms)
      /\ ms.events # <<>> /\ ms.events = hist
  BY StateIs
<1>2. /\ refs' = refs (-) SetToBag({ref}) /\ now' = now /\ page' = page /\ lost' = lost /\ faults' = faults
  BY DEF PollActivityTask, Take, scanner
<1>3. RefsFit(refs') /\ ref.attempt \in Nat
  BY <1>2, TakenFits DEF IInv, Good, RefsFit, BagToSet
<1>4. CASE current
  <2> DEFINE r == Result(StartAttempt(ms, ref), <<>>)
             out == Dropping(r, <<"Retry", ref.ev>>)
  <2>1. Mutate(out) /\ held' = held \cup {k}
    BY <1>4 DEF PollActivityTask
  <2>2. Leads(ms, r, now)
    <3>1. Leads(ms, Result(StartActivity(ms, ref.ev, now), <<>>), now)
      BY <1>1, <1>4, StartActivityLeads DEF LeadsStraight
    <3>2. Leads(ms, Result(BeginRetryAttempt(ms, ref.ev, ref.attempt), <<>>), now)
      BY <1>1, <1>3, <1>4, BeginRetryLeads
    <3> QED BY <3>1, <3>2 DEF StartAttempt
  <2> HIDE DEF r
  <2>3. Fine(out)
    BY <2>2, LeadsFine
  <2> HIDE DEF out
  <2>4. /\ Kept(cache', hist', index', now) /\ Extends(hist, hist')
        /\ HeldFits(held, hist') /\ PageFits(page, hist', now)
    BY <2>1, <2>3, MutateStep
  <2>5. ref.ev \in DOMAIN hist
    BY <1>1, <1>4 DEF Sound, ActsSound, At
  <2>6. k.kind = "act" /\ k.ev = ref.ev
    BY DEF Task
  <2> HIDE DEF k
  <2>7. HeldFits(held', hist')
    BY <2>1, <2>4, <2>5, <2>6 DEF HeldFits, Extends, At
  <2>8. Good(cache', hist', index', refs', held', now', page')
    BY <1>2, <1>3, <2>4, <2>7 DEF Good
  <2> QED BY <1>2, <2>8, Counts, InvStep
<1>5. CASE ~current
  <2>1. Mutate(Noop) /\ held' = held
    BY <1>5 DEF PollActivityTask
  <2>2. Good(cache', hist', index', refs', held', now', page')
    BY <1>2, <1>3, <2>1, NoopFine, MutateStep DEF Good
  <2> QED BY <1>2, <2>2, Counts, InvStep
<1> QED BY <1>4, <1>5

\* Timer handlers.
LEMMA OnTimerFine ==
  ASSUME IInv, NEW r \in page PROVE Fine(OnTimer(r))
<1>1. /\ opt \in Options /\ now \in Nat \ {0} /\ Sound(State, now) /\ Awake(State)
      /\ State.events # <<>> /\ State.events = hist
  BY StateIs
<1>2. TimerFits(r, hist) /\ r.at <= now /\ r.kind \in TimerKinds /\ r.attempt \in Nat
  BY DEF IInv, Good, PageFits, TimerFits, TimerRecords
<1>3. CASE r.kind = "User"
  <2>1. OnTimer(r) = FireUserTimer(r)
    BY <1>3 DEF OnTimer
  <2>2. now >= State.events[r.ev].time + TimerDelay
    BY <1>1, <1>2, <1>3 DEF TimerFits
  <2>3. Leads(State, FireTimer(State, r.ev, now), now)
    BY <1>1, <2>2, FireTimerLeads DEF LeadsStraight
  <2>4. Fine(Dropping(FireTimer(State, r.ev, now), Key(r)))
    BY <2>3, LeadsFine
  <2> QED BY <2>1, <2>4, NoopFine DEF FireUserTimer
<1>4. CASE r.kind = "Retry"
  <2> DEFINE act == State.acts[r.ev]
             m == [State EXCEPT !.acts[r.ev] = [act EXCEPT !.attempt = r.attempt, !.held = FALSE,
                                                           !.beatDl = 0, !.attemptDl = now + Redispatch]]
             q == Result(m, <<Effect("activity", r.ev, 0)>>)
  <2>1. OnTimer(r) = RedispatchActivity(r)
    BY <1>4 DEF OnTimer
  <2>2. r.ev \in DOMAIN State.acts => Leads(State, q, now)
    BY <1>1, <1>2, RedispatchLeads
  <2>3. \/ RedispatchActivity(r) = Noop
        \/ r.ev \in DOMAIN State.acts /\ RedispatchActivity(r) = Dropping(q, Key(r))
    BY DEF RedispatchActivity
  <2> HIDE DEF q
  <2> QED BY <2>1, <2>2, <2>3, NoopFine, LeadsFine
<1>5. CASE r.kind = "Activity"
  <2> DEFINE m == [State EXCEPT !.acts[r.ev].attempt = r.attempt]
             kind == ExpiredTimeout(m.acts[r.ev])
             q == Restored(m, TimeoutActivity(m, r.ev, kind, now), r.ev)
  <2>1. OnTimer(r) = ActivityTimedOut(r)
    BY <1>5 DEF OnTimer
  <2>2. \/ ActivityTimedOut(r) = Noop
        \/ r.ev \in DOMAIN State.acts /\ ActivityTimedOut(r) = Dropping(Result(m, <<>>), Key(r))
        \/ r.ev \in DOMAIN State.acts /\ ActivityTimedOut(r) = Dropping(q, Key(r))
    BY DEF ActivityTimedOut
  <2>3. ASSUME r.ev \in DOMAIN State.acts
        PROVE  Leads(State, Result(m, <<>>), now) /\ Leads(State, q, now)
    <3>1. /\ Sound(m, now) /\ Awake(m) /\ m.events = State.events /\ m.wt = State.wt
          /\ DOMAIN m.acts = DOMAIN State.acts /\ Leads(State, Result(m, <<>>), now)
      BY <1>1, <1>2, <2>3, AttemptSet
    <3> HIDE DEF m, kind
    <3>2. Leads(m, q, now)
      BY <1>1, <2>3, <3>1, TimeoutActivityLeads DEF LeadsStraight
    <3> HIDE DEF q
    <3>3. Leads(State, q, now)
      BY <3>1, <3>2 DEF Leads
    <3> QED BY <3>1, <3>3
  <2> HIDE DEF m, q
  <2> QED BY <2>1, <2>2, <2>3, NoopFine, LeadsFine
<1>6. CASE r.kind = "Task"
  <2>1. OnTimer(r) = TaskTimedOut(r)
    BY <1>6 DEF OnTimer
  <2>2. \/ TaskTimedOut(r) = Noop
        \/ TaskTimedOut(r) = Dropping(Result(State, <<>>), Key(r))
        \/ /\ Started(State) /\ now >= State.wt.deadline
           /\ TaskTimedOut(r) = Dropping(TimeoutWorkflowTask(State, now), Key(r))
    <3>1. State.wt.deadline \in Nat
      BY <1>1 DEF Sound, MutableStates, TaskStates
    <3> QED BY <1>1, <3>1 DEF TaskTimedOut
  <2>3. Leads(State, Result(State, <<>>), now)
    BY <1>1, StayLeads DEF LeadsStraight
  <2>4. ASSUME Started(State), now >= State.wt.deadline
        PROVE  Leads(State, TimeoutWorkflowTask(State, now), now)
    BY <1>1, <2>4, TaskEndLeads DEF TimeoutWorkflowTask, LeadsStraight
  <2> QED BY <2>1, <2>2, <2>3, <2>4, NoopFine, LeadsFine
<1>7. CASE r.kind = "Execution"
  <2>1. OnTimer(r) = ExecutionTimedOut(r)
    BY <1>7 DEF OnTimer
  <2>2. \/ ExecutionTimedOut(r) = Noop
        \/ /\ State.runDl # 0 /\ now >= State.runDl
           /\ ExecutionTimedOut(r) = Dropping(Result(TimeoutExecution(State, now), <<>>), Key(r))
    <3>1. State.runDl \in Nat
      BY <1>1 DEF Sound, MutableStates
    <3> QED BY <1>1, <3>1 DEF ExecutionTimedOut
  <2>3. ASSUME State.runDl # 0, now >= State.runDl
        PROVE  Leads(State, Result(TimeoutExecution(State, now), <<>>), now)
    BY <1>1, <2>3, CloseLeads DEF TimeoutExecution, LeadsStraight
  <2> QED BY <2>1, <2>2, <2>3, NoopFine, LeadsFine
<1>8. CASE r.kind = "WorkflowRetry"
  <2>1. OnTimer(r) = StartDeferredRun(r)
    BY <1>8 DEF OnTimer
  <2>2. Leads(State, ScheduleWorkflowTask(State, now), now)
    BY <1>1, ScheduleLeads DEF LeadsStraight
  <2> QED BY <2>1, <2>2, NoopFine, LeadsFine DEF StartDeferredRun
<1> QED BY <1>2, <1>3, <1>4, <1>5, <1>6, <1>7, <1>8 DEF TimerKinds

LEMMA ScannerSteps ==
  ASSUME IInv, opt' = opt,
         Scan \/ Delete \/ DeleteFails \/ (\E r \in page : Dispatch(r) \/ DispatchFails(r))
  PROVE  IInv'
<1>1. /\ Kept(cache, hist, index, now) /\ RefsFit(refs)
      /\ HeldFits(held, hist) /\ PageFits(page, hist, now)
      /\ hist \in Seq(Events)
  BY StateIs DEF IInv, Good
<1>2. CASE Scan
  <2>1. /\ hist' = hist /\ index' = index /\ cache' = cache /\ refs' = refs /\ held' = held /\ now' = now
        /\ lost' = lost /\ faults' = faults /\ page' = {r \in index : r.at <= now}
    BY <1>2 DEF Scan, store
  <2>2. PageFits(page', hist, now)
    BY <1>1, <2>1 DEF PageFits, Kept, TimersFit
  <2>3. Good(cache', hist', index', refs', held', now', page')
    BY <1>1, <2>1, <2>2 DEF Good
  <2> QED BY <2>1, <2>3, Counts, InvStep
<1>3. CASE Delete
  <2>1. /\ hist' = hist /\ index' = Without(index, {del}) /\ cache' = cache /\ refs' = refs /\ held' = held
        /\ now' = now /\ lost' = lost /\ faults' = faults /\ page' = page
    BY <1>3 DEF Delete
  <2>2. Kept(cache, hist, index', now)
    BY <1>1, <2>1, WithoutFits DEF Kept
  <2>3. Good(cache', hist', index', refs', held', now', page')
    BY <1>1, <2>1, <2>2 DEF Good
  <2> QED BY <2>1, <2>3, Counts, InvStep
<1>4. CASE DeleteFails
  <2>1. /\ hist' = hist /\ index' = index /\ cache' = cache /\ refs' = refs /\ held' = held
        /\ now' = now /\ lost' = lost /\ faults < MaxFaults /\ faults' = faults + 1 /\ page' = page
    BY <1>4 DEF DeleteFails, store
  <2>2. Good(cache', hist', index', refs', held', now', page')
    BY <1>1, <2>1 DEF Good
  <2> QED BY <2>1, <2>2, Counts, InvStep
<1>5. ASSUME NEW r \in page, Dispatch(r) PROVE IInv'
  <2>1. /\ Call(OnTimer(r)) /\ held' = held /\ now' = now /\ lost' = lost /\ faults' = faults
        /\ page' \in SUBSET page
    BY <1>5 DEF Dispatch
  <2>2. Good(cache', hist', index', refs', held', now, page')
    BY <2>1, OnTimerFine, CallKeeps
  <2> QED BY <2>1, <2>2, Counts, InvStep
<1>6. ASSUME NEW r \in page, DispatchFails(r) PROVE IInv'
  <2>1. /\ hist' = hist /\ index' = index /\ cache' = NoState /\ refs' = refs /\ held' = held
        /\ now' = now /\ lost' = lost /\ faults' \in {faults, faults + 1}
        /\ faults' = faults + 1 => faults < MaxFaults
        /\ page' \in SUBSET page
    BY <1>6, Counts DEF DispatchFails, store
  <2>2. Kept(NoState, hist, index, now)
    BY <1>1, EvictKeeps
  <2>3. Extends(hist, hist)
    BY <1>1 DEF Extends
  <2>4. PageFits(page', hist, now)
    BY <1>1, <2>1, <2>3, PageKept
  <2>5. Good(cache', hist', index', refs', held', now', page')
    BY <1>1, <2>1, <2>2, <2>4 DEF Good
  <2> QED BY <2>1, <2>5, Counts, InvStep
<1> QED BY <1>2, <1>3, <1>4, <1>5, <1>6

\* A log is refused for its length alone.
LEMMA LoadedIs ==
  ASSUME NEW h
  PROVE  /\ Rebuild(h).ok => Rebuild(h) = FromLog(h)
         /\ WellFormed(h) /\ FromLog(h).ok = TRUE => (Rebuild(h).ok <=> Len(h) <= MaxHistoryEvents)
<1>1. ~Validate(h) => Rebuild(h) = Reject(NewMutableState)
  BY DEF Rebuild
<1>2. Reject(NewMutableState).ok = FALSE
  BY NewTyped, Rejects
<1>3. Validate(h) => Rebuild(h) = FromLog(h)
  BY DEF Rebuild
<1>4. WellFormed(h) => (Validate(h) <=> Len(h) <= MaxHistoryEvents)
  BY DEF Validate
<1> QED BY <1>1, <1>2, <1>3, <1>4

\* A state rebuilt by a fresh process is what it puts into the cache and the index.
LEMMA RecoverKeeps ==
  ASSUME opt \in Options, NEW h, NEW ix, NEW t, Kept(NoState, h, ix, t)
  PROVE  LET ms == FromLog(h)
             want == DesiredTimers(ms, {}, {}, {})
         IN /\ ms \in MutableStates
            /\ Kept([ms |-> ms, armed |-> want], h, Without(ix, Keys(want)) \cup want, t)
            /\ StateOf([ms |-> ms, armed |-> want], h) = StateOf(NoState, h)
<1> DEFINE ms == FromLog(h)
           want == DesiredTimers(ms, {}, {}, {})
           c == [ms |-> ms, armed |-> want]
<1>1. StateOf(NoState, h) = ms
  BY DEF StateOf
<1> HIDE DEF ms
<1>2. Sound(ms, t) /\ Awake(ms) /\ ms.events = h /\ h # <<>> /\ h \in Seq(Events) /\ TimersFit(ix, h)
  BY <1>1 DEF Kept, Standing
<1>3. TimersFit({}, h)
  BY DEF TimersFit, OneEach
<1>4. TimersFit(want, h)
  BY <1>2, <1>3, DesiredFit
<1> HIDE DEF want
<1>5. c # NoState /\ c.armed = want /\ StateOf(c, h) = ms
  BY <1>2, CacheIs
<1>6. TimersFit(Without(ix, Keys(want)) \cup want, h)
  BY <1>2, <1>4, UpsertFits
<1> HIDE DEF c
<1>7. Kept(c, h, Without(ix, Keys(want)) \cup want, t)
  BY <1>2, <1>4, <1>5, <1>6 DEF Kept, Standing
<1>8. ms \in MutableStates
  BY <1>2 DEF Sound
<1> QED BY <1>1, <1>5, <1>7, <1>8 DEF c, want, ms

LEMMA RestartStep == ASSUME IInv, opt' = opt, Restart PROVE IInv'
<1>1. /\ opt \in Options /\ Kept(cache, hist, index, now)
      /\ HeldFits(held, hist) /\ hist \in Seq(Events)
  BY StateIs DEF IInv, Good
<1> DEFINE ms == FromLog(hist)
           want == DesiredTimers(ms, {}, {}, {})
           refreshed == (IF Scheduled(ms) THEN {TaskRef(ms.wt.sched)} ELSE {})
                          \cup {ActivityRef(ms, a) : a \in {a \in DOMAIN ms.acts : ms.acts[a].started = 0}}
<1>2. /\ hist' = hist /\ held' = held /\ now' = now /\ lost' = lost /\ page' = {}
      /\ faults < MaxFaults /\ faults' = faults + 1
      /\ \/ cache' = NoState /\ refs' = EmptyBag /\ index' = index
         \/ /\ cache' = [ms |-> ms, armed |-> want]
            /\ refs' = SetToBag(refreshed)
            /\ index' = Without(index, Keys(want)) \cup want
  <2>1. CASE Rebuild(hist).ok
    <3>1. Rebuild(hist) = FromLog(hist)
      BY <2>1, LoadedIs
    <3> QED BY <2>1, <3>1 DEF Restart
  <2>2. CASE ~Rebuild(hist).ok
    BY <2>2 DEF Restart
  <2> QED BY <2>1, <2>2
<1>3. Kept(NoState, hist, index, now)
  BY <1>1, EvictKeeps
<1>4. /\ ms \in MutableStates
      /\ Kept([ms |-> ms, armed |-> want], hist, Without(index, Keys(want)) \cup want, now)
  BY <1>1, <1>3, RecoverKeeps
<1> HIDE DEF ms, want
<1>5. Kept(cache', hist, index', now)
  BY <1>2, <1>3, <1>4
<1>6. RefsFit(refs')
  <2>1. \A ref \in refreshed : ref.attempt \in Nat
    BY <1>4, TaskRefFits, ActivityRefFits
  <2> HIDE DEF refreshed
  <2>2. RefsFit(SetToBag(refreshed))
    BY <2>1, SetToBagFits
  <2> QED BY <1>2, <2>2, EmptyBagFits
<1>7. PageFits({}, hist, now)
  BY DEF PageFits
<1>8. Good(cache', hist', index', refs', held', now', page')
  BY <1>1, <1>2, <1>5, <1>6, <1>7 DEF Good
<1> QED BY <1>2, <1>8, Counts, InvStep

\* Lost references and answers, a dropped cache entry, and time.
LEMMA FailureSteps ==
  ASSUME IInv, opt' = opt, (\E ref : LoseRef(ref)) \/ (\E h \in held : WorkerCrash(h)) \/ Evict \/ Tick
  PROVE  IInv'
<1>1. /\ Kept(cache, hist, index, now) /\ RefsFit(refs)
      /\ HeldFits(held, hist) /\ PageFits(page, hist, now)
      /\ hist \in Seq(Events) /\ now \in Nat
  BY StateIs DEF IInv, Good
<1>2. Extends(hist, hist)
  BY <1>1 DEF Extends
<1>3. ASSUME NEW ref, LoseRef(ref) PROVE IInv'
  <2>1. /\ hist' = hist /\ index' = index /\ cache' = cache /\ refs' = refs (-) SetToBag({ref}) /\ held' = held
        /\ now' = now /\ lost < MaxLost /\ lost' = lost + 1 /\ faults' = faults /\ page' = page
    BY <1>3 DEF LoseRef, Take, store, scanner
  <2>2. RefsFit(refs')
    BY <1>1, <2>1, TakenFits
  <2>3. Good(cache', hist', index', refs', held', now', page')
    BY <1>1, <2>1, <2>2 DEF Good
  <2> QED BY <2>1, <2>3, Counts, InvStep
<1>4. ASSUME NEW h \in held, WorkerCrash(h) PROVE IInv'
  <2>1. /\ hist' = hist /\ index' = index /\ cache' = cache /\ refs' = refs /\ held' \in SUBSET held
        /\ now' = now /\ lost' = lost /\ faults' = faults /\ page' = page
    BY <1>4 DEF WorkerCrash, store, scanner
  <2>2. HeldFits(held', hist)
    BY <1>1, <1>2, <2>1, HeldKept
  <2>3. Good(cache', hist', index', refs', held', now', page')
    BY <1>1, <2>1, <2>2 DEF Good
  <2> QED BY <2>1, <2>3, Counts, InvStep
<1>5. CASE Evict
  <2>1. /\ hist' = hist /\ index' = index /\ cache' = NoState /\ refs' = refs /\ held' = held
        /\ now' = now /\ lost' = lost /\ faults < MaxFaults /\ faults' = faults + 1 /\ page' = page
    BY <1>5 DEF Evict, store, scanner
  <2>2. Kept(NoState, hist, index, now)
    BY <1>1, EvictKeeps
  <2>3. HeldFits(held, hist)
    BY <1>1, <1>2, <2>2, HeldKept
  <2>4. Good(cache', hist', index', refs', held', now', page')
    BY <1>1, <2>1, <2>2, <2>3 DEF Good
  <2> QED BY <2>1, <2>4, Counts, InvStep
<1>6. CASE Tick
  <2>1. /\ hist' = hist /\ index' = index /\ cache' = cache /\ refs' = refs /\ held' = held
        /\ now < MaxTime /\ now' = now + 1 /\ lost' = lost /\ faults' = faults /\ page' = page
    BY <1>6 DEF Tick, store, scanner
  <2>2. now' \in Nat /\ now <= now'
    BY <1>1, <2>1
  <2>3. Kept(cache, hist, index, now')
    <3>1. Sound(StateOf(cache, hist), now')
      BY <1>1, <2>2, SoundLater DEF Kept, Standing
    <3> QED BY <1>1, <3>1 DEF Kept, Standing
  <2>4. PageFits(page, hist, now')
    <3> SUFFICES ASSUME NEW r \in page PROVE r.at <= now'
      BY <1>1 DEF PageFits
    <3>1. r.at \in Nat /\ r.at <= now
      BY <1>1 DEF PageFits, TimerFits, TimerRecords
    <3> QED BY <1>1, <2>2, <3>1
  <2>5. Good(cache', hist', index', refs', held', now', page')
    BY <1>1, <2>1, <2>3, <2>4 DEF Good
  <2> QED BY <2>1, <2>5, Counts, InvStep
<1> QED BY <1>3, <1>4, <1>5, <1>6

-------------------------------------------------------------------------------
\* The first states.

LEMMA NewSound == Sound(NewMutableState, 1)
<1> DEFINE ms == NewMutableState
<1>1. /\ ms \in MutableStates /\ ms.ok /\ ms.events = <<>>
  BY NewTyped
<1>2. /\ ms.wt = NoTask /\ ms.acts = NoEntry /\ ms.timers = NoEntry /\ ms.status = "Running"
  BY DEF NewMutableState
<1>3. FromLog(ms.events) = ms
  BY <1>1, FromLogEmpty
<1> HIDE DEF ms
<1>4. DOMAIN ms.acts = {} /\ DOMAIN ms.timers = {} /\ DOMAIN ms.events = {}
  BY <1>1, <1>2 DEF NoEntry
<1>5. Replays(ms)
  BY <1>1, <1>3, <1>4 DEF Replays, Alike, SameActs
<1>6. WellFormed(ms.events)
  BY <1>1 DEF WellFormed
<1>7. TaskSound(ms) /\ ActsSound(ms) /\ TimersSound(ms)
  BY <1>2, <1>4, NoTaskFields DEF TaskSound, ActsSound, TimersSound
<1>8. RunSound(ms, 1)
  BY <1>1, <1>4 DEF RunSound
<1>9. Currently(ms.events) /\ Timely(ms.events) /\ ResolvedOnce(ms.events)
  BY <1>4 DEF Currently, Timely, ResolvedOnce
<1> QED BY <1>1, <1>5, <1>6, <1>7, <1>8, <1>9 DEF Sound, ms

LEMMA FirstEvent ==
  ASSUME opt \in Options
  PROVE  LET ms == AppendEvent(NewMutableState, Event("Started", 1))
         IN /\ Sound(ms, 1) /\ Awake(ms) /\ ms.events # <<>>
            /\ ms.wt.sched = 0 /\ ~Terminal(ms)
<1> DEFINE new == NewMutableState
           e == Event("Started", 1)
           ms == AppendEvent(new, e)
<1>1. /\ new \in MutableStates /\ new.ok /\ new.events = <<>> /\ new.wt = NoTask
      /\ new.status = "Running" /\ Sound(new, 1) /\ ~Terminal(new)
  BY NewTyped, NewSound DEF NewMutableState, Terminal
<1>2. e \in Events /\ e.type = "Started" /\ e.time = 1
  BY EventFields DEF EventTypes
<1> HIDE DEF new, e
<1>3. Fits(new, e, 1)
  BY <1>1, <1>2 DEF Fits, TaskEnding, CommandTypes
<1>4. Applicable(new, e) /\ ms = Apply(new, e)
  BY <1>1, <1>2 DEF Applicable, AppendEvent
<1>5. Applied(ms, new, e, Len(new.events) + 1) /\ Sound(ms, 1)
  BY <1>1, <1>2, <1>3, <1>4, ApplyFields, ApplySound
<1> HIDE DEF ms
<1>6. ms.events = Append(<<>>, e) /\ ms.status = "Running" /\ ms.wt = NoTask
  BY <1>1, <1>2, <1>5 DEF Applied, TaskAfter, ClosedTypes, TaskEnding
<1>7. ms.events # <<>> /\ \A i \in DOMAIN ms.events : ms.events[i] = e
  BY <1>6
<1>8. Awake(ms)
  BY <1>2, <1>7 DEF Awake, WakeTypes
<1>9. ms.wt.sched = 0 /\ ~Terminal(ms)
  BY <1>6, NoTaskFields DEF Terminal
<1> QED BY <1>5, <1>7, <1>8, <1>9 DEF ms, new, e

LEMMA FirstState ==
  ASSUME opt \in Options, NEW deferred \in BOOLEAN
  PROVE  LET r == Start(1, deferred)
         IN /\ Sound(r.ms, 1) /\ Awake(r.ms) /\ r.ms.events # <<>>
            /\ r.eff \in Seq(Effects)
<1> DEFINE r == Start(1, deferred)
           ms == AppendEvent(NewMutableState, Event("Started", 1))
           s == ScheduleWorkflowTask(ms, 1)
<1>1. /\ Sound(ms, 1) /\ Awake(ms) /\ ms.events # <<>> /\ ms.wt.sched = 0 /\ ~Terminal(ms)
  BY FirstEvent
<1>2. r = IF deferred THEN Result(ms, <<>>) ELSE s
  BY DEF Start
<1> HIDE DEF ms
<1>3. CASE deferred
  <2> HIDE DEF r, s
  <2>1. r = Result(ms, <<>>)
    BY <1>2, <1>3
  <2>2. r.ms = ms /\ r.eff = <<>>
    BY <2>1 DEF Result
  <2>3. r.eff \in Seq(Effects)
    BY <2>2
  <2>4. Sound(r.ms, 1) /\ Awake(r.ms) /\ r.ms.events # <<>>
    BY <1>1, <2>2
  <2> QED BY <2>3, <2>4 DEF r
<1>4. CASE ~deferred
  <2> DEFINE e == Event("TaskScheduled", 1)
  <2>1. s.ms = AppendEvent(ms, e) /\ ms \in MutableStates /\ ms.ok
    BY <1>1 DEF ScheduleWorkflowTask, Result, Sound
  <2>2. e \in Events /\ e.type = "TaskScheduled"
    BY EventFields DEF EventTypes
  <2> HIDE DEF e
  <2>3. Applicable(ms, e) /\ s.ms = Apply(ms, e)
    BY <1>1, <2>1, <2>2 DEF Applicable, AppendEvent
  <2>4. s.ms.ok
    BY <2>1, <2>2, <2>3, ApplyFields DEF Applied
  <2>5. /\ Sound(s.ms, 1) /\ s.ms.events # <<>> /\ EffectsFit(s.ms, s.eff)
        /\ ~Terminal(s.ms) => s.ms.wt.sched # 0
    BY <1>1, <2>4, ScheduleSound
  <2> HIDE DEF s
  <2>6. Awake(s.ms) /\ s.eff \in Seq(Effects)
    BY <2>5 DEF Awake, EffectsFit
  <2> QED BY <1>2, <1>4, <2>5, <2>6
<1> QED BY <1>3, <1>4

LEMMA InitInv == ASSUME Init PROVE IInv
<1>1. /\ opt \in Options /\ held = {} /\ now = 1 /\ page = {} /\ lost = 0 /\ faults = 0
  BY DEF Init
<1> DEFINE First(d) == Start(1, d)
           Arm(d) == IF d THEN {Timer("WorkflowRetry", 1, 1 + Backoff, 0)} ELSE {}
           Want(d) == DesiredTimers(First(d).ms, {}, Arm(d), {})
<1>2. PICK d \in BOOLEAN :
        /\ hist = First(d).ms.events
        /\ index = Want(d)
        /\ cache = IF d THEN NoState ELSE [ms |-> First(d).ms, armed |-> Want(d)]
        /\ refs = Dispatched(First(d).ms, First(d).eff)
  BY DEF Init
<1> DEFINE m == First(d).ms
           arm == Arm(d)
           want == Want(d)
<1>3. Sound(m, 1) /\ Awake(m) /\ m.events # <<>> /\ First(d).eff \in Seq(Effects)
  BY <1>1, FirstState
<1>4. m.events \in Seq(Events) /\ m \in MutableStates
  BY <1>3 DEF Sound, MutableStates
<1>5. TimersFit(arm, m.events) /\ TimersFit({}, m.events)
  <2> HIDE DEF m
  <2>1. TimersFit({}, m.events)
    BY DEF TimersFit, OneEach
  <2> DEFINE r == Timer("WorkflowRetry", 1, 1 + Backoff, 0)
  <2>2. 1 + Backoff \in Nat /\ 1 + Backoff # 0
    BY <1>1, Settings
  <2>3. r \in TimerRecords /\ r.kind = "WorkflowRetry" /\ r.ev = 1 /\ r.at = 1 + Backoff
    BY <2>2 DEF Timer, TimerRecords, TimerKinds
  <2>4. 1 \in DOMAIN m.events
    BY <1>3, <1>4
  <2> HIDE DEF r
  <2>5. TimersFit({r}, m.events)
    BY <2>2, <2>3, <2>4 DEF TimersFit, TimerFits, OneEach
  <2> QED BY <2>1, <2>5 DEF r
<1> HIDE DEF arm
<1>6. TimersFit(want, m.events)
  <2>1. want = DesiredTimers(m, {}, arm, {})
    BY DEF arm
  <2> HIDE DEF m, want
  <2> QED BY <1>1, <1>3, <1>5, <2>1, DesiredFit
<1>7. RefsFit(refs)
  BY <1>2, <1>3, <1>4, DispatchedFits
<1>8. /\ hist = m.events /\ index = want
      /\ cache = IF d THEN NoState ELSE [ms |-> m, armed |-> want]
  BY <1>2
<1> HIDE DEF m, want
<1> DEFINE c == [ms |-> m, armed |-> want]
<1>9. c # NoState /\ c.armed = want /\ StateOf(c, hist) = m
  BY <1>3, CacheIs
<1> HIDE DEF c
<1>10. Kept(c, hist, index, 1)
  BY <1>3, <1>4, <1>6, <1>8, <1>9 DEF Kept, Standing
<1>11. Kept(cache, hist, index, 1)
  <2>1. Kept(NoState, hist, index, 1)
    BY <1>10, EvictKeeps
  <2> QED BY <1>8, <1>10, <2>1 DEF c
<1>12. Good(cache, hist, index, refs, held, now, page)
  BY <1>1, <1>7, <1>11 DEF Good, HeldFits, PageFits
<1>13. MaxTime \in Nat \ {0} /\ MaxLost \in Nat /\ MaxFaults \in Nat
  BY <1>1, Settings
<1>14. now \in 1 .. MaxTime /\ lost \in 0 .. MaxLost /\ faults \in 0 .. MaxFaults
  BY <1>1, <1>13
<1> QED BY <1>1, <1>12, <1>14 DEF IInv

LEMMA NextInv == ASSUME IInv, [Next]_vars PROVE IInv'
<1>1. CASE UNCHANGED vars
  <2>1. /\ opt' = opt /\ hist' = hist /\ index' = index /\ cache' = cache /\ refs' = refs /\ held' = held
        /\ now' = now /\ lost' = lost /\ faults' = faults /\ page' = page
    BY <1>1 DEF vars
  <2>2. Good(cache', hist', index', refs', held', now', page')
    BY <2>1 DEF IInv
  <2> QED BY <2>1, <2>2, Counts, InvStep
<1>2. CASE Next
  <2>1. opt' = opt /\ Step
    BY <1>2 DEF Next
  <2>2. CASE SignalWorkflow \/ CancelWorkflow \/ TerminateWorkflow
    BY <2>1, <2>2, ClientSteps
  <2>3. ASSUME NEW ref \in BagToSet(refs), NEW w \in Workers, PollWorkflowTask(w, ref) PROVE IInv'
    BY <2>1, <2>3, PollTask
  <2>4. ASSUME NEW ref \in BagToSet(refs), PollActivityTask(ref) PROVE IInv'
    BY <2>1, <2>4, PollActivity
  <2>5. ASSUME NEW ref \in BagToSet(refs), LoseRef(ref) PROVE IInv'
    BY <2>1, <2>5, FailureSteps
  <2>6. ASSUME NEW h \in held,
               \/ h.kind = "wf" /\ \E b \in Batches(h.ev) : RespondWorkflowTaskCompleted(h, b)
               \/ RespondWorkflowTaskFailed(h)
        PROVE  IInv'
    BY <2>1, <2>6, TaskAnswers, AnswerCall DEF Steady
  <2>7. ASSUME NEW h \in held,
               \/ RespondActivityTaskCompleted(h)
               \/ \E retryable \in BOOLEAN : RespondActivityTaskFailed(h, retryable)
               \/ RespondActivityTaskCanceled(h)
               \/ Heartbeat(h)
        PROVE  IInv'
    BY <2>1, <2>7, ActivityAnswers, AnswerCall DEF Steady
  <2>8. ASSUME NEW h \in held, WorkerCrash(h) PROVE IInv'
    BY <2>1, <2>8, FailureSteps
  <2>9. CASE Scan \/ Delete \/ DeleteFails \/ (\E r \in page : Dispatch(r) \/ DispatchFails(r))
    BY <2>1, <2>9, ScannerSteps
  <2>10. CASE Evict \/ Tick
    BY <2>1, <2>10, FailureSteps
  <2>11. CASE Restart
    BY <2>1, <2>11, RestartStep
  <2> QED BY <2>1, <2>2, <2>3, <2>4, <2>5, <2>6, <2>7, <2>8, <2>9, <2>10, <2>11 DEF Step
<1> QED BY <1>1, <1>2

LEMMA InvHolds == Spec => []IInv
BY InitInv, NextInv, PTL DEF Spec

-------------------------------------------------------------------------------
\* What the properties say, read off the invariant.

LEMMA InvTypes == ASSUME IInv PROVE TypeOK
<1>1. /\ Sound(State, now) /\ State.events = hist /\ hist # <<>> /\ hist \in Seq(Events)
      /\ now \in Nat \ {0} /\ Kept(cache, hist, index, now)
  BY StateIs
<1>2. \A i \in DOMAIN hist : hist[i].time \in 1 .. now
  <2> TAKE i \in DOMAIN hist
  <2>1. hist[i].time \in Nat
    BY <1>1, EventTyped
  <2>2. hist[i].time > 0
    BY <1>1 DEF Sound, WellFormed
  <2>3. hist[i].time <= now
    BY <1>1 DEF Sound, RunSound
  <2> QED BY <1>1, <2>1, <2>2, <2>3
<1>3. TimersFit(index, hist) /\ PageFits(page, hist, now)
  BY <1>1 DEF Kept, IInv, Good
<1>4. \A r, s \in index : Key(r) = Key(s) => r = s
  BY <1>3, KeyIs DEF TimersFit, OneEach
<1>5. \A r \in index \cup page : r.ev \in DOMAIN hist /\ r.at > 0
  <2> TAKE r \in index \cup page
  <2>1. TimerFits(r, hist)
    BY <1>3 DEF TimersFit, PageFits
  <2>2. r.ev \in DOMAIN hist /\ r.at \in Nat /\ r.at # 0
    BY <2>1 DEF TimerFits, TimerRecords
  <2> QED BY <2>2
<1>6. \A h \in held : h.kind \in {"wf", "act"} /\ h.ev \in DOMAIN hist
  BY DEF IInv, Good, HeldFits
<1>7. IsABag(refs)
  BY DEF IInv, Good, RefsFit
<1> QED BY <1>2, <1>4, <1>5, <1>6, <1>7 DEF TypeOK, IInv

\* Whatever order calls, timers, failures, evictions and restarts come in, the log that
\* was written is well formed, gives each activity one result, and replays to what the
\* engine has in its cache; it loads up to MaxHistoryEvents events and no longer beyond,
\* which no write prevents.  At most one index entry exists per key, and every timer, held
\* task and event is about the log and not ahead of the clock (mutate, commit, Rebuild).
THEOREM RecoverableAlways == Spec => []Recoverable
<1>1. ASSUME IInv PROVE Recoverable
  <2> DEFINE r == FromLog(hist)
  <2>1. Sound(State, now) /\ State.events = hist
    BY <1>1, StateIs
  <2>2. r \in MutableStates /\ r.ok /\ Alike(r, State)
    BY <2>1 DEF Sound, Replays
  <2>3. Replayed = r
    BY DEF Replayed
  <2> HIDE DEF r
  <2>4. Loadable
    <3>1. WellFormed(hist) /\ FromLog(hist).ok = TRUE
      BY <2>1, <2>2 DEF Sound, MutableStates, r
    <3>2. Rebuild(hist).ok <=> Len(hist) <= MaxHistoryEvents
      BY <3>1, LoadedIs
    <3> QED BY <2>1, <2>2, <2>3, <3>2 DEF Loadable, Alike
  <2>5. ReplayAgrees
    <3>1. Durable(State) = Durable(r)
      BY <2>2, AlikeIsDurable
    <3>2. cache # NoState => State = cache.ms
      BY DEF State
    <3> QED BY <2>3, <3>1, <3>2 DEF ReplayAgrees
  <2>6. ActivityResolvedOnce
    BY <2>1 DEF Sound, ResolvedOnce, Resolving, ActivityResolvedOnce
  <2> QED BY <2>4, <2>5, <2>6, <1>1, InvTypes DEF Recoverable
<1> QED BY <1>1, InvHolds, PTL

\* A completion is in the log only if the worker that sent it had replayed the log up to
\* the start of the very task it completes, or up to an earlier start whose recorded
\* identity does not tell the two apart: it is the same, or one of them is empty.  Under
\* any settings a worker that stalled past its timeout is otherwise refused, whoever was
\* given the task since (checkTaskOwnership).
THEOREM CompletionsCurrent == Spec => []CompletionsAreCurrent
<1>1. ASSUME IInv PROVE CompletionsAreCurrent
  <2>1. WellFormed(hist) /\ Currently(hist) /\ hist \in Seq(Events)
    BY <1>1, StateIs DEF Sound
  <2> SUFFICES ASSUME NEW i \in DOMAIN hist, hist[i].type = "TaskCompleted"
               PROVE  /\ {hist[i].ref, hist[i].seen} \subseteq 1 .. (i - 1)
                      /\ hist[hist[i].seen].type = "TaskStarted" /\ hist[i].seen <= hist[i].ref
                      /\ \/ hist[i].seen = hist[i].ref
                         \/ hist[hist[i].seen].id = hist[hist[i].ref].id
                         \/ "" \in {hist[hist[i].seen].id, hist[hist[i].ref].id}
    BY DEF CompletionsAreCurrent
  <2>2. Indistinct(hist, hist[i].seen, hist[i].ref)
    BY <2>1 DEF Currently
  <2>3. hist[i].ref \in 1 .. (i - 1)
    <3>1. RefType(hist[i].type) = "TaskStarted"
      BY DEF RefType
    <3> QED BY <2>1, <3>1 DEF WellFormed, PointsTo
  <2>4. {hist[i].ref, hist[i].seen} \subseteq 1 .. (i - 1)
    BY <2>1, <2>2, <2>3 DEF Indistinct, At
  <2>5. hist[hist[i].seen].type = "TaskStarted" /\ hist[i].seen <= hist[i].ref
    BY <2>2 DEF Indistinct, At
  <2>6. \/ hist[i].seen = hist[i].ref
        \/ hist[hist[i].seen].id = hist[hist[i].ref].id
        \/ "" \in {hist[hist[i].seen].id, hist[hist[i].ref].id}
    BY <2>2, Zenon DEF Indistinct, Unnamed
  <2> QED BY <2>4, <2>5, <2>6, Zenon
<1> QED BY <1>1, InvHolds, PTL

\* No timer fires early: the scan loop may hold a page for as long as it likes and the
\* entries may be rewritten or the task replaced meanwhile, and still a user timer, a
\* task timeout and the run timeout each wait out their full duration (onTimer).
THEOREM NeverEarly == Spec => []NothingFiresEarly
<1>1. ASSUME IInv PROVE NothingFiresEarly
  BY <1>1, StateIs DEF Sound, Timely, NothingFiresEarly
<1> QED BY <1>1, InvHolds, PTL

\* An idle open run has nothing unread: every signal, cancellation request, fired timer
\* or activity result in its log was in the history handed out with a task completed since,
\* also when it arrived while a task was in flight (wakeWorkflow, RespondWorkflowTaskCompleted).
THEOREM NoWakeupLost == Spec => []NoLostWakeup
<1>1. ASSUME IInv PROVE NoLostWakeup
  BY <1>1, StateIs DEF Awake, NoLostWakeup
<1> QED BY <1>1, InvHolds, PTL

-------------------------------------------------------------------------------
\* Who wakes the run: HasWaker.

\* What a state r, whose log has n events, can become: nothing comes back that has ended.
Later(r, s, n) ==
  /\ \A k \in DOMAIN s.timers : k \in DOMAIN r.timers \/ k > n
  /\ \A a \in DOMAIN s.acts :
       \/ a \in DOMAIN r.acts /\ (r.acts[a].started # 0 => s.acts[a].started # 0)
       \/ a > n
  /\ s.wt.started # 0 => s.wt.started = r.wt.started \/ s.wt.started > n
  /\ Terminal(r) => Terminal(s)

LEMMA ApplyLater ==
  ASSUME opt \in Options, NEW ms \in MutableStates, NEW e \in Events, Apply(ms, e).ok
  PROVE  /\ ms.ok /\ Apply(ms, e) \in MutableStates
         /\ Len(Apply(ms, e).events) = Len(ms.events) + 1
         /\ Later(ms, Apply(ms, e), Len(ms.events))
<1> DEFINE n == Len(ms.events) + 1
           m == Apply(ms, e)
<1>1. ms.ok /\ Applicable(ms, e)
  BY ApplyRejects
<1>2. Applied(m, ms, e, n)
  BY <1>1, ApplyFields
<1>3. ms.events \in Seq(Events)
  BY DEF MutableStates
<1> HIDE DEF m
<1>4. n \in Nat /\ n > Len(ms.events) /\ m.events = Append(ms.events, e)
  BY <1>2, <1>3 DEF Applied
<1>5. Len(m.events) = Len(ms.events) + 1
  BY <1>3, <1>4
<1>6. \A k \in DOMAIN m.timers : k \in DOMAIN ms.timers \/ k = n
  BY <1>2 DEF Applied, TimersAfter, Put1, Remove1, NoEntry
<1>7. \A a \in DOMAIN m.acts :
        \/ a \in DOMAIN ms.acts /\ (ms.acts[a].started # 0 => m.acts[a].started # 0)
        \/ a = n
  <2>1. m.acts = ActsAfter(ms, e, n)
    BY <1>2 DEF Applied
  <2>2. CASE e.type \in ClosedTypes
    BY <2>1, <2>2 DEF ActsAfter, NoEntry
  <2>3. CASE e.type = "ActScheduled"
    <3>1. m.acts = Put1(ms.acts, n, NewActivity(e))
      BY <2>1, <2>3 DEF ActsAfter, ClosedTypes
    <3> QED BY <3>1 DEF Put1
  <2>4. CASE e.type = "ActStarted"
    <3> DEFINE v == StartedActivity(ms.acts[e.ref], e, n)
    <3>1. m.acts = [ms.acts EXCEPT ![e.ref] = v] /\ e.ref \in DOMAIN ms.acts
      BY <1>1, <2>1, <2>4 DEF ActsAfter, ClosedTypes, Applicable
    <3>2. v.started = n
      <4>1. ms.acts[e.ref] \in ActStates
        BY <3>1, PendingTyped
      <4> QED BY <4>1 DEF StartedActivity, ActStates
    <3> HIDE DEF v
    <3> QED BY <1>4, <3>1, <3>2
  <2>5. CASE e.type = "ActCancelRequested"
    <3>1. m.acts = [ms.acts EXCEPT ![e.ref].cancel = TRUE]
      BY <2>1, <2>5 DEF ActsAfter, ClosedTypes
    <3>2. \A a \in DOMAIN ms.acts : ms.acts[a] \in ActStates
      BY PendingTyped
    <3> QED BY <3>1, <3>2 DEF ActStates
  <2>6. CASE e.type \in Resolving
    BY <2>1, <2>6 DEF ActsAfter, Resolving, ClosedTypes, Remove1
  <2>7. CASE e.type \notin ClosedTypes \cup Resolving \cup {"ActScheduled", "ActStarted", "ActCancelRequested"}
    BY <2>1, <2>7 DEF ActsAfter
  <2> QED BY <2>2, <2>3, <2>4, <2>5, <2>6, <2>7
<1>8. m.wt.started # 0 => m.wt.started = ms.wt.started \/ m.wt.started = n
  <2>1. m.wt = TaskAfter(ms, e, n) /\ ms.wt \in TaskStates
    BY <1>2 DEF Applied, MutableStates
  <2>2. [NoTask EXCEPT !.sched = n].started = 0
    BY <1>4, FreshTask
  <2>3. [ms.wt EXCEPT !.started = n, !.who = e.id, !.deadline = e.time + TaskTimeout].started = n
    BY <2>1 DEF TaskStates
  <2> QED BY <2>1, <2>2, <2>3, NoTaskFields DEF TaskAfter
<1>9. Terminal(ms) => Terminal(m)
  BY <1>2 DEF Applied, Terminal, ClosedTypes
<1>10. Later(ms, m, Len(ms.events))
  BY <1>4, <1>6, <1>7, <1>8, <1>9 DEF Later
<1>11. m \in MutableStates
  BY <1>2 DEF Applied
<1> QED BY <1>1, <1>5, <1>10, <1>11 DEF m

LEMMA LaterAlike ==
  ASSUME NEW a, NEW b, NEW c, NEW d, NEW n, Alike(a, b), Alike(c, d), Later(a, c, n)
  PROVE  Later(b, d, n)
BY DEF Later, Alike, SameActs, Terminal

LEMMA ReplayPrefix ==
  ASSUME NEW p, NEW q, NEW h, NEW g, NEW k \in Nat, NEW m \in Nat, k <= m,
         IsReplay(p, h, k), IsReplay(q, g, m), \A i \in 1 .. k : g[i] = h[i]
  PROVE  p[k] = q[k]
<1>1. p[0] = NewMutableState /\ \A n \in 1 .. k : p[n] = Apply(p[n - 1], h[n])
  BY ReplayAt
<1>2. q[0] = NewMutableState /\ \A n \in 1 .. m : q[n] = Apply(q[n - 1], g[n])
  BY ReplayAt
<1> DEFINE S == {n \in Nat : n <= k => p[n] = q[n]}
<1>3. 0 \in S
  BY <1>1, <1>2
<1>4. ASSUME NEW n \in S PROVE n + 1 \in S
  <2> SUFFICES ASSUME n + 1 <= k PROVE p[n + 1] = q[n + 1]
    OBVIOUS
  <2>1. n + 1 \in 1 .. k /\ n + 1 \in 1 .. m /\ (n + 1) - 1 = n /\ p[n] = q[n]
    OBVIOUS
  <2>2. p[n + 1] = Apply(p[n], h[n + 1]) /\ q[n + 1] = Apply(q[n], g[n + 1])
    BY <1>1, <1>2, <2>1
  <2> QED BY <2>1, <2>2
<1>5. S = Nat
  <2> HIDE DEF S
  <2> QED BY <1>3, <1>4, Induction DEF S
<1> QED BY <1>5

LEMMA FromLogLater ==
  ASSUME opt \in Options, NEW h \in Seq(Events), NEW g \in Seq(Events), Extends(h, g),
         WellFormed(h), WellFormed(g), FromLog(g).ok
  PROVE  Later(FromLog(h), FromLog(g), Len(h))
<1> DEFINE k == Len(h)
           m == Len(g)
<1>1. k \in Nat /\ m \in Nat /\ k <= m /\ (\A i \in 1 .. k : g[i] = h[i]) /\ (\A i \in 1 .. m : g[i] \in Events)
  BY DEF Extends
<1>2. PICK p : IsReplay(p, h, k) /\ FromLog(h) = p[k]
  BY FromLogIs
<1>3. PICK q : IsReplay(q, g, m) /\ FromLog(g) = q[m]
  BY FromLogIs
<1> HIDE DEF k, m
<1>4. p[k] = q[k]
  BY <1>1, <1>2, <1>3, ReplayPrefix
<1>5. q[0] = NewMutableState /\ \A n \in 1 .. m : q[n] = Apply(q[n - 1], g[n])
  BY <1>1, <1>3, ReplayAt
<1> DEFINE Reached(n) == /\ q[n] \in MutableStates
                         /\ q[n].ok => Len(q[n].events) = n /\ (k <= n => Later(q[k], q[n], k))
           S == {n \in Nat : n <= m => Reached(n)}
<1>6. 0 \in S
  <2>1. q[0] \in MutableStates /\ Len(q[0].events) = 0
    BY <1>5, NewTyped
  <2>2. k <= 0 => Later(q[k], q[0], k)
    BY <1>1 DEF Later
  <2> QED BY <2>1, <2>2
<1>7. ASSUME NEW n \in S PROVE n + 1 \in S
  <2> SUFFICES ASSUME n + 1 <= m PROVE Reached(n + 1)
    OBVIOUS
  <2>1. n \in Nat /\ n + 1 \in 1 .. m /\ (n + 1) - 1 = n /\ Reached(n)
    BY <1>1
  <2>2. q[n + 1] = Apply(q[n], g[n + 1]) /\ g[n + 1] \in Events
    BY <1>1, <1>5, <2>1
  <2>3. q[n + 1] \in MutableStates
    BY <2>1, <2>2, ApplyTyped
  <2> SUFFICES ASSUME q[n + 1].ok
               PROVE  Len(q[n + 1].events) = n + 1 /\ (k <= n + 1 => Later(q[k], q[n + 1], k))
    BY <2>3
  <2>4. q[n].ok /\ Len(q[n + 1].events) = Len(q[n].events) + 1 /\ Later(q[n], q[n + 1], Len(q[n].events))
    BY <2>1, <2>2, ApplyLater
  <2>5. Len(q[n].events) = n /\ (k <= n => Later(q[k], q[n], k))
    BY <2>1, <2>4
  <2>6. CASE k = n + 1
    BY <2>4, <2>5, <2>6 DEF Later
  <2>7. CASE k <= n
    <3>1. /\ \A i \in DOMAIN q[n + 1].timers : i \in Nat
          /\ \A i \in DOMAIN q[n + 1].acts : i \in Nat
          /\ q[n + 1].wt.started \in Nat
      BY <2>3, PendingTyped DEF MutableStates, TaskStates
    <3>2. \A i \in Nat : i > n => i > k
      BY <1>1, <2>1, <2>7
    <3>3. Later(q[k], q[n], k) /\ Later(q[n], q[n + 1], n)
      BY <2>4, <2>5, <2>7
    <3>4. Later(q[k], q[n + 1], k)
      BY <3>1, <3>2, <3>3 DEF Later
    <3> QED BY <2>4, <2>5, <3>4
  <2>8. CASE k > n + 1
    BY <1>1, <2>1, <2>4, <2>5, <2>8
  <2> QED BY <1>1, <2>1, <2>6, <2>7, <2>8
<1>8. S = Nat
  <2> HIDE DEF S
  <2> QED BY <1>6, <1>7, Induction DEF S
<1> HIDE DEF Reached
<1>9. Reached(m)
  BY <1>1, <1>8
<1> QED BY <1>1, <1>2, <1>3, <1>4, <1>9 DEF Reached, k

\* So nothing comes back between two sound states of a log that grows.
LEMMA SoundStatesLater ==
  ASSUME opt \in Options, NEW a, NEW b, NEW t, NEW u, Sound(a, t), Sound(b, u),
         Extends(a.events, b.events)
  PROVE  Later(a, b, Len(a.events))
<1> DEFINE r == FromLog(a.events)
           s == FromLog(b.events)
<1>1. /\ a.events \in Seq(Events) /\ b.events \in Seq(Events) /\ WellFormed(a.events) /\ WellFormed(b.events)
      /\ Alike(r, a) /\ Alike(s, b) /\ s.ok
  BY DEF Sound, MutableStates, Replays
<1>2. Later(r, s, Len(a.events))
  BY <1>1, FromLogLater
<1> HIDE DEF r, s
<1> QED BY <1>1, <1>2, LaterAlike

\* The timers of the run itself.
RunTimers(ms) == DerivedTimers([ms EXCEPT !.acts = NoEntry])

LEMMA RunTimersAre ==
  ASSUME NEW ms \in MutableStates, NEW r
  PROVE  r \in RunTimers(ms) <=>
           \/ ms.runDl # 0 /\ r = Timer("Execution", 1, ms.runDl, 0)
           \/ ms.wt.started # 0 /\ r = Timer("Task", ms.wt.started, ms.wt.deadline, 0)
           \/ \E k \in DOMAIN ms.timers : r = Timer("User", k, ms.timers[k].at, 0)
<1> DEFINE m == [ms EXCEPT !.acts = NoEntry]
<1>1. m.acts = NoEntry /\ m.runDl = ms.runDl /\ m.wt = ms.wt /\ m.timers = ms.timers
  BY DEF MutableStates
<1> HIDE DEF m
<1>2. DOMAIN m.acts = {}
  BY <1>1 DEF NoEntry
<1> DEFINE E == IF m.runDl # 0 THEN {Timer("Execution", 1, m.runDl, 0)} ELSE {}
           T == IF Started(m) THEN {Timer("Task", m.wt.started, m.wt.deadline, 0)} ELSE {}
           U == {Timer("User", k, m.timers[k].at, 0) : k \in DOMAIN m.timers}
           A == {Timer("Activity", a, ActivityDeadline(m.acts[a]), m.acts[a].attempt) :
                   a \in {a \in DOMAIN m.acts : ActivityDeadline(m.acts[a]) # 0}}
<1>3. DerivedTimers(m) = E \cup T \cup U \cup A
  BY DEF DerivedTimers
<1>4. A = {}
  BY <1>2
<1> HIDE DEF A
<1>5. r \in DerivedTimers(m) <=> r \in E \/ r \in T \/ r \in U
  BY <1>3, <1>4
<1>6. RunTimers(ms) = DerivedTimers(m)
  BY DEF RunTimers, m
<1>7. r \in E <=> ms.runDl # 0 /\ r = Timer("Execution", 1, ms.runDl, 0)
  BY <1>1
<1>8. r \in T <=> ms.wt.started # 0 /\ r = Timer("Task", ms.wt.started, ms.wt.deadline, 0)
  BY <1>1 DEF Started
<1>9. r \in U <=> \E k \in DOMAIN ms.timers : r = Timer("User", k, ms.timers[k].at, 0)
  BY <1>1
<1> HIDE DEF E, T, U
<1> QED BY <1>5, <1>6, <1>7, <1>8, <1>9

LEMMA RunTimersDerived ==
  ASSUME NEW ms \in MutableStates, NEW r \in RunTimers(ms)
  PROVE  r \in DerivedTimers(ms) /\ r.kind \in {"Execution", "Task", "User"}
<1>1. \/ ms.runDl # 0 /\ r = Timer("Execution", 1, ms.runDl, 0)
      \/ ms.wt.started # 0 /\ r = Timer("Task", ms.wt.started, ms.wt.deadline, 0)
      \/ \E k \in DOMAIN ms.timers : r = Timer("User", k, ms.timers[k].at, 0)
  BY RunTimersAre
<1>2. r \in DerivedTimers(ms)
  BY <1>1 DEF DerivedTimers, Started
<1>3. r.kind \in {"Execution", "Task", "User"}
  BY <1>1, TimerFields
<1> QED BY <1>2, <1>3

LEMMA RunTimersAlike ==
  ASSUME NEW a \in MutableStates, NEW b \in MutableStates, Alike(a, b)
  PROVE  RunTimers(a) = RunTimers(b)
<1>1. a.runDl = b.runDl /\ a.wt = b.wt /\ a.timers = b.timers
  BY DEF Alike
<1>2. \A r : r \in RunTimers(a) <=> r \in RunTimers(b)
  <2> TAKE r
  <2> QED BY <1>1, RunTimersAre
<1> QED BY <1>2

\* A timer of the run about an old event is an old one.
LEMMA RunTimersKept ==
  ASSUME opt \in Options, NEW a, NEW b, NEW t, NEW u, Sound(a, t), Sound(b, u),
         Extends(a.events, b.events), a.events # <<>>,
         NEW r \in RunTimers(b), r.ev \in DOMAIN a.events
  PROVE  r \in RunTimers(a)
<1> DEFINE h == a.events
           g == b.events
<1>1. /\ a \in MutableStates /\ b \in MutableStates /\ h \in Seq(Events) /\ g \in Seq(Events)
      /\ 1 \in DOMAIN h /\ g # <<>> /\ \A i \in DOMAIN h : g[i] = h[i] /\ i <= Len(h) /\ i \in Nat /\ Len(h) \in Nat
  BY DEF Sound, MutableStates, Extends
<1>2. Later(a, b, Len(h))
  BY SoundStatesLater
<1>3. CASE b.runDl # 0 /\ r = Timer("Execution", 1, b.runDl, 0)
  <2>1. a.runDl = Deadline(h[1].time, RunTimeout) /\ b.runDl = Deadline(g[1].time, RunTimeout)
    BY <1>1 DEF Sound, RunSound
  <2>2. a.runDl = b.runDl
    BY <1>1, <2>1
  <2> QED BY <1>1, <1>3, <2>2, RunTimersAre
<1>4. CASE b.wt.started # 0 /\ r = Timer("Task", b.wt.started, b.wt.deadline, 0)
  <2>1. r.ev = b.wt.started
    BY <1>4, TimerFields
  <2>2. b.wt.started <= Len(h) /\ b.wt.started \in Nat
    BY <1>1, <2>1
  <2>3. b.wt.started = a.wt.started
    BY <1>1, <1>2, <1>4, <2>2 DEF Later
  <2>4. a.wt.deadline = h[a.wt.started].time + TaskTimeout /\ b.wt.deadline = g[b.wt.started].time + TaskTimeout
    BY <1>4, <2>3 DEF Sound, TaskSound
  <2>5. g[b.wt.started] = h[a.wt.started]
    BY <1>1, <2>1, <2>3
  <2> HIDE DEF h, g
  <2>6. a.wt.deadline = b.wt.deadline
    BY <2>4, <2>5
  <2> QED BY <1>1, <1>4, <2>3, <2>6, RunTimersAre
<1>5. ASSUME NEW k \in DOMAIN b.timers, r = Timer("User", k, b.timers[k].at, 0) PROVE r \in RunTimers(a)
  <2>1. r.ev = k
    BY <1>5, TimerFields
  <2>2. k <= Len(h) /\ k \in Nat
    BY <1>1, <2>1
  <2>3. k \in DOMAIN a.timers
    BY <1>1, <1>2, <2>2 DEF Later
  <2>4. a.timers[k].at = h[k].time + TimerDelay /\ b.timers[k].at = g[k].time + TimerDelay
    BY <2>3 DEF Sound, TimersSound
  <2>5. g[k] = h[k]
    BY <1>1, <2>1
  <2> HIDE DEF h, g
  <2>6. a.timers[k].at = b.timers[k].at
    BY <2>4, <2>5
  <2> QED BY <1>1, <1>5, <2>3, <2>6, RunTimersAre
<1> QED BY <1>1, <1>3, <1>4, <1>5, RunTimersAre

\* The run does not wait for the entry with this key.
Dead(key, ms) ==
  \/ Terminal(ms)
  \/ /\ key \notin Keys(RunTimers(ms))
     /\ key = <<"WorkflowRetry", 1>> => Len(ms.events) # 1
     /\ Fixed => \A a \in DOMAIN ms.acts : key # <<"Activity", a>>

LEMMA DeadLater ==
  ASSUME opt \in Options, NEW a, NEW b, NEW t, NEW u, Sound(a, t), Sound(b, u),
         Extends(a.events, b.events), a.events # <<>>,
         NEW kind, NEW ev \in DOMAIN a.events, Dead(<<kind, ev>>, a)
  PROVE  Dead(<<kind, ev>>, b)
<1> DEFINE key == <<kind, ev>>
<1>1. Later(a, b, Len(a.events))
  BY SoundStatesLater
<1>2. Terminal(a) => Terminal(b)
  BY <1>1 DEF Later
<1> SUFFICES ASSUME ~Terminal(a) PROVE Dead(key, b)
  BY <1>2 DEF Dead
<1>3. key \notin Keys(RunTimers(b))
  <2> SUFFICES ASSUME NEW r \in RunTimers(b), Key(r) = key PROVE FALSE
    BY DEF Keys
  <2>1. r.ev = ev
    BY DEF Key
  <2>2. r \in RunTimers(a)
    BY <2>1, RunTimersKept
  <2> QED BY <2>2 DEF Dead, Keys
<1>4. key = <<"WorkflowRetry", 1>> => Len(b.events) # 1
  <2>1. a.events \in Seq(Events) /\ b.events \in Seq(Events)
    BY DEF Sound, MutableStates
  <2>2. Len(a.events) <= Len(b.events) /\ Len(a.events) \in Nat /\ Len(b.events) \in Nat /\ Len(a.events) # 0
    BY <2>1 DEF Extends
  <2>3. key = <<"WorkflowRetry", 1>> => Len(a.events) # 1
    BY DEF Dead
  <2>4. \A p, q \in Nat : p <= q /\ p # 0 /\ p # 1 => q # 1
    OBVIOUS
  <2> HIDE DEF key
  <2> QED BY <2>2, <2>3, <2>4
<1>5. Fixed => \A x \in DOMAIN b.acts : key # <<"Activity", x>>
  <2> SUFFICES ASSUME Fixed, NEW x \in DOMAIN b.acts, key = <<"Activity", x>> PROVE FALSE
    OBVIOUS
  <2>1. x = ev /\ a.events \in Seq(Events)
    BY DEF Sound, MutableStates
  <2>2. ~(x > Len(a.events))
    BY <2>1
  <2>3. x \in DOMAIN a.acts
    BY <1>1, <2>2 DEF Later
  <2> QED BY <2>3 DEF Dead
<1> QED BY <1>3, <1>4, <1>5 DEF Dead

-------------------------------------------------------------------------------
\* The index holds what the run waits for.

RunWatched(ms, ix) ==
  IF Terminal(ms) THEN ix = {}
  ELSE /\ RunTimers(ms) \subseteq ix
       /\ Len(ms.events) = 1 => <<"WorkflowRetry", 1>> \in Keys(ix)

LEMMA RunWatchedAlike ==
  ASSUME NEW a \in MutableStates, NEW b \in MutableStates, Alike(a, b), NEW ix, RunWatched(a, ix)
  PROVE  RunWatched(b, ix)
<1>1. a.status = b.status /\ a.events = b.events
  BY DEF Alike
<1> QED BY <1>1, RunTimersAlike DEF RunWatched, Terminal

\* What DesiredTimers keeps of what is derived and of what is carried on.
LEMMA WantsDerived ==
  ASSUME NEW ms, ~Terminal(ms), NEW armed, NEW arm, NEW drop, \A r \in arm : r.kind = "Retry"
  PROVE  LET want == DesiredTimers(ms, armed, arm, drop)
         IN /\ \A r \in DerivedTimers(ms) : r.kind # "Retry" /\ Key(r) \notin drop => r \in want
            /\ \A r \in armed : r.kind = "WorkflowRetry" /\ Key(r) \notin drop => r \in want
            /\ \A r \in want : r.kind \in {"Retry", "WorkflowRetry"} \/ r \in DerivedTimers(ms)
<1> DEFINE carried == {r \in armed : \/ r.kind = "WorkflowRetry"
                                     \/ r.kind = "Retry" /\ r.ev \in DOMAIN ms.acts}
           want == DesiredTimers(ms, armed, arm, drop)
<1>1. want = Without(Without(carried \cup DerivedTimers(ms), Keys(arm)) \cup arm, drop)
  BY DEF DesiredTimers
<1>2. \A r : r.kind # "Retry" => Key(r) \notin Keys(arm)
  BY KeyIs DEF Keys
<1> HIDE DEF want
<1>3. \A r \in DerivedTimers(ms) : r.kind # "Retry" /\ Key(r) \notin drop => r \in want
  BY <1>1, <1>2 DEF Without
<1>4. \A r \in armed : r.kind = "WorkflowRetry" /\ Key(r) \notin drop => r \in want
  BY <1>1, <1>2 DEF Without
<1>5. \A r \in want : r.kind \in {"Retry", "WorkflowRetry"} \/ r \in DerivedTimers(ms)
  BY <1>1 DEF Without
<1> QED BY <1>3, <1>4, <1>5 DEF want

\* What the write leaves in the index: every key that is wanted.
Upserted(ix, armed, want, drop) ==
  Without(ix, (Keys(armed) \ Keys(want)) \cup (drop \ Keys(want)) \cup Keys(want \ armed))
    \cup (want \ armed)

LEMMA UpsertWatches ==
  ASSUME NEW ix, NEW armed, NEW want, NEW drop, OneEach(want)
  PROVE  LET out == Upserted(ix, armed, want, drop)
         IN /\ \A r \in want : r \in ix \/ r \notin armed => r \in out
            /\ \A key \in Keys(want) : key \in Keys(ix) => key \in Keys(out)
            /\ \A key \in Keys(ix) : key \notin Keys(armed) \cup drop => key \in Keys(out)
<1> DEFINE out == Upserted(ix, armed, want, drop)
<1> DEFINE gone == (Keys(armed) \ Keys(want)) \cup (drop \ Keys(want)) \cup Keys(want \ armed)
<1>1. out = Without(ix, gone) \cup (want \ armed)
  BY DEF Upserted
<1> HIDE DEF out
<1>2. \A r : r \in want \ armed => r \in out
  BY <1>1
<1>3. \A r \in ix : Key(r) \notin gone => r \in out
  BY <1>1 DEF Without
<1>4. ASSUME NEW r \in want, r \in armed PROVE Key(r) \notin gone
  <2>1. Key(r) \in Keys(want)
    BY DEF Keys
  <2>2. Key(r) \notin Keys(want \ armed)
    <3> SUFFICES ASSUME NEW s \in want \ armed, Key(s) = Key(r) PROVE FALSE
      BY DEF Keys
    <3>1. s = r
      BY KeyIs DEF OneEach
    <3> QED BY <1>4, <3>1
  <2> QED BY <2>1, <2>2
<1>5. \A key : key \in Keys(want \ armed) => key \in Keys(out)
  BY <1>2 DEF Keys
<1> HIDE DEF gone
<1>6. \A r \in want : r \in ix \/ r \notin armed => r \in out
  BY <1>2, <1>3, <1>4
<1>7. \A key \in Keys(ix) : key \notin gone => key \in Keys(out)
  BY <1>3 DEF Keys
<1>8. ASSUME NEW key \in Keys(ix), key \notin Keys(armed) \cup drop \/ key \in Keys(want)
      PROVE  key \in Keys(out)
  <2>1. key \notin gone \/ key \in Keys(want \ armed)
    BY <1>8 DEF gone
  <2> QED BY <1>5, <1>7, <2>1
<1> QED BY <1>6, <1>8 DEF out

LEMMA RetryKind == ASSUME NEW ms, NEW eff PROVE \A r \in RetryTimers(ms, eff) : r.kind = "Retry"
BY TimerFields DEF RetryTimers

LEMMA CommitWatches ==
  ASSUME opt \in Options, Kept(cache, hist, index, now), NEW out, Fine(out), out.ms.ok, Commit(out),
         \A key \in out.drop : Dead(key, out.ms), RunWatched(State, index)
  PROVE  RunWatched(out.ms, index')
<1> DEFINE m == out.ms
           arm == RetryTimers(m, out.eff)
           want == DesiredTimers(m, Armed, arm, out.drop)
<1>1. index' = IF Terminal(m) THEN {} ELSE Upserted(index, Armed, want, out.drop)
  BY DEF Commit, DiffTimers, Upserted
<1>2. CASE Terminal(m)
  BY <1>1, <1>2 DEF RunWatched
<1>3. CASE ~Terminal(m)
  <2>1. /\ Sound(m, now) /\ Extends(hist, m.events) /\ EffectsFit(m, out.eff) /\ m \in MutableStates
    BY DEF Fine, Sound
  <2>2. /\ hist \in Seq(Events) /\ hist # <<>> /\ State.events = hist /\ Sound(State, now) /\ TimersFit(index, hist)
        /\ TimersFit(Armed, hist) /\ m.events # <<>> /\ State \in MutableStates /\ m.events \in Seq(Events)
    <3>1. State = StateOf(cache, hist)
      BY DEF State, StateOf
    <3>2. TimersFit(Armed, hist)
      BY DEF Armed, Kept, TimersFit, OneEach
    <3>3. m.events # <<>> /\ m.events \in Seq(Events)
      BY <2>1 DEF Kept, Standing, Extends, Sound, MutableStates
    <3> QED BY <3>1, <3>2, <3>3 DEF Kept, Standing, Sound
  <2>3. TimersFit(want, m.events)
    <3>1. TimersFit(Armed, m.events) /\ TimersFit(arm, m.events)
      BY <2>1, <2>2, FitLater, RetryTimersFit
    <3> HIDE DEF arm
    <3> QED BY <2>1, <2>2, <3>1, DesiredFit
  <2>4. /\ \A r \in DerivedTimers(m) : r.kind # "Retry" /\ Key(r) \notin out.drop => r \in want
        /\ \A r \in Armed : r.kind = "WorkflowRetry" /\ Key(r) \notin out.drop => r \in want
    <3>1. \A r \in arm : r.kind = "Retry"
      BY RetryKind
    <3> HIDE DEF arm
    <3> QED BY <1>3, <3>1, WantsDerived
  <2> HIDE DEF want
  <2>5. /\ \A r \in want : r \in index \/ r \notin Armed => r \in index'
        /\ \A key \in Keys(want) : key \in Keys(index) => key \in Keys(index')
        /\ \A key \in Keys(index) : key \notin Keys(Armed) \cup out.drop => key \in Keys(index')
    <3>1. OneEach(want)
      BY <2>3 DEF TimersFit
    <3> QED BY <1>1, <1>3, <3>1, UpsertWatches
  <2>6. ~Terminal(State)
    BY <1>3, <2>1, <2>2, SoundStatesLater DEF Later
  <2>7. RunTimers(m) \subseteq index'
    <3> SUFFICES ASSUME NEW r \in RunTimers(m) PROVE r \in index'
      OBVIOUS
    <3>1. r \in DerivedTimers(m) /\ r.kind # "Retry"
      BY <2>1, RunTimersDerived
    <3>2. Key(r) \notin out.drop
      BY <1>3 DEF Dead, Keys
    <3>3. r \in want
      BY <2>4, <3>1, <3>2
    <3>4. CASE r \in Armed
      <4>1. r.ev \in DOMAIN hist
        BY <2>2, <3>4 DEF TimersFit, TimerFits
      <4>2. r \in RunTimers(State)
        BY <2>1, <2>2, <4>1, RunTimersKept
      <4>3. r \in index
        BY <2>6, <4>2 DEF RunWatched
      <4> QED BY <2>5, <3>3, <4>3
    <3> QED BY <2>5, <3>3, <3>4
  <2>8. Len(m.events) = 1 => <<"WorkflowRetry", 1>> \in Keys(index')
    <3> SUFFICES ASSUME Len(m.events) = 1 PROVE <<"WorkflowRetry", 1>> \in Keys(index')
      OBVIOUS
    <3> DEFINE key == <<"WorkflowRetry", 1>>
    <3>1. Len(hist) <= Len(m.events) /\ Len(hist) \in Nat /\ Len(hist) # 0
      BY <2>1, <2>2 DEF Extends
    <3>2. Len(State.events) = 1
      BY <2>2, <3>1
    <3>3. key \in Keys(index)
      BY <2>6, <3>2 DEF RunWatched
    <3>4. key \notin out.drop
      BY <1>3 DEF Dead
    <3>5. CASE key \in Keys(Armed)
      <4>1. PICK r \in Armed : Key(r) = key
        BY <3>5 DEF Keys
      <4>2. r.kind = "WorkflowRetry"
        BY <4>1 DEF Key
      <4>3. r \in want
        BY <2>4, <3>4, <4>1, <4>2
      <4>4. key \in Keys(want)
        BY <4>1, <4>3 DEF Keys
      <4> QED BY <2>5, <3>3, <4>4
    <3>6. CASE key \notin Keys(Armed)
      <4> HIDE DEF key
      <4>1. key \notin Keys(Armed) \cup out.drop
        BY <3>4, <3>6
      <4> QED BY <2>5, <3>3, <4>1 DEF key
    <3> QED BY <3>5, <3>6
  <2> QED BY <1>3, <2>7, <2>8 DEF RunWatched
<1> QED BY <1>2, <1>3

-------------------------------------------------------------------------------
\* No timer handler is rejected, and none leaves the run waiting for the entry it served.

\* What an accepted event and the task it may schedule leave behind.
LEMMA RecordOk ==
  ASSUME opt \in Options, NEW t \in Nat \ {0}, NEW ms, Sound(ms, t), ~Terminal(ms), NEW e \in Events,
         e.time = t, Applicable(ms, e)
  PROVE  LET m == Record(ms, e).ms
         IN /\ m \in MutableStates /\ m.ok
            /\ m.timers = TimersAfter(ms, e, Len(ms.events) + 1)
            /\ m.acts = ActsAfter(ms, e, Len(ms.events) + 1)
            /\ m.wt.started # 0 => m.wt = TaskAfter(ms, e, Len(ms.events) + 1)
<1> DEFINE a == AppendEvent(ms, e)
           n == Len(ms.events) + 1
           f == Event("TaskScheduled", t)
           m == Record(ms, e).ms
<1>1. ms \in MutableStates /\ ms.ok
  BY DEF Sound
<1>2. a = Apply(ms, e) /\ Applied(a, ms, e, n)
  BY <1>1, ApplyFields DEF AppendEvent
<1>3. m = IF Terminal(a) \/ a.wt.sched # 0 THEN a ELSE AppendEvent(a, f)
  BY <1>2 DEF Record, ScheduleWorkflowTask, Result, Applied
<1>4. f \in Events /\ f.type = "TaskScheduled"
  BY EventFields DEF EventTypes
<1> HIDE DEF a, m, f, n
<1>5. a \in MutableStates /\ a.ok /\ a.timers = TimersAfter(ms, e, n) /\ a.acts = ActsAfter(ms, e, n)
      /\ a.wt = TaskAfter(ms, e, n)
  BY <1>2 DEF Applied
<1>6. CASE Terminal(a) \/ a.wt.sched # 0
  BY <1>3, <1>5, <1>6 DEF m, n
<1>7. CASE ~Terminal(a) /\ a.wt.sched = 0
  <2>1. Applicable(a, f) /\ m = Apply(a, f)
    BY <1>3, <1>4, <1>7 DEF Applicable, AppendEvent
  <2>2. Applied(m, a, f, Len(a.events) + 1)
    BY <1>4, <1>5, <2>1, ApplyFields
  <2>3. m \in MutableStates /\ m.ok /\ m.timers = a.timers /\ m.acts = a.acts
    BY <1>4, <2>2 DEF Applied, TimersAfter, ActsAfter, ClosedTypes, Resolving
  <2>4. m.wt = [NoTask EXCEPT !.sched = Len(a.events) + 1] /\ Len(a.events) + 1 \in Nat
    BY <1>4, <2>2 DEF Applied, TaskAfter, ClosedTypes, TaskEnding
  <2>5. m.wt.started = 0
    BY <2>4, FreshTask
  <2> QED BY <1>5, <2>3, <2>5 DEF m, n
<1> QED BY <1>6, <1>7

\* Which keys the timers of the run have.
LEMMA RunKeys ==
  ASSUME NEW ms \in MutableStates, NEW kind, NEW ev, <<kind, ev>> \in Keys(RunTimers(ms))
  PROVE  \/ kind = "Execution" /\ ev = 1 /\ ms.runDl # 0
         \/ kind = "Task" /\ ms.wt.started # 0 /\ ev = ms.wt.started
         \/ kind = "User" /\ ev \in DOMAIN ms.timers
<1>1. PICK r \in RunTimers(ms) : <<kind, ev>> = Key(r)
  BY DEF Keys
<1>2. r.kind = kind /\ r.ev = ev
  BY <1>1 DEF Key
<1>3. \/ ms.runDl # 0 /\ r = Timer("Execution", 1, ms.runDl, 0)
      \/ ms.wt.started # 0 /\ r = Timer("Task", ms.wt.started, ms.wt.deadline, 0)
      \/ \E k \in DOMAIN ms.timers : r = Timer("User", k, ms.timers[k].at, 0)
  BY RunTimersAre
<1> QED BY <1>2, <1>3, TimerFields

LEMMA KeyDead ==
  ASSUME NEW ms \in MutableStates, NEW kind \in TimerKinds, NEW ev,
         \/ Terminal(ms)
         \/ kind = "Execution" /\ ms.runDl = 0
         \/ kind = "Task" /\ (ms.wt.started # 0 => ev # ms.wt.started)
         \/ kind = "User" /\ ev \notin DOMAIN ms.timers
         \/ kind = "WorkflowRetry" /\ Len(ms.events) # 1
         \/ kind = "Activity" /\ (Fixed => ev \notin DOMAIN ms.acts)
         \/ kind = "Retry"
  PROVE  Dead(<<kind, ev>>, ms)
BY RunKeys DEF Dead, TimerKinds

\* Under fixed settings an entry for an activity stands for a clock that runs out at that
\* instant, and there is no retry.
PlainTimer(r, h) ==
  /\ r.kind # "Retry"
  /\ r.kind = "Activity" =>
       /\ r.attempt = 1
       /\ \/ ScheduleToClose > 0 /\ r.at = h[r.ev].time + ScheduleToClose
          \/ /\ StartToClose > 0
             /\ \E j \in DOMAIN h : /\ h[j].type = "ActStarted" /\ h[j].ref = r.ev
                                    /\ r.at = h[j].time + StartToClose

\* The outcome of serving r.
Served(out, r) ==
  /\ out.ms.ok /\ Dead(Key(r), out.ms) /\ out.drop \subseteq {Key(r)}
  /\ Straight(State, out)

LEMMA NoopServed ==
  ASSUME IInv, NEW r, Dead(Key(r), State) PROVE Served(Noop, r)
<1>1. Noop.ms = State /\ Noop.eff = <<>> /\ Noop.drop = {}
  BY DEF Noop, Quiet, Outcome, Result
<1>2. State.ok
  BY StateIs DEF Sound
<1> QED BY <1>1, <1>2 DEF Served, Straight

LEMMA DroppingServed ==
  ASSUME NEW q, NEW r, q.ms.ok, Dead(Key(r), q.ms), Straight(State, q) PROVE Served(Dropping(q, Key(r)), r)
<1> DEFINE out == Dropping(q, Key(r))
<1>1. out.ms = q.ms /\ out.eff = q.eff /\ out.drop = {Key(r)}
  BY DEF Dropping, Outcome
<1> HIDE DEF out
<1> QED BY <1>1 DEF Served, Straight, out

LEMMA UserServed ==
  ASSUME IInv, NEW r \in page, r.kind = "User" PROVE Served(FireUserTimer(r), r)
<1>1. /\ opt \in Options /\ now \in Nat \ {0} /\ Sound(State, now) /\ Awake(State) /\ State \in MutableStates
      /\ State.events # <<>> /\ State.events = hist /\ State.ok
  BY StateIs DEF Sound
<1>2. TimerFits(r, hist) /\ r.at <= now /\ Key(r) = <<"User", r.ev>>
  BY DEF IInv, Good, PageFits, Key
<1>3. CASE Terminal(State)
  <2>1. Dead(Key(r), State)
    BY <1>3 DEF Dead
  <2> QED BY <1>3, <2>1, NoopServed DEF FireUserTimer
<1>4. CASE ~Terminal(State)
  <2> DEFINE q == FireTimer(State, r.ev, now)
             e == [Event("TimerFired", now) EXCEPT !.ref = r.ev]
  <2>1. now >= State.events[r.ev].time + TimerDelay
    BY <1>1, <1>2 DEF TimerFits
  <2>2. Straight(State, q)
    BY <1>1, <2>1, FireTimerLeads DEF LeadsStraight
  <2>3. CASE r.ev \in DOMAIN State.timers
    <3>1. q = Record(State, e) /\ r.ev \in Nat
      BY <1>1, <2>3, PendingTyped DEF FireTimer
    <3>2. e \in Events /\ e.type = "TimerFired" /\ e.time = now /\ e.ref = r.ev
      BY <1>1, <3>1, EmptyId DEF Event, Events, EventTypes
    <3> HIDE DEF e, q
    <3>3. Applicable(State, e)
      BY <2>3, <3>2 DEF Applicable
    <3>4. q.ms \in MutableStates /\ q.ms.ok /\ q.ms.timers = TimersAfter(State, e, Len(State.events) + 1)
      BY <1>1, <1>4, <3>1, <3>2, <3>3, RecordOk
    <3>5. r.ev \notin DOMAIN q.ms.timers
      BY <3>2, <3>4 DEF TimersAfter, ClosedTypes, Remove1
    <3>6. Dead(Key(r), q.ms)
      BY <1>2, <3>4, <3>5, KeyDead DEF TimerKinds
    <3>7. Served(Dropping(q, Key(r)), r)
      BY <2>2, <3>4, <3>6, DroppingServed
    <3> QED BY <1>4, <3>7 DEF FireUserTimer, q
  <2>4. CASE r.ev \notin DOMAIN State.timers
    <3>1. q = Result(State, <<>>)
      BY <2>4 DEF FireTimer
    <3>2. q.ms = State
      BY <3>1 DEF Result
    <3> HIDE DEF q
    <3>3. Dead(Key(r), State)
      BY <1>1, <1>2, <2>4, KeyDead DEF TimerKinds
    <3>4. Served(Dropping(q, Key(r)), r)
      BY <1>1, <2>2, <3>2, <3>3, DroppingServed
    <3> QED BY <1>4, <3>4 DEF FireUserTimer, q
  <2> QED BY <2>3, <2>4
<1> QED BY <1>3, <1>4

LEMMA TaskServed ==
  ASSUME IInv, NEW r \in page, r.kind = "Task" PROVE Served(TaskTimedOut(r), r)
<1>1. /\ opt \in Options /\ now \in Nat \ {0} /\ Sound(State, now) /\ Awake(State) /\ State \in MutableStates
      /\ State.events # <<>> /\ State.events = hist /\ State.ok
  BY StateIs DEF Sound
<1>2. TimerFits(r, hist) /\ r.at <= now /\ Key(r) = <<"Task", r.ev>>
  BY DEF IInv, Good, PageFits, Key
<1>3. CASE Terminal(State)
  <2>1. Dead(Key(r), State)
    BY <1>3 DEF Dead
  <2> QED BY <1>3, <2>1, NoopServed DEF TaskTimedOut
<1>4. CASE ~Started(State) \/ State.wt.started # r.ev
  <2>1. Dead(Key(r), State)
    BY <1>1, <1>2, <1>4, KeyDead DEF TimerKinds, Started
  <2> QED BY <1>4, <2>1, NoopServed DEF TaskTimedOut
<1>5. CASE ~Terminal(State) /\ Started(State) /\ State.wt.started = r.ev
  <2> DEFINE q == TimeoutWorkflowTask(State, now)
             e == [Event("TaskTimedOut", now) EXCEPT !.ref = State.wt.started]
  <2>1. r.at = State.wt.deadline
    BY <1>1, <1>2, <1>5 DEF TimerFits, Sound, TaskSound, Started
  <2>2. now >= State.wt.deadline /\ ~(now < State.wt.deadline)
    <3>1. State.wt.deadline \in Nat
      BY <1>1 DEF MutableStates, TaskStates
    <3> QED BY <1>1, <1>2, <2>1, <3>1
  <2>3. Straight(State, q)
    BY <1>1, <1>5, <2>2, TaskEndLeads DEF TimeoutWorkflowTask, LeadsStraight
  <2>4. q = Record(State, e) /\ State.wt.started \in Nat
    BY <1>1, <1>5 DEF TimeoutWorkflowTask, MutableStates, TaskStates
  <2>5. e \in Events /\ e.type = "TaskTimedOut" /\ e.time = now
    BY <1>1, <2>4, EmptyId DEF Event, Events, EventTypes
  <2> HIDE DEF e, q
  <2>6. Applicable(State, e)
    BY <1>5, <2>5 DEF Applicable
  <2>7. /\ q.ms \in MutableStates /\ q.ms.ok
        /\ q.ms.wt.started # 0 => q.ms.wt = TaskAfter(State, e, Len(State.events) + 1)
    BY <1>1, <1>5, <2>4, <2>5, <2>6, RecordOk
  <2>8. q.ms.wt.started = 0
    BY <2>5, <2>7, NoTaskFields DEF TaskAfter, TaskEnding
  <2>9. Dead(Key(r), q.ms)
    BY <1>2, <2>7, <2>8, KeyDead DEF TimerKinds
  <2>10. Served(Dropping(q, Key(r)), r)
    BY <2>3, <2>7, <2>9, DroppingServed
  <2> QED BY <1>5, <2>2, <2>10 DEF TaskTimedOut, q
<1> QED BY <1>3, <1>4, <1>5

LEMMA ExecutionServed ==
  ASSUME IInv, NEW r \in page, r.kind = "Execution" PROVE Served(ExecutionTimedOut(r), r)
<1>1. /\ opt \in Options /\ now \in Nat \ {0} /\ Sound(State, now) /\ Awake(State) /\ State \in MutableStates
      /\ State.events # <<>> /\ State.events = hist /\ State.ok /\ State.runDl \in Nat
  BY StateIs DEF Sound, MutableStates
<1>2. TimerFits(r, hist) /\ r.at <= now /\ Key(r) = <<"Execution", r.ev>>
  BY DEF IInv, Good, PageFits, Key
<1>3. CASE Terminal(State)
  <2>1. Dead(Key(r), State)
    BY <1>3 DEF Dead
  <2> QED BY <1>3, <2>1, NoopServed DEF ExecutionTimedOut
<1>4. CASE State.runDl = 0
  <2>1. Dead(Key(r), State)
    BY <1>1, <1>2, <1>4, KeyDead DEF TimerKinds
  <2> QED BY <1>4, <2>1, NoopServed DEF ExecutionTimedOut
<1>5. CASE ~Terminal(State) /\ State.runDl # 0
  <2> DEFINE m == TimeoutExecution(State, now)
             q == Result(m, <<>>)
             e == Event("TimedOut", now)
  <2>1. r.at = State.runDl
    BY <1>1, <1>2 DEF TimerFits, Sound, RunSound
  <2>2. now >= State.runDl /\ ~(now < State.runDl)
    BY <1>1, <1>2, <2>1
  <2>3. Straight(State, q)
    BY <1>1, <1>5, <2>2, CloseLeads DEF TimeoutExecution, LeadsStraight
  <2>4. e \in Events /\ e.type = "TimedOut"
    BY <1>1, EventFields DEF EventTypes, ClosedTypes
  <2>5. m = Apply(State, e)
    BY <1>5 DEF TimeoutExecution, AppendEvent
  <2> HIDE DEF e, m
  <2>6. Applicable(State, e)
    BY <2>4 DEF Applicable
  <2>7. Applied(m, State, e, Len(State.events) + 1)
    BY <1>1, <2>4, <2>5, <2>6, ApplyFields
  <2>8. m.ok /\ Terminal(m) /\ q.ms = m
    BY <2>4, <2>7 DEF Applied, Terminal, ClosedTypes, Result
  <2> HIDE DEF q
  <2>9. Dead(Key(r), q.ms)
    BY <2>8 DEF Dead
  <2>10. Served(Dropping(q, Key(r)), r)
    BY <2>3, <2>8, <2>9, DroppingServed
  <2> QED BY <1>5, <2>2, <2>10 DEF ExecutionTimedOut, q, m
<1> QED BY <1>3, <1>4, <1>5

LEMMA DeferredServed ==
  ASSUME IInv, NEW r \in page, r.kind = "WorkflowRetry" PROVE Served(StartDeferredRun(r), r)
<1>1. /\ opt \in Options /\ now \in Nat \ {0} /\ Sound(State, now) /\ Awake(State) /\ State \in MutableStates
      /\ State.events # <<>> /\ State.events \in Seq(Events) /\ State.ok /\ WellFormed(State.events)
  BY StateIs DEF Sound, MutableStates
<1>2. Key(r) = <<"WorkflowRetry", r.ev>>
  BY DEF Key
<1>3. CASE Terminal(State)
  <2>1. Dead(Key(r), State)
    BY <1>3 DEF Dead
  <2> QED BY <1>3, <2>1, NoopServed DEF StartDeferredRun
<1>4. CASE ~Terminal(State)
  <2> DEFINE q == ScheduleWorkflowTask(State, now)
             e == Event("TaskScheduled", now)
  <2>1. Straight(State, q)
    BY <1>1, ScheduleLeads DEF LeadsStraight
  <2>2. q.ms \in MutableStates /\ q.ms.ok /\ Len(q.ms.events) # 1
    <3>1. CASE State.wt.sched # 0
      <4>1. q.ms = State
        BY <3>1 DEF ScheduleWorkflowTask, Result
      <4>2. At(State.events, State.wt.sched, "TaskScheduled")
        BY <1>1, <3>1 DEF Sound, TaskSound
      <4>3. State.events[1].type = "Started"
        BY <1>1 DEF WellFormed
      <4>4. State.wt.sched # 1 /\ State.wt.sched \in 1 .. Len(State.events)
        BY <1>1, <4>2, <4>3 DEF At
      <4>5. \A n \in Nat : \A k \in 1 .. n : k # 1 => n # 1
        OBVIOUS
      <4>6. Len(State.events) \in Nat
        BY <1>1
      <4>7. Len(State.events) # 1
        BY <4>4, <4>5, <4>6
      <4> QED BY <1>1, <4>1, <4>7
    <3>2. CASE State.wt.sched = 0
      <4>1. q.ms = Apply(State, e)
        BY <1>1, <1>4, <3>2 DEF ScheduleWorkflowTask, Result, AppendEvent
      <4>2. e \in Events /\ e.type = "TaskScheduled"
        BY <1>1, EventFields DEF EventTypes
      <4> HIDE DEF e, q
      <4>3. Applicable(State, e)
        BY <3>2, <4>2 DEF Applicable
      <4>4. Applied(q.ms, State, e, Len(State.events) + 1)
        BY <1>1, <4>1, <4>2, <4>3, ApplyFields
      <4>5. Len(q.ms.events) = Len(State.events) + 1
        BY <1>1, <4>2, <4>4 DEF Applied
      <4>6. Len(State.events) \in Nat /\ Len(State.events) # 0
        BY <1>1
      <4> QED BY <4>4, <4>5, <4>6 DEF Applied
    <3> QED BY <3>1, <3>2
  <2> HIDE DEF q
  <2>3. Dead(Key(r), q.ms)
    BY <1>2, <2>2, KeyDead DEF TimerKinds
  <2>4. Served(Dropping(q, Key(r)), r)
    BY <2>1, <2>2, <2>3, DroppingServed
  <2> QED BY <1>4, <2>4 DEF StartDeferredRun, q
<1> QED BY <1>3, <1>4

LEMMA RetryServed ==
  ASSUME IInv, NEW r \in page, r.kind = "Retry", Fixed => PlainTimer(r, hist)
  PROVE  Served(RedispatchActivity(r), r)
<1>1. /\ opt \in Options /\ now \in Nat \ {0} /\ Sound(State, now) /\ State \in MutableStates /\ State.ok
  BY StateIs DEF Sound
<1>2. Key(r) = <<"Retry", r.ev>> /\ r.attempt \in Nat /\ ~Fixed
  BY DEF Key, PlainTimer, IInv, Good, PageFits, TimerFits, TimerRecords
<1>3. \A m \in MutableStates : Dead(Key(r), m)
  BY <1>2, KeyDead DEF TimerKinds
<1> DEFINE act == State.acts[r.ev]
           v == [act EXCEPT !.attempt = r.attempt, !.held = FALSE, !.beatDl = 0, !.attemptDl = now + Redispatch]
           m == [State EXCEPT !.acts[r.ev] = v]
           q == Result(m, <<Effect("activity", r.ev, 0)>>)
<1>4. \/ RedispatchActivity(r) = Noop
      \/ r.ev \in DOMAIN State.acts /\ RedispatchActivity(r) = Dropping(q, Key(r))
  BY DEF RedispatchActivity
<1>5. ASSUME r.ev \in DOMAIN State.acts PROVE Served(Dropping(q, Key(r)), r)
  <2>1. act \in ActStates /\ now + Redispatch \in Nat
    BY <1>1, <1>5, PendingTyped, Settings
  <2>2. v \in ActStates
    BY <1>2, <2>1 DEF ActStates
  <2> HIDE DEF v
  <2>3. Puts(m, State, r.ev, v)
    BY <1>1, <1>5, <2>2, PutsActivity
  <2>4. q.ms = m
    BY DEF Result
  <2> HIDE DEF m, q
  <2>5. m \in MutableStates /\ m.ok
    BY <1>1, <2>3 DEF Puts
  <2>6. Straight(State, q)
    BY <1>2 DEF Straight
  <2> QED BY <1>3, <2>4, <2>5, <2>6, DroppingServed
<1>6. Served(Noop, r)
  BY <1>1, <1>3, NoopServed
<1> HIDE DEF q
<1> QED BY <1>4, <1>5, <1>6

\* The clock an entry stands for has run out, and the activity has no attempt left.
LEMMA PlainExpires ==
  ASSUME IInv, Fixed, Simple(State), NEW r \in page, r.kind = "Activity", PlainTimer(r, hist),
         r.ev \in DOMAIN State.acts
  PROVE  /\ [State EXCEPT !.acts[r.ev].attempt = r.attempt] = State
         /\ ExpiredTimeout(State.acts[r.ev]) # ""
         /\ \A kind : ~Retries(State.acts[r.ev], kind # "ScheduleToClose", now)
<1> DEFINE act == State.acts[r.ev]
<1>1. /\ now \in Nat /\ State \in MutableStates /\ act \in ActStates /\ State.events = hist /\ hist \in Seq(Events)
      /\ r.at <= now /\ r.at # 0 /\ r.at \in Nat /\ opt \in Options
  BY StateIs, PendingTyped DEF Sound, IInv, Good, PageFits, TimerFits, TimerRecords
<1>2. PlainAct(act, hist, r.ev)
  BY <1>1 DEF Simple, Plain
<1>3. [State EXCEPT !.acts[r.ev].attempt = r.attempt] = State
  <2>1. r.attempt = act.attempt
    BY <1>2 DEF PlainTimer, PlainAct
  <2>2. [act EXCEPT !.attempt = r.attempt] = act
    BY <1>1, <2>1 DEF ActStates
  <2>3. State.acts \in Pending(ActStates)
    BY <1>1 DEF MutableStates
  <2>4. [State.acts EXCEPT ![r.ev] = act] = State.acts
    BY <2>3, PendingIs
  <2>5. [State EXCEPT !.acts = State.acts] = State
    BY <1>1 DEF MutableStates
  <2>6. [State EXCEPT !.acts[r.ev].attempt = r.attempt]
          = [State EXCEPT !.acts = [State.acts EXCEPT ![r.ev] = [act EXCEPT !.attempt = r.attempt]]]
    OBVIOUS
  <2> QED BY <2>2, <2>4, <2>5, <2>6
<1>4. \/ act.closeDl # 0 /\ now >= act.closeDl
      \/ act.held /\ act.attemptDl # 0 /\ now >= act.attemptDl
  <2>1. CASE ScheduleToClose > 0 /\ r.at = hist[r.ev].time + ScheduleToClose
    BY <1>1, <1>2, <2>1 DEF PlainAct, Deadline
  <2>2. ASSUME StartToClose > 0, NEW j \in DOMAIN hist, hist[j].type = "ActStarted", hist[j].ref = r.ev,
               r.at = hist[j].time + StartToClose
        PROVE  act.held /\ act.attemptDl # 0 /\ now >= act.attemptDl
    <3>1. act.started = j /\ j # 0
      BY <1>1, <1>2, <2>2 DEF PlainAct
    <3>2. act.held /\ act.attemptDl = r.at
      BY <1>2, <2>2, <3>1 DEF PlainAct, Deadline
    <3> QED BY <1>1, <3>2
  <2> QED BY <2>1, <2>2 DEF PlainTimer
<1>5. ExpiredTimeout(act) # ""
  <2> HIDE DEF act
  <2> QED BY <1>4 DEF ExpiredTimeout
<1>6. \A kind : ~Retries(act, kind # "ScheduleToClose", now)
  BY <1>2 DEF Fixed, PlainAct, Retries
<1> QED BY <1>3, <1>5, <1>6

LEMMA ActivityServed ==
  ASSUME IInv, NEW r \in page, r.kind = "Activity", Fixed => PlainTimer(r, hist) /\ Simple(State)
  PROVE  Served(ActivityTimedOut(r), r)
<1>1. /\ opt \in Options /\ now \in Nat \ {0} /\ Sound(State, now) /\ Awake(State) /\ State \in MutableStates
      /\ State.ok /\ State.events # <<>>
  BY StateIs DEF Sound
<1>2. Key(r) = <<"Activity", r.ev>> /\ r.attempt \in Nat
  BY DEF Key, IInv, Good, PageFits, TimerFits, TimerRecords
<1> DEFINE ms == [State EXCEPT !.acts[r.ev].attempt = r.attempt]
           kind == ExpiredTimeout(ms.acts[r.ev])
           p == TimeoutActivity(ms, r.ev, kind, now)
           q == Restored(ms, p, r.ev)
           e == [Event("ActTimedOut", now) EXCEPT !.ref = r.ev]
<1>3. CASE Terminal(State)
  <2>1. Dead(Key(r), State)
    BY <1>3 DEF Dead
  <2> QED BY <1>3, <2>1, NoopServed DEF ActivityTimedOut
<1>4. CASE r.ev \notin DOMAIN State.acts
  <2>1. Dead(Key(r), State)
    BY <1>1, <1>2, <1>4, KeyDead DEF TimerKinds
  <2> QED BY <1>4, <2>1, NoopServed DEF ActivityTimedOut
<1>5. CASE ~Terminal(State) /\ r.ev \in DOMAIN State.acts
  <2>1. /\ Sound(ms, now) /\ Awake(ms) /\ ms.events = State.events /\ DOMAIN ms.acts = DOMAIN State.acts
        /\ ms.status = State.status /\ ms \in MutableStates /\ ms.ok
    <3>1. /\ Sound(ms, now) /\ Awake(ms) /\ ms.events = State.events /\ ms.wt = State.wt
          /\ DOMAIN ms.acts = DOMAIN State.acts /\ Leads(State, Result(ms, <<>>), now)
      BY <1>1, <1>2, <1>5, AttemptSet
    <3>2. ms.status = State.status
      BY <1>1 DEF MutableStates
    <3> QED BY <3>1, <3>2 DEF Sound
  <2>2. /\ r.attempt < State.acts[r.ev].attempt => ActivityTimedOut(r) = Noop
        /\ ~(r.attempt < State.acts[r.ev].attempt) /\ kind = "" =>
             ActivityTimedOut(r) = Dropping(Result(ms, <<>>), Key(r))
        /\ ~(r.attempt < State.acts[r.ev].attempt) /\ kind # "" => ActivityTimedOut(r) = Dropping(q, Key(r))
    BY <1>5, Zenon DEF ActivityTimedOut
  <2>3. r.ev \in Nat /\ r.ev \in DOMAIN ms.acts /\ ~Terminal(ms)
    BY <1>1, <1>5, <2>1, PendingTyped DEF Terminal
  <2>4. e \in Events /\ e.type = "ActTimedOut" /\ e.time = now /\ e.ref = r.ev
    BY <1>1, <2>3, EmptyId DEF Event, Events, EventTypes
  <2>5. p = IF Retries(ms.acts[r.ev], kind # "ScheduleToClose", now) THEN RetryActivity(ms, r.ev, now)
            ELSE Record(ms, e)
    BY DEF TimeoutActivity
  <2>6. Straight(ms, q) /\ Leads(ms, q, now)
    <3> HIDE DEF ms, kind
    <3> QED BY <1>1, <2>1, <2>3, TimeoutActivityLeads DEF LeadsStraight
  <2>7. Record(ms, e).ms.ok /\ r.ev \notin DOMAIN Record(ms, e).ms.acts
    <3> HIDE DEF e, ms
    <3>1. Applicable(ms, e)
      BY <2>3, <2>4 DEF Applicable
    <3>2. Record(ms, e).ms.ok /\ Record(ms, e).ms.acts = ActsAfter(ms, e, Len(ms.events) + 1)
      BY <1>1, <2>1, <2>3, <2>4, <3>1, RecordOk
    <3>3. ActsAfter(ms, e, Len(ms.events) + 1) = Remove1(ms.acts, r.ev)
      BY <2>4 DEF ActsAfter, ClosedTypes, Resolving
    <3> QED BY <3>2, <3>3 DEF Remove1
  <2>8. q.ms.ok
    <3>1. RetryActivity(ms, r.ev, now).ms.ok
      <4> HIDE DEF ms
      <4> QED BY <2>1 DEF RetryActivity, Result, MutableStates
    <3>2. p.ms.ok
      BY <2>5, <2>7, <3>1
    <3>3. q.ms.ok = p.ms.ok
      <4> HIDE DEF p, ms
      <4> QED BY DEF Restored
    <3> QED BY <3>2, <3>3
  <2>9. q.ms \in MutableStates
    BY <2>6, <2>8 DEF Leads, Sound
  <2>10. CASE Fixed
    <3>1. /\ ms = State /\ ExpiredTimeout(State.acts[r.ev]) # ""
          /\ \A k : ~Retries(State.acts[r.ev], k # "ScheduleToClose", now)
      BY <1>5, <2>10, PlainExpires
    <3>2. kind # "" /\ p = Record(ms, e)
      BY <2>5, <3>1
    <3> HIDE DEF ms, kind, p
    <3>3. q = p
      BY <2>7, <3>2, RestoredGone
    <3>4. Dead(Key(r), q.ms)
      BY <1>2, <2>7, <2>9, <3>2, <3>3, KeyDead DEF TimerKinds
    <3>5. ~(r.attempt < State.acts[r.ev].attempt)
      <4>1. State.acts[r.ev].attempt = 1 /\ r.attempt = 1
        BY <1>5, <2>10 DEF PlainTimer, Simple, Plain, PlainAct
      <4> QED BY <4>1
    <3> HIDE DEF q
    <3>6. Served(Dropping(q, Key(r)), r)
      BY <2>6, <2>8, <3>1, <3>4, DroppingServed
    <3> QED BY <2>2, <3>2, <3>5, <3>6
  <2>11. CASE ~Fixed
    <3>1. \A m \in MutableStates : Dead(Key(r), m)
      BY <1>2, <2>11, KeyDead DEF TimerKinds
    <3>2. \A x : Straight(State, x)
      BY <2>11 DEF Straight
    <3>3. Served(Noop, r)
      BY <1>1, <3>1, NoopServed
    <3> HIDE DEF q, ms, kind
    <3>4. Served(Dropping(q, Key(r)), r)
      BY <2>8, <2>9, <3>1, <3>2, DroppingServed
    <3> DEFINE s == Result(ms, <<>>)
    <3>5. s.ms = ms
      BY DEF Result
    <3> HIDE DEF s
    <3>6. Served(Dropping(s, Key(r)), r)
      BY <2>1, <3>1, <3>2, <3>5, DroppingServed
    <3> QED BY <2>2, <3>3, <3>4, <3>6 DEF s
  <2> QED BY <2>10, <2>11
<1> QED BY <1>3, <1>4, <1>5

\* onTimer.
LEMMA TimerServed ==
  ASSUME IInv, NEW r \in page, Fixed => PlainTimer(r, hist) /\ Simple(State)
  PROVE  Served(OnTimer(r), r)
<1>1. r.kind \in TimerKinds
  BY DEF IInv, Good, PageFits, TimerFits, TimerRecords
<1>2. CASE r.kind = "User"
  BY <1>2, UserServed DEF OnTimer
<1>3. CASE r.kind = "Retry"
  BY <1>3, RetryServed DEF OnTimer
<1>4. CASE r.kind = "Activity"
  BY <1>4, ActivityServed DEF OnTimer
<1>5. CASE r.kind = "Task"
  BY <1>5, TaskServed DEF OnTimer
<1>6. CASE r.kind = "Execution"
  BY <1>6, ExecutionServed DEF OnTimer
<1>7. CASE r.kind = "WorkflowRetry"
  BY <1>7, DeferredServed DEF OnTimer
<1> QED BY <1>1, <1>2, <1>3, <1>4, <1>5, <1>6, <1>7 DEF TimerKinds

-------------------------------------------------------------------------------
\* Activities, under fixed settings.

PlainTimers(S, h) == \A r \in S : PlainTimer(r, h)

\* An activity that has a timeout has an entry.
ActsWatched(ms, ix) ==
  \A a \in DOMAIN ms.acts :
    ms.acts[a].started # 0 \/ ScheduleToClose > 0 => <<"Activity", a>> \in Keys(ix)

LEMMA PlainTimerLater ==
  ASSUME NEW h, NEW g, Extends(h, g), NEW r, r.ev \in DOMAIN h, PlainTimer(r, h) PROVE PlainTimer(r, g)
BY DEF PlainTimer, Extends

LEMMA EarliestIs ==
  ASSUME NEW a \in Nat, NEW b \in Nat, NEW c \in Nat, a # 0 \/ b # 0 \/ c # 0
  PROVE  Earliest({a, b, c}) \in {a, b, c} /\ Earliest({a, b, c}) # 0
<1> DEFINE S == {a, b, c} \ {0}
<1>1. ~({a, b, c} \subseteq {0})
  OBVIOUS
<1>2. \E t \in S : \A u \in S : t <= u
  OBVIOUS
<1>3. Earliest({a, b, c}) \in S
  BY <1>1, <1>2 DEF Earliest
<1> QED BY <1>3

\* Its deadline is that of the running attempt or that of the activity, whichever comes first.
LEMMA PlainDeadline ==
  ASSUME opt \in Options, Fixed, NEW h \in Seq(Events), NEW a \in DOMAIN h, NEW act \in ActStates,
         PlainAct(act, h, a), act.started # 0 => act.started \in DOMAIN h,
         \A i \in DOMAIN h : h[i].time > 0
  PROVE  /\ act.started # 0 \/ ScheduleToClose > 0 => ActivityDeadline(act) # 0
         /\ ActivityDeadline(act) # 0 =>
              \/ ScheduleToClose > 0 /\ ActivityDeadline(act) = h[a].time + ScheduleToClose
              \/ /\ StartToClose > 0 /\ act.started # 0
                 /\ ActivityDeadline(act) = h[act.started].time + StartToClose
<1>1. /\ StartToClose \in Nat /\ ScheduleToClose \in Nat /\ (StartToClose > 0 \/ ScheduleToClose > 0)
  BY Settings, OptionsAssumption DEF StartToClose, ScheduleToClose
<1>2. \A i \in DOMAIN h : h[i].time \in Nat /\ h[i].time > 0
  <2>1. \A i \in DOMAIN h : h[i] \in Events
    OBVIOUS
  <2> QED BY <2>1 DEF Events
<1>3. ScheduleToStartDl(act) = 0
  BY DEF ScheduleToStartDl, Fixed, Deadline
<1>4. act.beatDl = 0 /\ act.attemptDl \in Nat /\ act.closeDl \in Nat
  BY DEF PlainAct, ActStates
<1>5. ActivityDeadline(act) = Earliest({act.attemptDl, 0, act.closeDl}) \/ ActivityDeadline(act) = Earliest({0, act.attemptDl, act.closeDl})
  BY <1>3, <1>4 DEF ActivityDeadline
<1>6. CASE act.attemptDl = 0 /\ act.closeDl = 0
  <2>1. ActivityDeadline(act) = 0
    BY <1>5, <1>6 DEF Earliest
  <2>2. ~(ScheduleToClose > 0)
    BY <1>1, <1>2, <1>6 DEF PlainAct, Deadline
  <2>3. act.started = 0
    BY <1>1, <1>2, <1>6, <2>2 DEF PlainAct, Deadline
  <2> QED BY <2>1, <2>2, <2>3
<1>7. CASE act.attemptDl # 0 \/ act.closeDl # 0
  <2>1. ActivityDeadline(act) # 0 /\ ActivityDeadline(act) \in {act.attemptDl, act.closeDl}
    BY <1>4, <1>5, <1>7, EarliestIs
  <2>2. act.closeDl # 0 => ScheduleToClose > 0 /\ act.closeDl = h[a].time + ScheduleToClose
    BY DEF PlainAct, Deadline
  <2>3. act.attemptDl # 0 => StartToClose > 0 /\ act.started # 0 /\ act.attemptDl = h[act.started].time + StartToClose
    BY DEF PlainAct, Deadline
  <2> QED BY <2>1, <2>2, <2>3
<1> QED BY <1>4, <1>6, <1>7

LEMMA DerivedActs ==
  ASSUME NEW ms, NEW r
  PROVE  /\ r \in DerivedTimers(ms) /\ r.kind = "Activity" =>
              \E a \in DOMAIN ms.acts :
                /\ ActivityDeadline(ms.acts[a]) # 0
                /\ r = Timer("Activity", a, ActivityDeadline(ms.acts[a]), ms.acts[a].attempt)
         /\ \A a \in DOMAIN ms.acts :
              ActivityDeadline(ms.acts[a]) # 0 =>
                Timer("Activity", a, ActivityDeadline(ms.acts[a]), ms.acts[a].attempt) \in DerivedTimers(ms)
         /\ r \in DerivedTimers(ms) => r.kind \in {"Execution", "Task", "User", "Activity"}
<1> DEFINE E == IF ms.runDl # 0 THEN {Timer("Execution", 1, ms.runDl, 0)} ELSE {}
           T == IF Started(ms) THEN {Timer("Task", ms.wt.started, ms.wt.deadline, 0)} ELSE {}
           U == {Timer("User", k, ms.timers[k].at, 0) : k \in DOMAIN ms.timers}
           A == {Timer("Activity", a, ActivityDeadline(ms.acts[a]), ms.acts[a].attempt) :
                   a \in {a \in DOMAIN ms.acts : ActivityDeadline(ms.acts[a]) # 0}}
<1>1. DerivedTimers(ms) = E \cup T \cup U \cup A
  BY DEF DerivedTimers
<1>2. (r \in E => r.kind = "Execution") /\ (r \in T => r.kind = "Task") /\ (r \in U => r.kind = "User")
  BY TimerFields
<1>3. r \in A => /\ r.kind = "Activity"
                 /\ \E a \in DOMAIN ms.acts :
                      /\ ActivityDeadline(ms.acts[a]) # 0
                      /\ r = Timer("Activity", a, ActivityDeadline(ms.acts[a]), ms.acts[a].attempt)
  BY TimerFields
<1>4. \A a \in DOMAIN ms.acts :
        ActivityDeadline(ms.acts[a]) # 0 =>
          Timer("Activity", a, ActivityDeadline(ms.acts[a]), ms.acts[a].attempt) \in A
  OBVIOUS
<1> HIDE DEF E, T, U, A
<1> QED BY <1>1, <1>2, <1>3, <1>4

\* What the state asks for.
LEMMA DerivedPlain ==
  ASSUME opt \in Options, Fixed, NEW ms, NEW t, Sound(ms, t), Plain(ms), ms.events # <<>>
  PROVE  /\ PlainTimers(DerivedTimers(ms), ms.events)
         /\ \A a \in DOMAIN ms.acts :
              ms.acts[a].started # 0 \/ ScheduleToClose > 0 =>
                \E r \in DerivedTimers(ms) : r.kind = "Activity" /\ r.ev = a
<1> DEFINE h == ms.events
<1>1. /\ h \in Seq(Events) /\ ms \in MutableStates /\ \A i \in DOMAIN h : h[i].time > 0
  BY DEF Sound, MutableStates, WellFormed
<1>2. ASSUME NEW a \in DOMAIN ms.acts
      PROVE  LET d == ActivityDeadline(ms.acts[a])
                 s == ms.acts[a].started
             IN /\ s # 0 \/ ScheduleToClose > 0 => d # 0
                /\ d # 0 => \/ ScheduleToClose > 0 /\ d = h[a].time + ScheduleToClose
                            \/ StartToClose > 0 /\ s # 0 /\ d = h[s].time + StartToClose
                /\ s # 0 => At(h, s, "ActStarted") /\ h[s].ref = a
                /\ ms.acts[a].attempt = 1
  <2>1. a \in DOMAIN h /\ ms.acts[a] \in ActStates /\ (ms.acts[a].started # 0 => At(h, ms.acts[a].started, "ActStarted"))
    BY <1>1, PendingTyped DEF Sound, ActsSound, At
  <2>2. PlainAct(ms.acts[a], h, a)
    BY DEF Plain
  <2>3. ms.acts[a].started # 0 => ms.acts[a].started \in DOMAIN h
    BY <2>1 DEF At
  <2> HIDE DEF h
  <2> QED BY <1>1, <2>1, <2>2, <2>3, PlainDeadline DEF PlainAct
<1>3. ASSUME NEW r \in DerivedTimers(ms) PROVE PlainTimer(r, h)
  <2>1. CASE r.kind = "Activity"
    <3>1. PICK a \in DOMAIN ms.acts :
                /\ ActivityDeadline(ms.acts[a]) # 0
                /\ r = Timer("Activity", a, ActivityDeadline(ms.acts[a]), ms.acts[a].attempt)
      BY <2>1, DerivedActs
    <3>2. r.ev = a /\ r.at = ActivityDeadline(ms.acts[a]) /\ r.attempt = 1
      BY <1>2, <3>1, TimerFields
    <3>3. \/ ScheduleToClose > 0 /\ r.at = h[a].time + ScheduleToClose
          \/ StartToClose > 0 /\ ms.acts[a].started # 0 /\ r.at = h[ms.acts[a].started].time + StartToClose
      BY <1>2, <3>1, <3>2
    <3> HIDE DEF h
    <3> QED BY <1>2, <2>1, <3>2, <3>3 DEF PlainTimer, At
  <2>2. CASE r.kind # "Activity"
    BY <2>2, DerivedActs DEF PlainTimer
  <2> QED BY <2>1, <2>2
<1>4. ASSUME NEW a \in DOMAIN ms.acts, ms.acts[a].started # 0 \/ ScheduleToClose > 0
      PROVE  \E r \in DerivedTimers(ms) : r.kind = "Activity" /\ r.ev = a
  <2> DEFINE r == Timer("Activity", a, ActivityDeadline(ms.acts[a]), ms.acts[a].attempt)
  <2>1. r \in DerivedTimers(ms)
    BY <1>2, <1>4, DerivedActs
  <2>2. r.kind = "Activity" /\ r.ev = a
    BY TimerFields
  <2> HIDE DEF r
  <2> QED BY <2>1, <2>2
<1> QED BY <1>3, <1>4 DEF PlainTimers

LEMMA WantFrom ==
  ASSUME NEW ms, NEW armed, NEW arm, NEW drop, NEW r \in DesiredTimers(ms, armed, arm, drop)
  PROVE  r \in armed \/ r \in arm \/ r \in DerivedTimers(ms)
BY DEF DesiredTimers, Without

LEMMA UpsertFrom ==
  ASSUME NEW ix, NEW armed, NEW want, NEW drop, NEW r \in Upserted(ix, armed, want, drop)
  PROVE  r \in ix \/ r \in want
BY DEF Upserted, Without

ArmedOf(c) == IF c = NoState THEN {} ELSE c.armed

FixedWatch(c, h, ix, pg) ==
  /\ Simple(StateOf(c, h))
  /\ PlainTimers(ArmedOf(c), h) /\ PlainTimers(ix, h) /\ PlainTimers(pg, h)
  /\ ActsWatched(StateOf(c, h), ix)

LEMMA CommitFixed ==
  ASSUME opt \in Options, Kept(cache, hist, index, now), NEW out, Fine(out), out.ms.ok, Commit(out),
         \A key \in out.drop : Dead(key, out.ms), Fixed, Straight(State, out),
         NEW pg, FixedWatch(cache, hist, index, pg), \A r \in pg : r.ev \in DOMAIN hist
  PROVE  FixedWatch(cache', hist', index', pg)
<1> DEFINE m == out.ms
           arm == RetryTimers(m, out.eff)
           want == DesiredTimers(m, Armed, arm, out.drop)
<1>1. /\ index' = IF Terminal(m) THEN {} ELSE Upserted(index, Armed, want, out.drop)
      /\ hist' = m.events /\ cache' = [ms |-> m, armed |-> want]
  BY DEF Commit, DiffTimers, Upserted
<1>2. /\ Sound(m, now) /\ Extends(hist, m.events) /\ EffectsFit(m, out.eff) /\ m \in MutableStates
  BY DEF Fine, Sound
<1>3. /\ hist \in Seq(Events) /\ hist # <<>> /\ State.events = hist /\ Sound(State, now) /\ TimersFit(index, hist)
      /\ TimersFit(Armed, hist) /\ m.events # <<>> /\ State = StateOf(cache, hist) /\ Armed = ArmedOf(cache)
  <2>1. State = StateOf(cache, hist) /\ Armed = ArmedOf(cache)
    BY DEF State, StateOf, Armed, ArmedOf
  <2>2. TimersFit(Armed, hist)
    BY DEF Armed, Kept, TimersFit, OneEach
  <2>3. m.events # <<>>
    BY <1>2 DEF Kept, Standing, Extends, Sound, MutableStates
  <2> QED BY <2>1, <2>2, <2>3 DEF Kept, Standing
<1>4. Simple(m) /\ \A i \in DOMAIN out.eff : out.eff[i].kind # "retry"
  BY <1>3 DEF FixedWatch, Straight
<1>5. arm = {}
  BY <1>4 DEF RetryTimers
<1>6. cache' # NoState /\ ArmedOf(cache') = want /\ StateOf(cache', hist') = m
  BY <1>1, <1>3, CacheIs DEF ArmedOf
<1>7. /\ PlainTimers(DerivedTimers(m), m.events)
      /\ \A a \in DOMAIN m.acts : m.acts[a].started # 0 \/ ScheduleToClose > 0 =>
           \E r \in DerivedTimers(m) : r.kind = "Activity" /\ r.ev = a
  BY <1>2, <1>3, <1>4, DerivedPlain DEF Simple
<1>8. ASSUME NEW S, PlainTimers(S, hist), \A r \in S : r.ev \in DOMAIN hist PROVE PlainTimers(S, m.events)
  BY <1>2, <1>8, PlainTimerLater DEF PlainTimers
<1>9. PlainTimers(Armed, m.events) /\ PlainTimers(index, m.events) /\ PlainTimers(pg, m.events)
  <2>1. (\A r \in Armed : r.ev \in DOMAIN hist) /\ \A r \in index : r.ev \in DOMAIN hist
    BY <1>3 DEF TimersFit, TimerFits
  <2> QED BY <1>3, <1>8, <2>1 DEF FixedWatch
<1>10. PlainTimers(want, m.events)
  BY <1>5, <1>7, <1>9, WantFrom DEF PlainTimers
<1>11. TimersFit(want, m.events)
  <2>1. TimersFit(Armed, m.events) /\ TimersFit(arm, m.events)
    BY <1>2, <1>3, FitLater, RetryTimersFit
  <2> HIDE DEF arm
  <2> QED BY <1>2, <1>3, <2>1, DesiredFit
<1>12. ~Terminal(m) => \A r \in DerivedTimers(m) : r.kind # "Retry" /\ Key(r) \notin out.drop => r \in want
  <2>1. \A r \in arm : r.kind = "Retry"
    BY RetryKind
  <2> HIDE DEF arm
  <2> QED BY <2>1, WantsDerived
<1> HIDE DEF want, arm
<1>13. PlainTimers(index', m.events)
  BY <1>1, <1>9, <1>10, UpsertFrom DEF PlainTimers
<1>14. ActsWatched(m, index')
  <2> SUFFICES ASSUME NEW a \in DOMAIN m.acts, m.acts[a].started # 0 \/ ScheduleToClose > 0
               PROVE  <<"Activity", a>> \in Keys(index')
    BY DEF ActsWatched
  <2>1. ~Terminal(m)
    BY <1>4 DEF Simple
  <2>2. PICK r \in DerivedTimers(m) : r.kind = "Activity" /\ r.ev = a
    BY <1>7
  <2>3. Key(r) = <<"Activity", a>>
    BY <2>2 DEF Key
  <2>4. Key(r) \notin out.drop
    BY <2>1, <2>3 DEF Dead
  <2>5. r \in want /\ OneEach(want)
    BY <1>11, <1>12, <2>1, <2>2, <2>4 DEF TimersFit
  <2>6. /\ r \in index \/ r \notin Armed => r \in index'
        /\ Key(r) \in Keys(index) => Key(r) \in Keys(index')
    <3>1. Key(r) \in Keys(want)
      BY <2>5 DEF Keys
    <3>2. index' = Upserted(index, Armed, want, out.drop)
      BY <1>1, <2>1
    <3> QED BY <2>5, <3>1, <3>2, UpsertWatches
  <2>7. CASE r \notin Armed
    BY <2>3, <2>6, <2>7 DEF Keys
  <2>8. CASE r \in Armed
    <3>1. a \in DOMAIN hist /\ PlainTimer(r, hist)
      BY <1>3, <2>2, <2>8 DEF TimersFit, TimerFits, FixedWatch, PlainTimers
    <3>2. Later(State, m, Len(hist))
      BY <1>2, <1>3, SoundStatesLater
    <3>3. ~(a > Len(hist))
      BY <1>3, <3>1
    <3>4. a \in DOMAIN State.acts
      BY <3>2, <3>3 DEF Later
    <3>5. State.acts[a].started # 0 \/ ScheduleToClose > 0
      <4>1. PlainAct(State.acts[a], hist, a)
        BY <1>3, <3>4 DEF FixedWatch, Simple, Plain
      <4>2. ASSUME NEW j \in DOMAIN hist, hist[j].type = "ActStarted", hist[j].ref = a PROVE State.acts[a].started # 0
        <5>1. State.acts[a].started = j
          BY <4>1, <4>2 DEF PlainAct
        <5>2. j # 0
          BY <1>3
        <5> QED BY <5>1, <5>2
      <4> QED BY <2>2, <3>1, <4>2 DEF PlainTimer
    <3>6. Key(r) \in Keys(index)
      BY <1>3, <2>3, <3>4, <3>5 DEF FixedWatch, ActsWatched
    <3> QED BY <2>3, <2>6, <3>6
  <2> QED BY <2>7, <2>8
<1> HIDE DEF m
<1> QED BY <1>1, <1>4, <1>6, <1>9, <1>10, <1>13, <1>14 DEF FixedWatch

-------------------------------------------------------------------------------
\* The second layer of the invariant: who watches what.

\* The run does not wait for the entry the scan loop is about to delete.
DelFits(dl, ms) ==
  dl # NoKey => \E kind : \E ev \in DOMAIN ms.events : dl = <<kind, ev>> /\ Dead(dl, ms)

StoreWatch(c, h, ix, dl, pg) ==
  /\ RunWatched(StateOf(c, h), ix)
  /\ DelFits(dl, StateOf(c, h))
  /\ Fixed => FixedWatch(c, h, ix, pg)

\* Under fixed settings references are for the first attempt, and an activity that no worker
\* has started has one as long as matching has lost none and the log loads.
RefsPlain(rf) == \A ref \in DOMAIN rf : ref.kind = "act" => ref.attempt = 1

Offered(ms, rf) ==
  \A a \in DOMAIN ms.acts :
    ms.acts[a].started = 0 => \E ref \in DOMAIN rf : ref.kind = "act" /\ ref.ev = a

LoadsOf(c, h) == c # NoState \/ Rebuild(h).ok

RefWatch(c, h, rf, ls) ==
  Fixed => RefsPlain(rf) /\ (ls = 0 /\ LoadsOf(c, h) => Offered(StateOf(c, h), rf))

WInv ==
  /\ IInv
  /\ StoreWatch(cache, hist, index, del, page)
  /\ RefWatch(cache, hist, refs, lost)

LEMMA LoadsIs == Loads <=> LoadsOf(cache, hist)
BY DEF Loads, LoadsOf

LEMMA DelLater ==
  ASSUME opt \in Options, NEW a, NEW b, NEW t, NEW u, Sound(a, t), Sound(b, u),
         Extends(a.events, b.events), a.events # <<>>, NEW dl, DelFits(dl, a)
  PROVE  DelFits(dl, b)
<1> SUFFICES ASSUME dl # NoKey PROVE DelFits(dl, b)
  BY DEF DelFits
<1>1. PICK kind : \E ev \in DOMAIN a.events : dl = <<kind, ev>> /\ Dead(dl, a)
  BY DEF DelFits
<1>2. PICK ev \in DOMAIN a.events : dl = <<kind, ev>> /\ Dead(dl, a)
  BY <1>1
<1>3. Dead(<<kind, ev>>, b)
  BY <1>2, DeadLater
<1>4. ev \in DOMAIN b.events
  BY DEF Extends
<1> QED BY <1>2, <1>3, <1>4 DEF DelFits

\* A dropped cache entry: under fixed settings a replay gives back the state itself.
LEMMA EvictWatches ==
  ASSUME opt \in Options, NEW c, NEW h, NEW ix, NEW t, Kept(c, h, ix, t), NEW dl, NEW pg,
         StoreWatch(c, h, ix, dl, pg)
  PROVE  /\ StoreWatch(NoState, h, ix, dl, pg)
         /\ Fixed => StateOf(NoState, h) = StateOf(c, h)
<1> DEFINE a == StateOf(c, h)
           b == StateOf(NoState, h)
<1>1. Sound(a, t) /\ a.events = h /\ h # <<>> /\ h \in Seq(Events) /\ Replays(a) /\ a \in MutableStates
  BY DEF Kept, Standing, Sound
<1>2. b = FromLog(h)
  BY DEF StateOf
<1>3. Sound(b, t) /\ b.events = h
  <2>1. Kept(NoState, h, ix, t)
    BY EvictKeeps
  <2> QED BY <2>1 DEF Kept, Standing
<1> HIDE DEF a, b
<1>4. b \in MutableStates /\ Alike(b, a)
  BY <1>1, <1>2 DEF Replays
<1>5. Alike(a, b)
  BY <1>4, AlikeOrder
<1>6. RunWatched(b, ix)
  BY <1>1, <1>4, <1>5, RunWatchedAlike DEF StoreWatch, a
<1>7. DelFits(dl, b)
  <2>1. Extends(a.events, b.events)
    BY <1>1, <1>3 DEF Extends
  <2> QED BY <1>1, <1>3, <2>1, DelLater DEF StoreWatch, a
<1>8. Fixed => b = a
  BY <1>1, <1>2 DEF StoreWatch, FixedWatch, Simple, a
<1>9. Fixed => FixedWatch(NoState, h, ix, pg)
  <2>1. PlainTimers(ArmedOf(NoState), h)
    BY DEF PlainTimers, ArmedOf
  <2> QED BY <1>8, <2>1 DEF StoreWatch, FixedWatch, a, b
<1> QED BY <1>6, <1>7, <1>8, <1>9 DEF StoreWatch, a, b

\* What a transition must be for the write path to keep watch.
Careful(out) ==
  /\ Fine(out) /\ Straight(State, out)
  /\ out.ms.ok => \A key \in out.drop : Dead(key, out.ms)

LEMMA MutateWatches ==
  ASSUME IInv, StoreWatch(cache, hist, index, del, page), NEW out, Careful(out), Mutate(out)
  PROVE  /\ StoreWatch(cache', hist', index', del, page)
         /\ Loads /\ out.ms.ok => StateOf(cache', hist') = out.ms
         /\ ~(Loads /\ out.ms.ok) => /\ cache' = NoState /\ hist' = hist
                                     /\ Fixed => StateOf(cache', hist') = State
<1>1. /\ opt \in Options /\ Kept(cache, hist, index, now) /\ Sound(State, now) /\ State = StateOf(cache, hist)
      /\ State.events = hist /\ hist # <<>> /\ hist \in Seq(Events) /\ PageFits(page, hist, now)
  BY StateIs DEF IInv, Good
<1>2. CASE ~(Loads /\ out.ms.ok)
  <2>1. cache' = NoState /\ hist' = hist /\ index' = index
    BY <1>2 DEF Mutate, store
  <2> QED BY <1>1, <1>2, <2>1, EvictWatches
<1>3. CASE Loads /\ out.ms.ok /\ out.noop
  <2>1. cache' = [ms |-> State, armed |-> Armed] /\ hist' = hist /\ index' = index /\ out.ms = State
    BY <1>3 DEF Mutate, store, Careful, Fine
  <2>2. cache' # NoState /\ cache'.armed = Armed /\ StateOf(cache', hist') = State
    BY <1>1, <2>1, CacheIs
  <2>3. ArmedOf(cache') = ArmedOf(cache)
    BY <2>2 DEF ArmedOf, Armed
  <2>4. StoreWatch(cache', hist', index', del, page)
    BY <1>1, <2>1, <2>2, <2>3 DEF StoreWatch, FixedWatch
  <2> QED BY <1>3, <2>1, <2>2, <2>4
<1>4. CASE Loads /\ out.ms.ok /\ ~out.noop
  <2>1. Commit(out) /\ Fine(out) /\ \A key \in out.drop : Dead(key, out.ms)
    BY <1>4 DEF Mutate, Careful
  <2>2. StateOf(cache', hist') = out.ms
    BY <1>1, <1>4, <2>1, CommitKeeps
  <2>3. RunWatched(out.ms, index')
    BY <1>1, <1>4, <2>1, CommitWatches DEF StoreWatch
  <2>4. DelFits(del, out.ms)
    <3>1. Sound(out.ms, now) /\ Extends(hist, out.ms.events)
      BY <1>4, <2>1 DEF Fine
    <3>2. DelFits(del, State)
      BY <1>1 DEF StoreWatch
    <3> QED BY <1>1, <3>1, <3>2, DelLater
  <2>5. Fixed => FixedWatch(cache', hist', index', page)
    <3>1. \A r \in page : r.ev \in DOMAIN hist
      BY <1>1 DEF PageFits, TimerFits
    <3> QED BY <1>1, <1>4, <2>1, <3>1, CommitFixed DEF Careful, StoreWatch
  <2> QED BY <1>4, <2>2, <2>3, <2>4, <2>5 DEF StoreWatch
<1> QED BY <1>2, <1>3, <1>4

\* References.
LEMMA TakenKeeps ==
  ASSUME NEW rf, RefsFit(rf), NEW ref
  PROVE  LET left == rf (-) SetToBag({ref})
         IN /\ \A x \in DOMAIN left : x \in DOMAIN rf
            /\ \A x \in DOMAIN rf : x # ref => x \in DOMAIN left
<1> DEFINE b == [e \in DOMAIN rf |-> IF e \in {ref} THEN rf[e] - SetToBag({ref})[e] ELSE rf[e]]
           c == [e \in {d \in DOMAIN b : b[d] > 0} |-> b[e]]
<1>1. rf (-) SetToBag({ref}) = c
  BY DEF (-), SetToBag
<1>2. \A e \in DOMAIN rf : rf[e] \in Nat /\ rf[e] > 0
  BY DEF RefsFit, IsABag
<1>3. DOMAIN c = {d \in DOMAIN rf : b[d] > 0}
  OBVIOUS
<1>4. \A x \in DOMAIN rf : x # ref => b[x] > 0
  BY <1>2
<1> HIDE DEF c, b
<1> QED BY <1>1, <1>3, <1>4

LEMMA AddedKeeps ==
  ASSUME NEW rf, NEW more PROVE DOMAIN (rf (+) more) = DOMAIN rf \cup DOMAIN more
BY DEF (+)

LEMMA ActRefFields ==
  ASSUME NEW ms, NEW ev
  PROVE  LET ref == ActivityRef(ms, ev)
         IN /\ ref.kind = "act" /\ ref.ev = ev
            /\ ref.attempt = IF ev \in DOMAIN ms.acts THEN ms.acts[ev].attempt ELSE 1
BY DEF ActivityRef

LEMMA PlainRef ==
  ASSUME NEW ms, Plain(ms), NEW ev PROVE ActivityRef(ms, ev).attempt = 1
<1>1. ev \in DOMAIN ms.acts => ms.acts[ev].attempt = 1
  BY DEF Plain, PlainAct
<1> QED BY <1>1, ActRefFields

LEMMA TaskRefKind == ASSUME NEW ev PROVE TaskRef(ev).kind = "wf"
BY DEF TaskRef

LEMMA DispatchedRefs ==
  ASSUME NEW ms, Plain(ms), NEW eff \in Seq(Effects)
  PROVE  /\ RefsPlain(Dispatched(ms, eff))
         /\ \A i \in DOMAIN eff : eff[i].kind = "activity" =>
              \E ref \in DOMAIN Dispatched(ms, eff) : ref.kind = "act" /\ ref.ev = eff[i].ev
<1> DEFINE Ref(e) == IF e.kind = "workflow" THEN TaskRef(e.ev) ELSE ActivityRef(ms, e.ev)
           sends == {i \in DOMAIN eff : eff[i].kind \in {"workflow", "activity"}}
           D == {Ref(eff[i]) : i \in sends}
<1>1. DOMAIN Dispatched(ms, eff) = D
  BY DEF Dispatched
<1>2. \A e : Ref(e).kind = "act" => Ref(e).attempt = 1
  BY PlainRef, TaskRefKind
<1>3. RefsPlain(Dispatched(ms, eff))
  <2> HIDE DEF Ref
  <2> QED BY <1>1, <1>2 DEF RefsPlain
<1>4. ASSUME NEW i \in DOMAIN eff, eff[i].kind = "activity"
      PROVE  \E ref \in DOMAIN Dispatched(ms, eff) : ref.kind = "act" /\ ref.ev = eff[i].ev
  <2>1. Ref(eff[i]) = ActivityRef(ms, eff[i].ev)
    BY <1>4
  <2>2. Ref(eff[i]).kind = "act" /\ Ref(eff[i]).ev = eff[i].ev
    BY <2>1, ActRefFields
  <2>3. Ref(eff[i]) \in D
    BY <1>4
  <2> HIDE DEF Ref, D
  <2> QED BY <1>1, <2>2, <2>3
<1> QED BY <1>3, <1>4

\* An activity that waits now waited before, or is new.
LEMMA WaitedBefore ==
  ASSUME opt \in Options, NEW s, NEW m, NEW t, Sound(s, t), Sound(m, t), Extends(s.events, m.events),
         NEW a \in DOMAIN m.acts, m.acts[a].started = 0, a \in DOMAIN s.acts
  PROVE  s.acts[a].started = 0
<1>1. Later(s, m, Len(s.events))
  BY SoundStatesLater
<1>2. ~(a > Len(s.events))
  <2>1. a \in DOMAIN s.events /\ s.events \in Seq(Events)
    BY DEF Sound, ActsSound, At, MutableStates
  <2> QED BY <2>1
<1> QED BY <1>1, <1>2 DEF Later

LEMMA CallWatches ==
  ASSUME WInv, NEW out, Careful(out), Call(out)
  PROVE  StoreWatch(cache', hist', index', del, page) /\ RefWatch(cache', hist', refs', lost)
<1> DEFINE s == StateOf(cache', hist')
<1>1. /\ StoreWatch(cache', hist', index', del, page)
      /\ Loads /\ out.ms.ok => s = out.ms
      /\ ~(Loads /\ out.ms.ok) => cache' = NoState /\ hist' = hist /\ (Fixed => s = State)
  BY MutateWatches DEF WInv, Call
<1>2. /\ opt \in Options /\ Sound(State, now) /\ State.events = hist /\ State = StateOf(cache, hist)
  BY StateIs DEF WInv
<1> HIDE DEF s
<1>3. ASSUME Fixed PROVE RefsPlain(refs') /\ (lost = 0 /\ LoadsOf(cache', hist') => Offered(s, refs'))
  <2>1. RefsPlain(refs) /\ (lost = 0 /\ Loads => Offered(State, refs)) /\ Simple(State)
    BY <1>2, <1>3, LoadsIs DEF WInv, RefWatch, StoreWatch, FixedWatch
  <2>2. CASE ~(Loads /\ out.ms.ok)
    <3>1. refs' = refs /\ s = State
      BY <1>1, <1>3, <2>2 DEF Call
    <3>2. LoadsOf(cache', hist') => Loads
      BY <1>1, <2>2, LoadsIs DEF LoadsOf
    <3> QED BY <2>1, <3>1, <3>2
  <2>3. CASE Loads /\ out.ms.ok
    <3> DEFINE m == out.ms
               more == Dispatched(m, out.eff)
    <3>1. Sound(m, now) /\ Extends(State.events, m.events) /\ out.eff \in Seq(Effects)
      BY <1>2, <2>3 DEF Careful, Fine, EffectsFit
    <3>2. /\ Plain(m)
          /\ \A a \in DOMAIN m.acts : \/ a \in DOMAIN State.acts
                                      \/ \E i \in DOMAIN out.eff : out.eff[i].kind = "activity" /\ out.eff[i].ev = a
      BY <1>3, <2>1, <2>3 DEF Careful, Straight, Simple
    <3>3. /\ RefsPlain(more)
          /\ \A i \in DOMAIN out.eff : out.eff[i].kind = "activity" =>
               \E ref \in DOMAIN more : ref.kind = "act" /\ ref.ev = out.eff[i].ev
      BY <3>1, <3>2, DispatchedRefs
    <3>4. DOMAIN refs' = DOMAIN refs \cup DOMAIN more
      BY <2>3, AddedKeeps DEF Call
    <3> HIDE DEF more
    <3>5. RefsPlain(refs')
      BY <2>1, <3>3, <3>4 DEF RefsPlain
    <3>6. ASSUME lost = 0, NEW a \in DOMAIN m.acts, m.acts[a].started = 0
          PROVE  \E ref \in DOMAIN refs' : ref.kind = "act" /\ ref.ev = a
      <4>1. CASE a \in DOMAIN State.acts
        <5>1. State.acts[a].started = 0
          BY <1>2, <3>1, <3>6, <4>1, WaitedBefore
        <5> QED BY <2>1, <2>3, <3>4, <3>6, <4>1, <5>1 DEF Offered
      <4>2. CASE a \notin DOMAIN State.acts
        BY <3>2, <3>3, <3>4, <4>2
      <4> QED BY <4>1, <4>2
    <3>7. s = m
      BY <1>1, <2>3
    <3> QED BY <3>5, <3>6, <3>7 DEF Offered
  <2> QED BY <2>2, <2>3
<1> QED BY <1>1, <1>3 DEF RefWatch, s

\* The settings of a run never change, so neither does what is said of given values.
LEMMA FrozenTimers ==
  ASSUME opt' = opt, NEW ms PROVE RunTimers(ms)' = RunTimers(ms)
<1>1. \A act : ActivityDeadline(act)' = ActivityDeadline(act)
  BY DEF ActivityDeadline, ScheduleToStartDl, ScheduleToStart, Deadline, Earliest
<1>2. \A m : DerivedTimers(m)' = DerivedTimers(m)
  BY <1>1 DEF DerivedTimers, Started, Timer
<1>3. NoEntry' = NoEntry
  BY DEF NoEntry
<1> QED BY <1>2, <1>3 DEF RunTimers

LEMMA FrozenFixed == ASSUME opt' = opt PROVE Fixed' <=> Fixed
BY DEF Fixed, MaxAttempts, ScheduleToStart, HeartbeatTimeout

LEMMA FrozenDead ==
  ASSUME opt' = opt, NEW ms, NEW key PROVE Dead(key, ms)' <=> Dead(key, ms)
BY FrozenTimers, FrozenFixed DEF Dead, Terminal, Keys, Key

LEMMA FrozenRun ==
  ASSUME opt' = opt, NEW ms, NEW ix PROVE RunWatched(ms, ix)' <=> RunWatched(ms, ix)
BY FrozenTimers DEF RunWatched, Terminal, Keys, Key

LEMMA FrozenDel ==
  ASSUME opt' = opt, NEW ms, NEW dl PROVE DelFits(dl, ms)' <=> DelFits(dl, ms)
BY FrozenDead DEF DelFits, NoKey

LEMMA FrozenActs ==
  ASSUME opt' = opt, NEW ms, NEW ix, NEW S, NEW h
  PROVE  /\ Plain(ms)' <=> Plain(ms)
         /\ ActsWatched(ms, ix)' <=> ActsWatched(ms, ix)
         /\ PlainTimers(S, h)' <=> PlainTimers(S, h)
<1>1. Plain(ms)' <=> Plain(ms)
  BY DEF Plain, PlainAct, Deadline, ScheduleToClose, StartToClose
<1>2. ActsWatched(ms, ix)' <=> ActsWatched(ms, ix)
  BY DEF ActsWatched, ScheduleToClose, Keys, Key
<1>3. PlainTimers(S, h)' <=> PlainTimers(S, h)
  BY DEF PlainTimers, PlainTimer, ScheduleToClose, StartToClose
<1> QED BY <1>1, <1>2, <1>3

LEMMA FrozenWatch ==
  ASSUME opt' = opt, NEW c, NEW h \in Seq(Events), StateOf(c, h).events = h,
         NEW ix, NEW dl, NEW pg, NEW rf, NEW ls
  PROVE  /\ StoreWatch(c, h, ix, dl, pg)' <=> StoreWatch(c, h, ix, dl, pg)
         /\ RefWatch(c, h, rf, ls)' <=> RefWatch(c, h, rf, ls)
<1>1. FromLog(h)' = FromLog(h)
  BY FrozenFromLog
<1>2. NoState' = NoState
  BY DEF NoState, NewMutableState, NoTask, NoEntry
<1>3. StateOf(c, h)' = StateOf(c, h) /\ ArmedOf(c)' = ArmedOf(c)
  BY <1>1, <1>2 DEF StateOf, ArmedOf
<1>4. Fixed' <=> Fixed
  BY FrozenFixed
<1>5. RunWatched(StateOf(c, h), ix)' <=> RunWatched(StateOf(c, h), ix)
  BY <1>3, FrozenRun
<1>6. DelFits(dl, StateOf(c, h))' <=> DelFits(dl, StateOf(c, h))
  BY <1>3, FrozenDel
<1>7. Simple(StateOf(c, h))' <=> Simple(StateOf(c, h))
  <2>1. Plain(StateOf(c, h))' <=> Plain(StateOf(c, h))
    BY <1>3, FrozenActs
  <2> QED BY <1>1, <1>3, <2>1 DEF Simple, Terminal
<1>8. /\ PlainTimers(ArmedOf(c), h)' <=> PlainTimers(ArmedOf(c), h)
      /\ PlainTimers(ix, h)' <=> PlainTimers(ix, h) 
      /\ PlainTimers(pg, h)' <=> PlainTimers(pg, h)
      /\ ActsWatched(StateOf(c, h), ix)' <=> ActsWatched(StateOf(c, h), ix)
  BY <1>3, FrozenActs
<1>9. FixedWatch(c, h, ix, pg)' <=> FixedWatch(c, h, ix, pg)
  BY <1>7, <1>8 DEF FixedWatch
<1>10. Offered(StateOf(c, h), rf)' <=> Offered(StateOf(c, h), rf)
  BY <1>3 DEF Offered
<1>11. RefsPlain(rf)' <=> RefsPlain(rf)
  BY DEF RefsPlain
<1>12. LoadsOf(c, h)' <=> LoadsOf(c, h)
  <2>1. Validate(h)' <=> Validate(h)
    BY DEF Validate, MaxHistoryEvents
  <2>2. Reject(NewMutableState)' = Reject(NewMutableState)
    BY DEF Reject, NewMutableState, NoTask, NoEntry
  <2>3. Rebuild(h)' = Rebuild(h)
    BY <1>1, <2>1, <2>2 DEF Rebuild
  <2> QED BY <1>2, <2>3 DEF LoadsOf
<1> QED BY <1>4, <1>5, <1>6, <1>9, <1>10, <1>11, <1>12 DEF StoreWatch, RefWatch

LEMMA WatchStep ==
  ASSUME IInv', opt' = opt, StoreWatch(cache', hist', index', del', page'), RefWatch(cache', hist', refs', lost')
  PROVE  WInv'
<1>1. Good(cache, hist, index, refs, held, now, page)'
  BY DEF IInv
<1>2. Good(cache', hist', index', refs', held', now', page')
  BY <1>1, FrozenGood
<1>3. hist' \in Seq(Events) /\ StateOf(cache', hist').events = hist'
  BY <1>2 DEF Good, Kept, Standing
<1>4. StoreWatch(cache, hist, index, del, page)' /\ RefWatch(cache, hist, refs, lost)'
  BY <1>3, FrozenWatch
<1> QED BY <1>4 DEF WInv

-------------------------------------------------------------------------------
\* Every step keeps watch.

LEMMA SteadyCall ==
  ASSUME WInv, IInv', opt' = opt, NEW out, Steady(out), Call(out), page' = page, del' = del, lost' = lost
  PROVE  WInv'
<1>1. Careful(out)
  BY DEF Careful, Steady, Fine
<1>2. StoreWatch(cache', hist', index', del, page) /\ RefWatch(cache', hist', refs', lost)
  BY <1>1, CallWatches
<1> QED BY <1>2, WatchStep

\* Scan reads entries of the index; a shorter page is watched as well.
LEMMA LessPage ==
  ASSUME NEW c, NEW h, NEW ix, NEW dl, NEW pg, StoreWatch(c, h, ix, dl, pg), NEW less,
         \A r \in less : r \in pg \/ r \in ix
  PROVE  StoreWatch(c, h, ix, dl, less)
BY DEF StoreWatch, FixedWatch, PlainTimers

LEMMA PollTaskWatches ==
  ASSUME WInv, IInv', opt' = opt, NEW w \in Workers, NEW ref, PollWorkflowTask(w, ref)
  PROVE  WInv'
<1> DEFINE ms == State
           current == Loads /\ ~Terminal(ms) /\ Scheduled(ms) /\ ms.wt.sched = ref.ev
           m == StartWorkflowTask(ms, w, now)
           s == StateOf(cache', hist')
<1>1. /\ opt \in Options /\ now \in Nat \ {0} /\ Sound(ms, now) /\ ms = StateOf(cache, hist)
      /\ ms.events # <<>> /\ ms.events = hist /\ RefsFit(refs) /\ IInv
  BY StateIs DEF WInv, IInv, Good
<1>2. /\ refs' = refs (-) SetToBag({ref}) /\ page' = page /\ lost' = lost /\ del' = del /\ ref.kind = "wf"
  BY DEF PollWorkflowTask, Take, scanner
<1>3. PICK out : /\ Mutate(out) /\ Careful(out) /\ out.ms.ok
                 /\ Fixed /\ Simple(ms) => \A a \in DOMAIN out.ms.acts : a \in DOMAIN ms.acts
                 /\ Sound(out.ms, now) /\ Extends(ms.events, out.ms.events)
  <2>1. CASE current
    <3> DEFINE out == Quiet(m)
    <3>1. Mutate(out)
      BY <2>1 DEF PollWorkflowTask
    <3>2. m.ok
      BY <1>1, <2>1, StartTaskOk
    <3>3. Sound(m, now) /\ Awake(m) /\ Extends(ms.events, m.events) /\ Straight(ms, Result(m, <<>>))
      BY <1>1, <3>2, StartTaskSound
    <3>4. out.ms = m /\ out.eff = <<>> /\ out.noop = FALSE /\ out.drop = {}
      BY DEF Quiet, Outcome, Result
    <3>5. Fixed /\ Simple(ms) => Simple(m) /\ \A a \in DOMAIN m.acts : a \in DOMAIN ms.acts
      <4> HIDE DEF m
      <4> QED BY <3>2, <3>3 DEF Straight, Result
    <3> HIDE DEF out, m
    <3>6. Fine(out)
      BY <1>1, <3>3, <3>4, NoEffects DEF Fine
    <3>7. Straight(State, out)
      BY <3>4, <3>5 DEF Straight
    <3>8. Careful(out)
      BY <3>4, <3>6, <3>7 DEF Careful
    <3> QED BY <3>1, <3>2, <3>3, <3>4, <3>5, <3>8
  <2>2. CASE ~current
    <3>1. Mutate(Noop)
      BY <2>2 DEF PollWorkflowTask
    <3>2. Noop.ms = State /\ Noop.eff = <<>> /\ Noop.drop = {}
      BY DEF Noop, Quiet, Outcome, Result
    <3>3. Fine(Noop)
      BY <1>1, NoopFine DEF Fine
    <3>4. Straight(State, Noop)
      BY <3>2 DEF Straight
    <3>5. Careful(Noop)
      BY <3>2, <3>3, <3>4 DEF Careful
    <3>6. ms.ok /\ Extends(ms.events, ms.events)
      BY <1>1 DEF Sound, MutableStates, Extends
    <3> QED BY <1>1, <3>1, <3>2, <3>5, <3>6
  <2> QED BY <2>1, <2>2
<1>4. /\ StoreWatch(cache', hist', index', del, page)
      /\ Loads => s = out.ms
      /\ LoadsOf(cache', hist') => Loads
  <2>1. /\ StoreWatch(cache', hist', index', del, page)
        /\ Loads /\ out.ms.ok => s = out.ms
        /\ ~(Loads /\ out.ms.ok) => cache' = NoState /\ hist' = hist
    BY <1>1, <1>3, MutateWatches DEF WInv
  <2> QED BY <1>3, <2>1, LoadsIs DEF LoadsOf
<1> HIDE DEF s
<1>5. ASSUME Fixed PROVE RefsPlain(refs') /\ (lost' = 0 /\ LoadsOf(cache', hist') => Offered(s, refs'))
  <2>1. RefsPlain(refs) /\ (lost = 0 /\ Loads => Offered(ms, refs)) /\ Simple(ms)
    BY <1>1, <1>5, LoadsIs DEF WInv, RefWatch, StoreWatch, FixedWatch
  <2>2. /\ \A x \in DOMAIN refs' : x \in DOMAIN refs
        /\ \A x \in DOMAIN refs : x # ref => x \in DOMAIN refs'
    BY <1>1, <1>2, TakenKeeps
  <2>3. Loads => \A a \in DOMAIN s.acts : s.acts[a].started = 0 => a \in DOMAIN ms.acts /\ ms.acts[a].started = 0
    BY <1>1, <1>3, <1>4, <1>5, <2>1, WaitedBefore
  <2> QED BY <1>2, <1>4, <2>1, <2>2, <2>3 DEF RefsPlain, Offered
<1> QED BY <1>2, <1>4, <1>5, WatchStep DEF RefWatch, s

LEMMA PollActivityWatches ==
  ASSUME WInv, IInv', opt' = opt, NEW ref \in BagToSet(refs), PollActivityTask(ref)
  PROVE  WInv'
<1> DEFINE ms == State
           act == ms.acts[ref.ev]
           current == /\ Loads /\ ~Terminal(ms) /\ ref.ev \in DOMAIN ms.acts
                      /\ \/ act.started = 0
                         \/ ref.attempt > act.attempt
                         \/ ref.attempt = act.attempt /\ ~act.held
           s == StateOf(cache', hist')
<1>1. /\ opt \in Options /\ now \in Nat \ {0} /\ Sound(ms, now) /\ Awake(ms) /\ ms = StateOf(cache, hist)
      /\ ms.events # <<>> /\ ms.events = hist /\ RefsFit(refs) /\ IInv /\ ms \in MutableStates /\ ms.ok
  BY StateIs DEF WInv, IInv, Good, Sound
<1>2. /\ refs' = refs (-) SetToBag({ref}) /\ page' = page /\ lost' = lost /\ del' = del /\ ref.kind = "act"
  BY DEF PollActivityTask, Take, scanner
<1>3. ref.attempt \in Nat /\ ref \in DOMAIN refs
  BY <1>1 DEF RefsFit, BagToSet
<1>4. Fixed => /\ RefsPlain(refs) /\ (lost = 0 /\ Loads => Offered(ms, refs)) /\ Simple(ms)
  BY <1>1, LoadsIs DEF WInv, RefWatch, StoreWatch, FixedWatch
<1>5. /\ \A x \in DOMAIN refs' : x \in DOMAIN refs
      /\ \A x \in DOMAIN refs : x # ref => x \in DOMAIN refs'
  BY <1>1, <1>2, TakenKeeps
<1>6. CASE current
  <2> DEFINE r == Result(StartAttempt(ms, ref), <<>>)
             out == Dropping(r, <<"Retry", ref.ev>>)
             e == [Event("ActStarted", now) EXCEPT !.ref = ref.ev, !.n = act.attempt]
  <2>1. Mutate(out)
    BY <1>6 DEF PollActivityTask
  <2>2. Leads(ms, r, now)
    <3>1. Leads(ms, Result(StartActivity(ms, ref.ev, now), <<>>), now)
      BY <1>1, <1>6, StartActivityLeads DEF LeadsStraight
    <3>2. Leads(ms, Result(BeginRetryAttempt(ms, ref.ev, ref.attempt), <<>>), now)
      BY <1>1, <1>3, <1>6, BeginRetryLeads
    <3> QED BY <3>1, <3>2 DEF StartAttempt
  <2>3. Fixed => act.started = 0 /\ StartAttempt(ms, ref) = StartActivity(ms, ref.ev, now)
    <3> SUFFICES ASSUME Fixed PROVE act.started = 0
      BY DEF StartAttempt
    <3>1. ref.attempt = 1 /\ act.attempt = 1 /\ (act.held <=> act.started # 0)
      BY <1>2, <1>3, <1>4, <1>6 DEF RefsPlain, Simple, Plain, PlainAct
    <3> QED BY <1>6, <3>1
  <2>4. Straight(ms, r)
    <3>1. Straight(ms, Result(StartActivity(ms, ref.ev, now), <<>>))
      BY <1>1, <1>6, StartActivityLeads DEF LeadsStraight
    <3>2. Fixed => r = Result(StartActivity(ms, ref.ev, now), <<>>)
      BY <2>3
    <3> HIDE DEF r
    <3> QED BY <3>1, <3>2 DEF Straight
  <2>5. out.ms = r.ms /\ out.eff = r.eff /\ out.drop = {<<"Retry", ref.ev>>} /\ r.eff = <<>>
    BY DEF Dropping, Outcome, Result
  <2>6. r.ms.ok => r.ms \in MutableStates
    BY <2>2 DEF Leads, Sound
  <2>7. Fixed => r.ms.ok /\ r.ms.acts = [ms.acts EXCEPT ![ref.ev] = StartedActivity(act, e, Len(ms.events) + 1)]
    <3> SUFFICES ASSUME Fixed
                 PROVE r.ms.ok /\ r.ms.acts = [ms.acts EXCEPT ![ref.ev] = StartedActivity(act, e, Len(ms.events) + 1)]
      OBVIOUS
    <3>1. act \in ActStates /\ ref.ev \in Nat
      BY <1>1, <1>6, PendingTyped
    <3>2. act.attempt \in Nat
      BY <3>1 DEF ActStates
    <3>3. e \in Events /\ e.type = "ActStarted" /\ e.ref = ref.ev
      BY <1>1, <3>1, <3>2, EmptyId DEF Event, Events, EventTypes
    <3>4. r.ms = Apply(ms, e)
      BY <1>6, <2>3 DEF Result, StartActivity, AppendEvent
    <3> HIDE DEF e, r
    <3>5. Applicable(ms, e)
      BY <1>6, <2>3, <3>3 DEF Applicable
    <3>6. Applied(r.ms, ms, e, Len(ms.events) + 1)
      BY <1>1, <3>3, <3>4, <3>5, ApplyFields
    <3> QED BY <3>3, <3>6 DEF Applied, ActsAfter, ClosedTypes, Resolving
  <2> HIDE DEF r, out
  <2>8. Careful(out)
    <3>1. Fine(out)
      BY <1>1, <2>2, LeadsFine DEF Fine, out
    <3>2. Straight(State, out)
      BY <2>4, <2>5 DEF Straight
    <3>3. out.ms.ok => \A key \in out.drop : Dead(key, out.ms)
      BY <2>5, <2>6, KeyDead DEF TimerKinds
    <3> QED BY <3>1, <3>2, <3>3 DEF Careful
  <2>9. /\ StoreWatch(cache', hist', index', del, page)
        /\ out.ms.ok => s = out.ms
    BY <1>1, <1>6, <2>1, <2>8, MutateWatches DEF WInv
  <2> HIDE DEF s
  <2>10. ASSUME Fixed PROVE RefsPlain(refs') /\ (lost' = 0 /\ LoadsOf(cache', hist') => Offered(s, refs'))
    <3> DEFINE v == StartedActivity(act, e, Len(ms.events) + 1)
    <3>1. s.acts = [ms.acts EXCEPT ![ref.ev] = v]
      BY <2>5, <2>7, <2>9, <2>10
    <3>2. v.started # 0
      <4>1. act \in ActStates /\ Len(ms.events) \in Nat
        BY <1>1, <1>6, PendingTyped DEF MutableStates
      <4> HIDE DEF e
      <4> QED BY <4>1 DEF StartedActivity, ActStates
    <3> HIDE DEF v
    <3>3. \A a \in DOMAIN s.acts : s.acts[a].started = 0 => a # ref.ev /\ a \in DOMAIN ms.acts /\ ms.acts[a].started = 0
      BY <1>6, <3>1, <3>2
    <3> QED BY <1>2, <1>4, <1>5, <1>6, <2>10, <3>3 DEF RefsPlain, Offered
  <2> QED BY <1>2, <2>9, <2>10, WatchStep DEF RefWatch, s
<1>7. CASE ~current
  <2>1. Mutate(Noop)
    BY <1>7 DEF PollActivityTask
  <2>2. Noop.ms = State /\ Noop.eff = <<>> /\ Noop.drop = {}
    BY DEF Noop, Quiet, Outcome, Result
  <2>3. Careful(Noop)
    <3>1. Fine(Noop)
      BY <1>1, NoopFine DEF Fine
    <3>2. Straight(State, Noop)
      BY <2>2 DEF Straight
    <3> QED BY <2>2, <3>1, <3>2 DEF Careful
  <2>4. /\ StoreWatch(cache', hist', index', del, page)
        /\ Loads => s = ms
        /\ LoadsOf(cache', hist') => Loads
    <3>1. /\ StoreWatch(cache', hist', index', del, page)
          /\ Loads /\ Noop.ms.ok => s = Noop.ms
          /\ ~(Loads /\ Noop.ms.ok) => cache' = NoState /\ hist' = hist
      BY <1>1, <2>1, <2>3, MutateWatches DEF WInv
    <3> QED BY <1>1, <2>2, <3>1, LoadsIs DEF LoadsOf
  <2> HIDE DEF s
  <2>5. ASSUME Fixed PROVE RefsPlain(refs') /\ (lost' = 0 /\ LoadsOf(cache', hist') => Offered(s, refs'))
    <3>1. Loads => \A a \in DOMAIN ms.acts : ms.acts[a].started = 0 => a # ref.ev
      <4>1. Terminal(ms) => DOMAIN ms.acts = {}
        BY <1>4, <2>5 DEF Simple
      <4> QED BY <1>7, <4>1
    <3> QED BY <1>2, <1>4, <1>5, <2>4, <2>5, <3>1 DEF RefsPlain, Offered
  <2> QED BY <1>2, <2>4, <2>5, WatchStep DEF RefWatch, s
<1> QED BY <1>6, <1>7

\* The scan loop serves an entry, and deletes a key nothing waits for any more.
LEMMA DispatchWatches ==
  ASSUME WInv, IInv', opt' = opt, NEW r \in page, Dispatch(r) PROVE WInv'
<1> DEFINE out == OnTimer(r)
           s == StateOf(cache', hist')
<1>1. /\ IInv /\ opt \in Options /\ Sound(State, now) /\ State = StateOf(cache, hist)
      /\ State.events = hist /\ hist # <<>> /\ hist \in Seq(Events) /\ PageFits(page, hist, now)
  BY StateIs DEF WInv, IInv, Good
<1>2. Loads /\ Call(out) /\ page' = page \ {r} /\ del' = Key(r) /\ lost' = lost
  BY DEF Dispatch
<1>3. Fixed => PlainTimer(r, hist) /\ Simple(State)
  BY <1>1 DEF WInv, StoreWatch, FixedWatch, PlainTimers
<1>4. Served(out, r) /\ Fine(out)
  BY <1>1, <1>3, TimerServed, OnTimerFine DEF Fine
<1> HIDE DEF out
<1>5. Careful(out)
  BY <1>4 DEF Careful, Served
<1>6. StoreWatch(cache', hist', index', del, page) /\ RefWatch(cache', hist', refs', lost)
  BY <1>2, <1>5, CallWatches
<1>7. s = out.ms
  BY <1>1, <1>2, <1>4, <1>5, MutateWatches DEF WInv, Call, Served
<1>8. DelFits(del', out.ms)
  <2>1. r.ev \in DOMAIN hist
    BY <1>1 DEF PageFits, TimerFits
  <2>2. r.ev \in DOMAIN out.ms.events
    BY <1>4, <2>1 DEF Served, Fine, Extends
  <2>3. del' = <<r.kind, r.ev>> /\ Dead(del', out.ms)
    BY <1>2, <1>4 DEF Key, Served
  <2> QED BY <2>2, <2>3 DEF DelFits
<1> HIDE DEF s
<1>9. StoreWatch(cache', hist', index', del', page)
  BY <1>6, <1>7, <1>8 DEF StoreWatch, s
<1>10. StoreWatch(cache', hist', index', del', page')
  BY <1>2, <1>9, LessPage
<1> QED BY <1>2, <1>6, <1>10, WatchStep

LEMMA EvictedRefs ==
  ASSUME NEW c, NEW h, NEW rf, NEW ls, RefWatch(c, h, rf, ls), Fixed => StateOf(NoState, h) = StateOf(c, h)
  PROVE  RefWatch(NoState, h, rf, ls)
<1>1. LoadsOf(NoState, h) => LoadsOf(c, h)
  BY DEF LoadsOf
<1> QED BY <1>1 DEF RefWatch

LEMMA EvictionSteps ==
  ASSUME WInv, IInv', opt' = opt, Evict \/ (\E r \in page : DispatchFails(r)) PROVE WInv'
<1>1. /\ hist' = hist /\ index' = index /\ cache' = NoState /\ refs' = refs /\ lost' = lost /\ del' = del
      /\ page' \in SUBSET page
  BY DEF Evict, DispatchFails, store, scanner
<1>2. opt \in Options /\ Kept(cache, hist, index, now)
  BY StateIs DEF WInv
<1>3. StoreWatch(NoState, hist, index, del, page) /\ RefWatch(NoState, hist, refs, lost)
  BY <1>2, EvictWatches, EvictedRefs DEF WInv
<1>4. StoreWatch(NoState, hist, index, del, page')
  BY <1>1, <1>3, LessPage
<1> QED BY <1>1, <1>3, <1>4, WatchStep

LEMMA NoDel ==
  ASSUME NEW c, NEW h, NEW ix, NEW dl, NEW pg, StoreWatch(c, h, ix, dl, pg)
  PROVE  StoreWatch(c, h, ix, NoKey, pg)
BY DEF StoreWatch, DelFits

LEMMA DeleteWatches ==
  ASSUME NEW c, NEW h, NEW ix, NEW dl, NEW pg, StoreWatch(c, h, ix, dl, pg), dl # NoKey
  PROVE  StoreWatch(c, h, Without(ix, {dl}), NoKey, pg)
<1> DEFINE ms == StateOf(c, h)
           less == Without(ix, {dl})
<1>1. RunWatched(ms, ix) /\ Dead(dl, ms) /\ (Fixed => FixedWatch(c, h, ix, pg))
  BY DEF StoreWatch, DelFits
<1> HIDE DEF ms
<1>2. \A r \in less : r \in ix
  BY DEF Without
<1>3. \A r \in ix : Key(r) # dl => r \in less
  BY DEF Without
<1>4. \A key \in Keys(ix) : key # dl => key \in Keys(less)
  <2> HIDE DEF less
  <2> QED BY <1>3 DEF Keys
<1> HIDE DEF less
<1>5. RunWatched(ms, less)
  <2>1. CASE Terminal(ms)
    BY <1>1, <1>2, <2>1 DEF RunWatched
  <2>2. CASE ~Terminal(ms)
    <3>1. \A r \in RunTimers(ms) : Key(r) # dl
      BY <1>1, <2>2 DEF Dead, Keys
    <3>2. RunTimers(ms) \subseteq less
      BY <1>1, <1>3, <2>2, <3>1 DEF RunWatched
    <3>3. Len(ms.events) = 1 => <<"WorkflowRetry", 1>> \in Keys(less)
      BY <1>1, <1>4, <2>2 DEF RunWatched, Dead
    <3> QED BY <2>2, <3>2, <3>3 DEF RunWatched
  <2> QED BY <2>1, <2>2
<1>6. Fixed => FixedWatch(c, h, less, pg)
  <2> SUFFICES ASSUME Fixed PROVE FixedWatch(c, h, less, pg)
    OBVIOUS
  <2>1. FixedWatch(c, h, ix, pg)
    BY <1>1
  <2>2. PlainTimers(less, h)
    BY <1>2, <2>1 DEF FixedWatch, PlainTimers
  <2>3. Simple(ms) /\ ActsWatched(ms, ix)
    BY <2>1 DEF FixedWatch, ms
  <2>4. \A a \in DOMAIN ms.acts : dl # <<"Activity", a>>
    BY <1>1, <2>3 DEF Dead, Simple
  <2>5. ActsWatched(ms, less)
    BY <1>4, <2>3, <2>4 DEF ActsWatched
  <2> QED BY <2>1, <2>2, <2>5 DEF FixedWatch, ms
<1>7. DelFits(NoKey, ms)
  BY DEF DelFits
<1> QED BY <1>5, <1>6, <1>7 DEF StoreWatch, ms, less

LEMMA ScanWatches ==
  ASSUME WInv, IInv', opt' = opt, Scan \/ Delete \/ DeleteFails PROVE WInv'
<1>1. cache' = cache /\ hist' = hist /\ refs' = refs /\ lost' = lost
  BY DEF Scan, Delete, DeleteFails, store
<1>2. StoreWatch(cache, hist, index, del, page) /\ RefWatch(cache, hist, refs, lost)
  BY DEF WInv
<1>3. CASE Scan
  <2>1. index' = index /\ del' = del /\ \A r \in page' : r \in index
    BY <1>3 DEF Scan, store
  <2>2. StoreWatch(cache, hist, index, del, page')
    BY <1>2, <2>1, LessPage
  <2> QED BY <1>1, <1>2, <2>1, <2>2, WatchStep
<1>4. CASE Delete
  <2>1. index' = Without(index, {del}) /\ del # NoKey /\ del' = NoKey /\ page' = page
    BY <1>4 DEF Delete
  <2>2. StoreWatch(cache, hist, index', NoKey, page)
    BY <1>2, <2>1, DeleteWatches
  <2> QED BY <1>1, <1>2, <2>1, <2>2, WatchStep
<1>5. CASE DeleteFails
  <2>1. index' = index /\ del' = NoKey /\ page' = page
    BY <1>5 DEF DeleteFails, store
  <2>2. StoreWatch(cache, hist, index, NoKey, page)
    BY <1>2, NoDel
  <2> QED BY <1>1, <1>2, <2>1, <2>2, WatchStep
<1> QED BY <1>3, <1>4, <1>5

LEMMA QuietSteps ==
  ASSUME WInv, IInv', opt' = opt,
         \/ \E ref \in BagToSet(refs) : LoseRef(ref)
         \/ \E h \in held : WorkerCrash(h)
         \/ Tick
         \/ UNCHANGED vars
  PROVE  WInv'
<1>1. /\ hist' = hist /\ index' = index /\ cache' = cache /\ del' = del /\ page' = page
  BY DEF LoseRef, WorkerCrash, Tick, store, scanner, vars
<1>2. StoreWatch(cache, hist, index, del, page) /\ RefWatch(cache, hist, refs, lost) /\ RefsFit(refs)
  BY DEF WInv, IInv, Good
<1>3. RefWatch(cache, hist, refs', lost')
  <2>1. ASSUME NEW ref, LoseRef(ref) PROVE RefWatch(cache, hist, refs', lost')
    <3>1. refs' = refs (-) SetToBag({ref}) /\ lost' = lost + 1 /\ lost \in Nat
      BY <2>1 DEF LoseRef, Take, WInv, IInv
    <3>2. \A x \in DOMAIN refs' : x \in DOMAIN refs
      BY <1>2, <3>1, TakenKeeps
    <3>3. lost' # 0
      BY <3>1
    <3> QED BY <1>2, <3>2, <3>3 DEF RefWatch, RefsPlain
  <2>2. CASE \A ref : ~LoseRef(ref)
    <3>1. refs' = refs /\ lost' = lost
      BY <2>2 DEF WorkerCrash, Tick, vars
    <3> QED BY <1>2, <3>1
  <2> QED BY <2>1, <2>2
<1> QED BY <1>1, <1>2, <1>3, WatchStep

\* Recovery: a fresh engine arms what the state waits for.
LEMMA FreshWants ==
  ASSUME NEW ms, ~Terminal(ms), NEW arm, \A r \in arm : r.kind = "WorkflowRetry"
  PROVE  DesiredTimers(ms, {}, arm, {}) = DerivedTimers(ms) \cup arm
<1>1. \A r \in DerivedTimers(ms) : Key(r) \notin Keys(arm)
  <2> TAKE r \in DerivedTimers(ms)
  <2>1. r.kind # "WorkflowRetry"
    BY DerivedActs
  <2> QED BY <2>1, KeyIs DEF Keys
<1>2. DesiredTimers(ms, {}, arm, {}) = Without(Without({} \cup DerivedTimers(ms), Keys(arm)) \cup arm, {})
  BY DEF DesiredTimers
<1> QED BY <1>1, <1>2 DEF Without

LEMMA RecoverWatches ==
  ASSUME opt \in Options, NEW h, NEW ix, NEW t, Kept(NoState, h, ix, t), NEW dl, NEW pg,
         StoreWatch(NoState, h, ix, dl, pg), ~Terminal(FromLog(h))
  PROVE  LET ms == FromLog(h)
             want == DesiredTimers(ms, {}, {}, {})
             c == [ms |-> ms, armed |-> want]
         IN StoreWatch(c, h, Without(ix, Keys(want)) \cup want, NoKey, {}) /\ StateOf(c, h) = ms
<1> DEFINE ms == FromLog(h)
           want == DesiredTimers(ms, {}, {}, {})
           c == [ms |-> ms, armed |-> want]
           more == Without(ix, Keys(want)) \cup want
<1>1. StateOf(NoState, h) = ms
  BY DEF StateOf
<1>2. want = DerivedTimers(ms)
  BY FreshWants
<1> HIDE DEF ms, want
<1>3. Sound(ms, t) /\ ms.events = h /\ h # <<>> /\ ms \in MutableStates
  BY <1>1 DEF Kept, Standing, Sound
<1>4. c # NoState /\ c.armed = want /\ StateOf(c, h) = ms
  BY <1>3, CacheIs
<1> HIDE DEF c
<1>5. \A key \in Keys(ix) : key \in Keys(more)
  BY DEF Keys, Without
<1>6. \A r \in more : r \in ix \/ r \in want
  BY DEF Without
<1>7. RunWatched(ms, more)
  <2>1. RunWatched(ms, ix) /\ ~Terminal(ms)
    BY <1>1 DEF StoreWatch, ms
  <2>2. RunTimers(ms) \subseteq want
    BY <1>2, <1>3, RunTimersDerived
  <2>3. RunTimers(ms) \subseteq more
    BY <2>2
  <2> HIDE DEF more
  <2> QED BY <1>5, <2>1, <2>3 DEF RunWatched
<1> HIDE DEF more
<1>8. ASSUME Fixed PROVE FixedWatch(c, h, more, {})
  <2>1. Simple(ms) /\ PlainTimers(ix, h) /\ ActsWatched(ms, ix)
    BY <1>1, <1>8 DEF StoreWatch, FixedWatch
  <2>2. PlainTimers(want, h)
    BY <1>2, <1>3, <1>8, <2>1, DerivedPlain DEF Simple
  <2>3. PlainTimers(more, h) /\ PlainTimers({}, h) /\ ArmedOf(c) = want
    BY <1>4, <1>6, <2>1, <2>2 DEF PlainTimers, ArmedOf
  <2>4. ActsWatched(ms, more)
    BY <1>5, <2>1 DEF ActsWatched
  <2> QED BY <1>4, <2>1, <2>2, <2>3, <2>4 DEF FixedWatch
<1>9. DelFits(NoKey, ms)
  BY DEF DelFits
<1>10. StoreWatch(c, h, more, NoKey, {})
  BY <1>4, <1>7, <1>8, <1>9 DEF StoreWatch
<1> QED BY <1>4, <1>10 DEF c, more, want, ms

LEMMA RestartWatches ==
  ASSUME WInv, IInv', opt' = opt, Restart PROVE WInv'
<1> DEFINE ms == FromLog(hist)
           want == DesiredTimers(ms, {}, {}, {})
           c == [ms |-> ms, armed |-> want]
           offers == {ActivityRef(ms, a) : a \in {a \in DOMAIN ms.acts : ms.acts[a].started = 0}}
           refreshed == (IF Scheduled(ms) THEN {TaskRef(ms.wt.sched)} ELSE {}) \cup offers
<1>1. /\ opt \in Options /\ Kept(cache, hist, index, now)
  BY StateIs DEF WInv
<1>2. /\ hist' = hist /\ lost' = lost /\ page' = {} /\ del' = NoKey
      /\ IF ~Rebuild(hist).ok \/ Terminal(ms) THEN cache' = NoState /\ refs' = EmptyBag /\ index' = index
         ELSE /\ cache' = c /\ refs' = SetToBag(refreshed)
              /\ index' = Without(index, Keys(want)) \cup want
  <2>1. CASE Rebuild(hist).ok
    <3>1. Rebuild(hist) = FromLog(hist)
      BY <2>1, LoadedIs
    <3> QED BY <2>1, <3>1 DEF Restart
  <2>2. CASE ~Rebuild(hist).ok
    BY <2>2 DEF Restart
  <2> QED BY <2>1, <2>2
<1>3. /\ Kept(NoState, hist, index, now) /\ StoreWatch(NoState, hist, index, del, page)
      /\ StateOf(NoState, hist) = ms
  BY <1>1, EvictKeeps, EvictWatches DEF WInv, StateOf
<1>4. ~Terminal(ms) => StoreWatch(c, hist, Without(index, Keys(want)) \cup want, NoKey, {}) /\ StateOf(c, hist) = ms
  BY <1>1, <1>3, RecoverWatches
<1>5. Fixed => Simple(ms)
  BY <1>3 DEF StoreWatch, FixedWatch
<1> HIDE DEF ms, want, c, refreshed, offers
<1>6. StoreWatch(NoState, hist, index, NoKey, {})
  <2>1. StoreWatch(NoState, hist, index, NoKey, page)
    BY <1>3, NoDel
  <2> QED BY <2>1, LessPage
<1>7. StoreWatch(cache', hist', index', del', page') /\ StateOf(cache', hist') = ms
  BY <1>2, <1>3, <1>4, <1>6
<1>8. ASSUME Fixed PROVE RefsPlain(refs') /\ (LoadsOf(cache', hist') => Offered(ms, refs'))
  <2>1. Plain(ms) /\ (Terminal(ms) => DOMAIN ms.acts = {})
    BY <1>5, <1>8 DEF Simple
  <2>2. CASE ~Rebuild(hist).ok \/ Terminal(ms)
    <3>1. DOMAIN refs' = {}
      BY <1>2, <2>2 DEF EmptyBag, SetToBag
    <3>2. LoadsOf(cache', hist') => Terminal(ms)
      BY <1>2, <2>2 DEF LoadsOf
    <3> QED BY <2>1, <3>1, <3>2 DEF RefsPlain, Offered
  <2>3. CASE ~(~Rebuild(hist).ok \/ Terminal(ms))
    <3>1. DOMAIN refs' = refreshed
      BY <1>2, <2>3 DEF SetToBag
    <3>2. \A ref \in refreshed : ref.kind = "act" => ref.attempt = 1
      BY <2>1, PlainRef, TaskRefKind DEF refreshed, offers
    <3>3. ASSUME NEW a \in DOMAIN ms.acts, ms.acts[a].started = 0
          PROVE  \E ref \in refreshed : ref.kind = "act" /\ ref.ev = a
      <4> DEFINE ref == ActivityRef(ms, a)
      <4>1. ref \in refreshed
        BY <3>3 DEF refreshed, offers
      <4>2. ref.kind = "act" /\ ref.ev = a
        BY ActRefFields
      <4> HIDE DEF ref
      <4> QED BY <4>1, <4>2
    <3> QED BY <3>1, <3>2, <3>3 DEF RefsPlain, Offered
  <2> QED BY <2>2, <2>3
<1>9. RefWatch(cache', hist', refs', lost')
  BY <1>7, <1>8 DEF RefWatch
<1> QED BY <1>7, <1>9, WatchStep

-------------------------------------------------------------------------------
\* The first states are watched.

LEMMA FirstSimple ==
  ASSUME opt \in Options
  PROVE  LET ms == AppendEvent(NewMutableState, Event("Started", 1))
         IN /\ DOMAIN ms.acts = {} /\ Len(ms.events) = 1 /\ (Fixed => Simple(ms))
<1> DEFINE new == NewMutableState
           e == Event("Started", 1)
           ms == AppendEvent(new, e)
<1>1. /\ new \in MutableStates /\ new.ok /\ new.events = <<>> /\ new.acts = NoEntry
      /\ Sound(new, 1) /\ ~Terminal(new)
  BY NewTyped, NewSound DEF NewMutableState, Terminal
<1>2. e \in Events /\ e.type = "Started" /\ e.time = 1
  BY EventFields DEF EventTypes
<1>3. FromLog(<<>>) = new
  BY FromLogEmpty
<1> HIDE DEF new, e
<1>4. Fits(new, e, 1)
  BY <1>1, <1>2 DEF Fits, TaskEnding, CommandTypes
<1>5. Applicable(new, e) /\ ms = Apply(new, e)
  BY <1>1, <1>2 DEF Applicable, AppendEvent
<1>6. Applied(ms, new, e, Len(new.events) + 1) /\ ms.ok
  <2>1. Applied(ms, new, e, Len(new.events) + 1)
    BY <1>1, <1>2, <1>5, ApplyFields
  <2> QED BY <2>1 DEF Applied
<1>7. DOMAIN new.acts = {}
  BY <1>1 DEF NoEntry
<1>8. ms.events = Append(<<>>, e) /\ ms.acts = new.acts
  BY <1>1, <1>2, <1>6 DEF Applied, ActsAfter, ClosedTypes, Resolving
<1>9. Simple(new)
  BY <1>1, <1>3, <1>7 DEF Simple, Plain
<1>10. Fixed => Simple(ms)
  BY <1>1, <1>2, <1>4, <1>6, <1>9, SimpleAppend
<1> QED BY <1>7, <1>8, <1>10 DEF ms, new, e

LEMMA FirstStart ==
  ASSUME opt \in Options, NEW deferred \in BOOLEAN
  PROVE  LET r == Start(1, deferred)
         IN /\ DOMAIN r.ms.acts = {} /\ ~Terminal(r.ms) /\ (Fixed => Simple(r.ms))
            /\ Len(r.ms.events) = 1 => deferred
<1> DEFINE r == Start(1, deferred)
           ms == AppendEvent(NewMutableState, Event("Started", 1))
           s == ScheduleWorkflowTask(ms, 1)
<1>1. /\ Sound(ms, 1) /\ ms.events # <<>> /\ ms.wt.sched = 0 /\ ~Terminal(ms)
      /\ DOMAIN ms.acts = {} /\ Len(ms.events) = 1 /\ (Fixed => Simple(ms))
  BY FirstEvent, FirstSimple
<1>2. r = IF deferred THEN Result(ms, <<>>) ELSE s
  BY DEF Start
<1> HIDE DEF ms
<1>3. CASE deferred
  <2> HIDE DEF r, s
  <2>1. r.ms = ms
    BY <1>2, <1>3 DEF Result
  <2> QED BY <1>1, <1>3, <2>1 DEF r
<1>4. CASE ~deferred
  <2> DEFINE e == Event("TaskScheduled", 1)
  <2>1. s.ms = AppendEvent(ms, e) /\ ms \in MutableStates /\ ms.ok
    BY <1>1 DEF ScheduleWorkflowTask, Result, Sound
  <2>2. e \in Events /\ e.type = "TaskScheduled"
    BY EventFields DEF EventTypes
  <2> HIDE DEF e
  <2>3. Applicable(ms, e) /\ s.ms = Apply(ms, e)
    BY <1>1, <2>1, <2>2 DEF Applicable, AppendEvent
  <2>4. s.ms.ok /\ Applied(s.ms, ms, e, Len(ms.events) + 1)
    <3>1. Applied(s.ms, ms, e, Len(ms.events) + 1)
      BY <2>1, <2>2, <2>3, ApplyFields
    <3> QED BY <3>1 DEF Applied
  <2>5. s.ms.acts = ms.acts /\ Straight(ms, s)
    BY <1>1, <2>4, ScheduleSound
  <2> HIDE DEF s
  <2>6. s.ms.events = Append(ms.events, e) /\ s.ms.status = ms.status
    BY <2>2, <2>4 DEF Applied, ClosedTypes
  <2>7. Len(s.ms.events) = 2
    BY <1>1, <2>1, <2>6 DEF MutableStates
  <2>8. ~Terminal(s.ms)
    BY <1>1, <2>6 DEF Terminal
  <2>9. Fixed => Simple(s.ms)
    BY <1>1, <2>4, <2>5 DEF Straight
  <2>10. r = s
    BY <1>2, <1>4
  <2> HIDE DEF r
  <2> QED BY <1>1, <2>5, <2>7, <2>8, <2>9, <2>10 DEF r
<1> QED BY <1>3, <1>4

LEMMA InitWatched == ASSUME Init PROVE WInv
<1>1. IInv /\ opt \in Options /\ page = {} /\ del = NoKey /\ now = 1
  BY InitInv DEF Init
<1> DEFINE First(d) == Start(1, d)
           Arm(d) == IF d THEN {Timer("WorkflowRetry", 1, 1 + Backoff, 0)} ELSE {}
           Want(d) == DesiredTimers(First(d).ms, {}, Arm(d), {})
<1>2. PICK d \in BOOLEAN :
        /\ hist = First(d).ms.events
        /\ index = Want(d)
        /\ cache = IF d THEN NoState ELSE [ms |-> First(d).ms, armed |-> Want(d)]
        /\ refs = Dispatched(First(d).ms, First(d).eff)
  BY DEF Init
<1> DEFINE m == First(d).ms
           arm == Arm(d)
           want == Want(d)
           eff == First(d).eff
           c == [ms |-> m, armed |-> want]
<1>3. Sound(m, 1) /\ Awake(m) /\ m.events # <<>> /\ eff \in Seq(Effects)
  BY <1>1, FirstState
<1>4. /\ DOMAIN m.acts = {} /\ ~Terminal(m) /\ (Fixed => Simple(m))
      /\ Len(m.events) = 1 => d
  BY <1>1, FirstStart
<1>5. /\ \A r \in arm : r.kind = "WorkflowRetry"
      /\ d => <<"WorkflowRetry", 1>> \in Keys(arm)
  <2> DEFINE r == Timer("WorkflowRetry", 1, 1 + Backoff, 0)
  <2>1. r.kind = "WorkflowRetry" /\ r.ev = 1 /\ Key(r) = <<"WorkflowRetry", 1>>
    BY DEF Timer, Key
  <2>2. (d => arm = {r}) /\ (~d => arm = {})
    OBVIOUS
  <2> HIDE DEF r, arm
  <2> QED BY <2>1, <2>2 DEF Keys
<1>6. /\ hist = m.events /\ index = want /\ refs = Dispatched(m, eff)
      /\ cache = IF d THEN NoState ELSE c
  BY <1>2
<1>7. want = DesiredTimers(m, {}, arm, {})
  OBVIOUS
<1> HIDE DEF m, arm, want, eff
<1>8. want = DerivedTimers(m) \cup arm
  BY <1>4, <1>5, <1>7, FreshWants
<1>9. m \in MutableStates /\ m.events \in Seq(Events)
  BY <1>3 DEF Sound, MutableStates
<1>10. c # NoState /\ c.armed = want /\ StateOf(c, hist) = m
  BY <1>3, CacheIs
<1> HIDE DEF c
<1>11. RunWatched(m, want)
  <2>1. RunTimers(m) \subseteq want
    BY <1>8, <1>9, RunTimersDerived
  <2>2. d => <<"WorkflowRetry", 1>> \in Keys(want)
    BY <1>5, <1>8 DEF Keys
  <2> QED BY <1>4, <2>1, <2>2 DEF RunWatched
<1>12. ASSUME Fixed PROVE FixedWatch(c, hist, index, {}) /\ RefsPlain(refs) /\ Offered(m, refs)
  <2>1. Simple(m) /\ Plain(m)
    BY <1>4, <1>12 DEF Simple
  <2>2. PlainTimers(DerivedTimers(m), hist)
    BY <1>1, <1>3, <1>6, <1>12, <2>1, DerivedPlain
  <2>3. PlainTimers(want, hist) /\ PlainTimers({}, hist)
    BY <1>5, <1>8, <2>2 DEF PlainTimers, PlainTimer
  <2>4. ActsWatched(m, want) /\ Offered(m, refs)
    BY <1>4 DEF ActsWatched, Offered
  <2>5. RefsPlain(refs)
    BY <1>3, <1>6, <2>1, DispatchedRefs
  <2> QED BY <1>6, <1>10, <2>1, <2>3, <2>4, <2>5 DEF FixedWatch, ArmedOf
<1>13. StoreWatch(c, hist, index, NoKey, {}) /\ RefWatch(c, hist, refs, lost)
  BY <1>6, <1>10, <1>11, <1>12 DEF StoreWatch, RefWatch, DelFits
<1>14. Kept(c, hist, index, 1)
  <2>1. TimersFit(want, m.events)
    BY <1>1, <1>6, StateIs DEF Kept
  <2> QED BY <1>3, <1>6, <1>9, <1>10, <2>1 DEF Kept, Standing
<1>15. StoreWatch(NoState, hist, index, NoKey, {}) /\ RefWatch(NoState, hist, refs, lost)
  BY <1>1, <1>13, <1>14, EvictWatches, EvictedRefs
<1> QED BY <1>1, <1>6, <1>13, <1>15 DEF WInv

LEMMA NextWatched == ASSUME WInv, [Next]_vars PROVE WInv'
<1>1. IInv /\ IInv' /\ opt' = opt
  BY NextInv DEF WInv, Next, vars
<1>2. CASE UNCHANGED vars
  BY <1>1, <1>2, QuietSteps
<1>3. CASE Next
  <2>1. Step
    BY <1>3 DEF Next
  <2>2. CASE SignalWorkflow \/ CancelWorkflow \/ TerminateWorkflow
    BY <1>1, <2>2, ClientCall, SteadyCall
  <2>3. ASSUME NEW ref \in BagToSet(refs), NEW w \in Workers, PollWorkflowTask(w, ref) PROVE WInv'
    BY <1>1, <2>3, PollTaskWatches
  <2>4. ASSUME NEW ref \in BagToSet(refs), PollActivityTask(ref) PROVE WInv'
    BY <1>1, <2>4, PollActivityWatches
  <2>5. CASE (\E ref \in BagToSet(refs) : LoseRef(ref)) \/ (\E h \in held : WorkerCrash(h)) \/ Tick
    BY <1>1, <2>5, QuietSteps
  <2>6. ASSUME NEW h \in held,
               \/ h.kind = "wf" /\ \E b \in Batches(h.ev) : RespondWorkflowTaskCompleted(h, b)
               \/ RespondWorkflowTaskFailed(h)
        PROVE  WInv'
    BY <1>1, <2>6, TaskAnswers, SteadyCall
  <2>7. ASSUME NEW h \in held,
               \/ RespondActivityTaskCompleted(h)
               \/ \E retryable \in BOOLEAN : RespondActivityTaskFailed(h, retryable)
               \/ RespondActivityTaskCanceled(h)
               \/ Heartbeat(h)
        PROVE  WInv'
    BY <1>1, <2>7, ActivityAnswers, SteadyCall
  <2>8. CASE Scan \/ Delete \/ DeleteFails
    BY <1>1, <2>8, ScanWatches
  <2>9. ASSUME NEW r \in page, Dispatch(r) PROVE WInv'
    BY <1>1, <2>9, DispatchWatches
  <2>10. CASE Evict \/ (\E r \in page : DispatchFails(r))
    BY <1>1, <2>10, EvictionSteps
  <2>11. CASE Restart
    BY <1>1, <2>11, RestartWatches
  <2> QED BY <2>1, <2>2, <2>3, <2>4, <2>5, <2>6, <2>7, <2>8, <2>9, <2>10, <2>11 DEF Step
<1> QED BY <1>2, <1>3

LEMMA WatchHolds == Spec => []WInv
BY InitWatched, NextWatched, PTL DEF Spec

\* An open run never waits for a clock nobody watches: through failed calls, dropped cache
\* entries, restarts, stale pages and entries deleted by key, a started task, each user timer,
\* the run timeout and a deferred first task keep their index entry.  Where nothing moves an
\* activity's clock, so does a pending activity that has a timeout, and one that no worker has
\* started has a reference in matching as long as the log loads and matching has lost none.
\* A closed run keeps no entry (commit, the timer handlers, Recover).
THEOREM WakerAlways == Spec => []HasWaker
<1>1. ASSUME WInv PROVE HasWaker
  <2>1. /\ State = StateOf(cache, hist) /\ State.events = hist
        /\ RunWatched(State, index) /\ (Fixed => ActsWatched(State, index))
        /\ Fixed /\ lost = 0 /\ Loads => Offered(State, refs)
    BY <1>1, StateIs, LoadsIs DEF WInv, StoreWatch, FixedWatch, RefWatch
  <2>2. RunHasWaker
    BY <2>1 DEF RunHasWaker, RunWatched, RunTimers
  <2>3. ActivityHasWaker
    BY <2>1 DEF ActivityHasWaker, ActsWatched, Offered, Fixed, BagToSet
  <2>4. Terminal(State) => index = {}
    BY <2>1 DEF RunWatched
  <2> QED BY <2>2, <2>3, <2>4 DEF HasWaker
<1> QED BY <1>1, WatchHolds, PTL
===============================================================================
