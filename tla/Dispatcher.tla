------------------------------ MODULE Dispatcher ------------------------------
(***************************************************************************)
(* internal/workflow's cooperative scheduler and what coroutines block on: *)
(* channels, futures, selectors, conditions and cancellable contexts.      *)
(*                                                                         *)
(* The dispatcher runs one coroutine at a time, in order, pass after pass, *)
(* until a whole pass makes no progress; a coroutine keeps control until   *)
(* the call it is in cannot go on.  There is no wait queue: a wake-up is   *)
(* the progress flag making the dispatcher try every coroutine once more.  *)
(*                                                                         *)
(* Workflow code is any set of short programs over one channel, one signal *)
(* channel, one future with a future chained to it, one plain variable and *)
(* a context with a child.                                                 *)
(*                                                                         *)
(*   w      the world: coroutines, the objects they share, the progress    *)
(*          flag, and what was sent to and received from the channel       *)
(*   turn   the coroutine the current pass executes next                   *)
(*   phase  "idle", "pass", or why the dispatcher stopped for good         *)
(*   events signals and results the history has delivered (a bound)        *)
(***************************************************************************)
EXTENDS Naturals, FiniteSets, SequencesExt

CONSTANTS
  Programs,                     \* sets of programs, one per coroutine of the workflow
  Capacities,                   \* capacities the channel may have
  MaxEvents                     \* bound: signals and results delivered

\* The calls workflow code makes, the ones that may block first.
Blocking == {"send", "recv", "recvSignal", "get", "select", "await", "recvDone"}
Ops == Blocking \cup {"close", "set", "selectDefault", "write", "withCancel", "cancel", "go"}

\* A program makes at least one call; one that makes none touches nothing modelled here.
ASSUME DispatcherAssumption ==
  /\ \A progs \in Programs : progs \in Seq(Seq(Ops) \ {<<>>})
  /\ Capacities \subseteq Nat /\ MaxEvents \in Nat

VARIABLES w, turn, phase, events
vars == <<w, turn, phase, events>>

Coroutine(code) == [code |-> code, pc |-> 1, entered |-> FALSE, done |-> FALSE]

NewWorld(progs, cap) ==
  [co |-> [k \in DOMAIN progs |-> Coroutine(progs[k])], cap |-> cap,
   progress |-> FALSE, panic |-> FALSE,
   buffer |-> <<>>, senders |-> <<>>, chClosed |-> FALSE, sent |-> <<>>, received |-> <<>>,
   signals |-> 0, future |-> FALSE, chained |-> FALSE, x |-> FALSE,
   root |-> FALSE, child |-> "none"]

MarkProgress(v) == [v EXCEPT !.progress = TRUE]
Panic(v) == [v EXCEPT !.panic = TRUE]

-------------------------------------------------------------------------------
\* Channels.  A value is the coroutine that sends it and its place in the program.

Value(v, k) == <<k, v.co[k].pc>>

\* Fault: a blocked sender does not move up when the buffer has room again.
PromoteSenderNever(v) == v

PromoteSender(v) ==
  IF v.cap = 0 \/ v.senders = <<>> \/ Len(v.buffer) >= v.cap THEN v
  ELSE [v EXCEPT !.senders = Tail(@), !.buffer = Append(@, Head(v.senders))]

\* Fault: a blocked sender is served before what is buffered.
ReceiveAsyncSenderFirst(v) ==
  IF v.senders # <<>>
    THEN MarkProgress([v EXCEPT !.senders = Tail(@), !.received = Append(@, Head(v.senders))])
    ELSE MarkProgress([v EXCEPT !.buffer = Tail(@), !.received = Append(@, Head(v.buffer))])

\* The buffer first, then the sender blocked longest.
ReceiveAsync(v) ==
  MarkProgress(
    IF v.buffer # <<>>
      THEN PromoteSender([v EXCEPT !.buffer = Tail(@), !.received = Append(@, Head(v.buffer))])
      ELSE [v EXCEPT !.senders = Tail(@), !.received = Append(@, Head(v.senders))])

\* Fault: a full channel takes one value more.
HasRoomForOneMore(v) == Len(v.buffer) <= v.cap

HasRoom(v) == Len(v.buffer) < v.cap

\* SendAsync, or else a place among the blocked senders.
SendOrBlock(v, k) ==
  IF v.chClosed THEN Panic(v)
  ELSE LET s == [v EXCEPT !.sent = Append(@, Value(v, k))]
       IN IF HasRoom(v)
            THEN MarkProgress([s EXCEPT !.buffer = Append(@, Value(v, k))])
            ELSE [s EXCEPT !.senders = Append(@, Value(v, k))]

Pending(v, k) == \E i \in DOMAIN v.senders : v.senders[i] = Value(v, k)

CloseChannel(v) == IF v.chClosed THEN Panic(v) ELSE MarkProgress([v EXCEPT !.chClosed = TRUE])

-------------------------------------------------------------------------------
\* Futures and contexts.

\* Set: the first one counts, and the chained future follows.
SetFuture(v) ==
  IF v.future THEN v ELSE MarkProgress([v EXCEPT !.future = TRUE, !.chained = TRUE])

\* Fault: a context made from a cancelled one starts out live.
WithCancelLive(v) == IF v.child # "none" THEN v ELSE [v EXCEPT !.child = "live"]

\* A child of a cancelled context is cancelled from the start.
WithCancel(v) ==
  IF v.child # "none" THEN v
  ELSE IF v.root THEN MarkProgress([v EXCEPT !.child = "canceled"])
  ELSE [v EXCEPT !.child = "live"]

\* cancel: the Done channels close, the child's too.
Cancel(v) ==
  IF v.root THEN v
  ELSE MarkProgress([v EXCEPT !.root = TRUE, !.child = IF @ = "live" THEN "canceled" ELSE @])

-------------------------------------------------------------------------------
\* What a call waits for and what it does.

\* Can the blocking call go on?
Ready(v, k, op) ==
  CASE op = "send" -> ~Pending(v, k)
    [] op = "recv" -> v.buffer # <<>> \/ v.senders # <<>> \/ v.chClosed
    [] op = "recvSignal" -> v.signals > 0
    [] op = "get" -> v.chained
    [] op = "select" -> v.signals > 0 \/ v.future
    [] op = "await" -> v.x \/ v.root
    [] op = "recvDone" -> IF v.child = "none" THEN v.root ELSE v.child = "canceled"
    [] OTHER -> TRUE

\* Fault: only a call that finds nothing to do at once counts as progress.
EnterUnmarked(v, k, op) ==
  IF op = "send" THEN SendOrBlock(v, k) ELSE v

\* Entering a blocking call counts as progress; a send also queues its value.
Enter(v, k, op) ==
  IF op = "send" THEN SendOrBlock(MarkProgress(v), k)
  ELSE IF op \in Blocking THEN MarkProgress(v)
  ELSE v

\* What the call does once it can go on.
Perform(v, k, op) ==
  CASE op = "recv" -> IF v.buffer # <<>> \/ v.senders # <<>> THEN ReceiveAsync(v) ELSE v
    [] op = "recvSignal" -> MarkProgress([v EXCEPT !.signals = @ - 1])
    [] op = "select" -> IF v.signals > 0 THEN MarkProgress([v EXCEPT !.signals = @ - 1]) ELSE v
    [] op = "selectDefault" ->
         MarkProgress(IF v.signals > 0 THEN [v EXCEPT !.signals = @ - 1] ELSE v)
    [] op = "close" -> CloseChannel(v)
    [] op = "set" -> SetFuture(v)
    [] op = "write" -> [v EXCEPT !.x = TRUE]
    [] op = "withCancel" -> WithCancel(v)
    [] op = "cancel" -> Cancel(v)
    [] OTHER -> v

\* NewCoroutine appends; the pass under way reaches it too.
Spawn(v) == MarkProgress([v EXCEPT !.co = Append(@, Coroutine(<<"write", "recv">>))])

\* Fault: trying a blocked call again counts as progress.
YieldMarking(v, k) == MarkProgress([v EXCEPT !.co[k].entered = TRUE])

Yield(v, k) == [v EXCEPT !.co[k].entered = TRUE]

\* One call of coroutine k: entered once, retried until it can go on.
Call(v, k) ==
  LET op == v.co[k].code[v.co[k].pc]
      e == IF v.co[k].entered THEN v ELSE Enter(v, k, op)
  IN IF e.panic THEN e
     ELSE IF ~Ready(e, k, op)
       THEN IF op = "send" /\ e.chClosed THEN Panic(e) ELSE Yield(e, k)
     ELSE [(IF op = "go" THEN Spawn(e) ELSE Perform(e, k, op))
             EXCEPT !.co[k].pc = @ + 1, !.co[k].entered = FALSE]

\* The code of coroutine k has run to its end.
Finished(v, k) == v.co[k].pc > Len(v.co[k].code)

-------------------------------------------------------------------------------
\* The dispatcher.

\* ExecuteUntilAllBlocked starts, for a workflow task.
BeginRun ==
  /\ phase = "idle" /\ events.fresh
  /\ phase' = "pass" /\ turn' = 1
  /\ w' = [w EXCEPT !.progress = FALSE]
  /\ events' = [events EXCEPT !.fresh = FALSE]

\* execute: the coroutine keeps control until its call cannot go on, its code ends or
\* it panics; one step is one call.
Execute ==
  /\ phase = "pass" /\ turn <= Len(w.co) /\ ~w.co[turn].done
  /\ LET r == Call(w, turn)
     IN /\ w' = IF Finished(r, turn) THEN MarkProgress([r EXCEPT !.co[turn].done = TRUE]) ELSE r
        /\ turn' = IF r.co[turn].entered \/ Finished(r, turn) THEN turn + 1 ELSE turn
        /\ phase' = IF r.panic THEN "panicked" ELSE phase
  /\ UNCHANGED events

SkipDone ==
  /\ phase = "pass" /\ turn <= Len(w.co) /\ w.co[turn].done
  /\ turn' = turn + 1
  /\ UNCHANGED <<w, phase, events>>

EndPass ==
  /\ phase = "pass" /\ turn > Len(w.co)
  /\ IF w.progress THEN phase' = phase /\ turn' = 1 ELSE phase' = "idle" /\ turn' = 0
  /\ w' = [w EXCEPT !.progress = FALSE]
  /\ UNCHANGED events

\* Between tasks, history delivers a signal, resolves the future or cancels the root.
Happens(v) ==
  /\ phase = "idle" /\ events.n < MaxEvents
  /\ w' = v
  /\ events' = [n |-> events.n + 1, fresh |-> TRUE]
  /\ UNCHANGED <<turn, phase>>

DeliverSignal == Happens(MarkProgress([w EXCEPT !.signals = @ + 1]))
ResolveFuture == ~w.future /\ Happens(SetFuture(w))
CancelRoot == ~w.root /\ Happens(Cancel(w))

\* Close unwinds every coroutine that is left.
CloseDispatcher ==
  /\ phase \in {"idle", "panicked"} /\ phase' = "closed"
  /\ w' = [w EXCEPT !.co = [k \in DOMAIN @ |-> [@[k] EXCEPT !.done = TRUE]]]
  /\ UNCHANGED <<turn, events>>

-------------------------------------------------------------------------------
Init ==
  /\ \E progs \in Programs, cap \in Capacities : w = NewWorld(progs, cap)
  /\ turn = 0 /\ phase = "idle" /\ events = [n |-> 0, fresh |-> TRUE]

Next ==
  \/ BeginRun \/ Execute \/ SkipDone \/ EndPass
  \/ DeliverSignal \/ ResolveFuture \/ CancelRoot \/ CloseDispatcher

\* The worker's goroutine drives the dispatcher; nothing drives the history.
Spec == Init /\ [][Next]_vars /\ WF_vars(BeginRun \/ Execute \/ SkipDone \/ EndPass)

-------------------------------------------------------------------------------
\* Types: a pass stays within the coroutines it knows, a buffer within its capacity.
TypeOK ==
  /\ phase \in {"idle", "pass", "panicked", "closed"}
  /\ turn \in 0 .. Len(w.co) + 1
  /\ Len(w.buffer) <= w.cap
  /\ \A k \in DOMAIN w.co : w.co[k].pc \in 1 .. Len(w.co[k].code) + 1

\* When the dispatcher reports everything blocked, everything is: no coroutine waits
\* for a value, a future, a condition or a cancellation that is already there
\* (ExecuteUntilAllBlocked relies on every such change marking progress).
NoLostWakeup ==
  phase = "idle" /\ ~events.fresh =>
    \A k \in DOMAIN w.co : ~w.co[k].done =>
      w.co[k].entered /\ ~Ready(w, k, w.co[k].code[w.co[k].pc])

\* The channel loses, repeats and reorders nothing: what was received, what is
\* buffered and what senders still hold is what was sent, in order (ReceiveAsync).
ChannelIsFIFO == w.received \o w.buffer \o w.senders = w.sent

\* A sender is blocked only on a full channel (promoteSender).
BlockedOnlyWhenFull == w.senders # <<>> => Len(w.buffer) = w.cap

\* The channel's books: its buffer within its capacity, its values in order, its
\* senders blocked for a reason (Send, ReceiveAsync, promoteSender).
ChannelSound == TypeOK /\ ChannelIsFIFO /\ BlockedOnlyWhenFull

\* Cancelling a context cancels what was derived from it, before or after (WithCancel).
CancelReachesChildren == w.root => w.child # "live"

\* Nobody sleeps past what he waits for, a cancellation of the context's parent included
\* (ExecuteUntilAllBlocked, WithCancel).
AllBlocked == NoLostWakeup /\ CancelReachesChildren

\* Every call of ExecuteUntilAllBlocked returns: progress cannot be made for ever.
RunsEnd == phase = "pass" ~> phase # "pass"
===============================================================================
