------------------------------- MODULE History --------------------------------
(***************************************************************************)
(* pkg/history: the append-only event log of one workflow run.  An event's *)
(* ID is its position in the log.  Payloads, names and reasons are left    *)
(* out; an event keeps what the state machine and the validator read.      *)
(*                                                                         *)
(*   type   the event type                                                 *)
(*   time   the instant it was recorded                                    *)
(*   ref    the scheduled or started event it answers, 0 for none          *)
(*   by     the WorkflowTaskCompleted event whose command produced it      *)
(*   start  the ActivityTaskStarted event a completion names               *)
(*   id     activity ID, timer ID or worker identity, "" for none          *)
(*   n      the attempt of an ActivityTaskStarted                          *)
(*   seen   how much of the log the worker had replayed when it answered   *)
(*          (a history variable: the protocol does not send it)            *)
(***************************************************************************)
EXTENDS Naturals, Sequences

Event(type, time) ==
  [type |-> type, time |-> time, ref |-> 0, by |-> 0, start |-> 0, id |-> "",
   n |-> 0, seen |-> 0]

ClosedTypes == {"Completed", "Failed", "TimedOut", "Canceled", "Terminated",
                "ContinuedAsNew"}

\* Events a workflow task's commands produce; each names that task.
CommandTypes == {"ActScheduled", "ActCancelRequested", "TimerStarted",
                 "TimerCanceled", "Marker", "Completed", "Failed", "Canceled",
                 "ContinuedAsNew"}

\* What the back-reference of an event must point at.
RefType(type) ==
  CASE type = "TaskStarted" -> "TaskScheduled"
    [] type \in {"TaskCompleted", "TaskFailed", "TaskTimedOut"} -> "TaskStarted"
    [] type \in {"ActStarted", "ActCompleted", "ActFailed", "ActTimedOut",
                 "ActCancelRequested", "ActCanceled"} -> "ActScheduled"
    [] type \in {"TimerFired", "TimerCanceled"} -> "TimerStarted"
    [] OTHER -> "none"

PointsTo(h, i, j, type) == j \in 1 .. (i - 1) /\ h[j].type = type

\* What History.Validate asks of the events themselves.  Time cannot go backwards in
\* a log: both stores refuse an append that is stamped before the last event.
WellFormed(h) ==
  h # <<>> =>
    /\ h[1].type = "Started"
    /\ \A i \in DOMAIN h :
         /\ h[i].time > 0
         /\ i > 1 => h[i].time >= h[i - 1].time /\ h[i].type # "Started"
         /\ h[i].type \in ClosedTypes => i = Len(h)
         /\ RefType(h[i].type) # "none" => PointsTo(h, i, h[i].ref, RefType(h[i].type))
         /\ h[i].type \in CommandTypes => PointsTo(h, i, h[i].by, "TaskCompleted")
         /\ h[i].type = "ActCompleted" => PointsTo(h, i, h[i].start, "ActStarted")
===============================================================================
