------------------------------- MODULE MCEngine --------------------------------
(***************************************************************************)
(* The settings under which TLC explores Engine.                           *)
(***************************************************************************)
EXTENDS Engine

CONSTANTS w1, w2, a1, t1

\* The limit on a log is low enough for the faults to come before and after it.
Base ==
  [Workers |-> {w1}, ActivityIds |-> {}, TimerIds |-> {}, CommandKinds |-> {},
   ClientCalls |-> {}, MaxCommands |-> 1, MaxSignals |-> 1, MaxLost |-> 0, MaxFaults |-> 1,
   MaxTime |-> 2, Redispatch |-> 1, TaskTimeout |-> 1, RunTimeout |-> 0,
   ScheduleToStart |-> 0, StartToClose |-> 1, ScheduleToClose |-> 0,
   HeartbeatTimeout |-> 0, TimerDelay |-> 1, Backoff |-> 1, MaxAttempts |-> 2,
   MaxHistoryEvents |-> 9]

\* A user timer and a signal.  The run timeout lies beyond the clock bound: its entry
\* must be armed and never fires.
Delays == [Base EXCEPT !.TimerIds = {t1}, !.CommandKinds = {"StartTimer", "CancelTimer"},
            !.ClientCalls = {"signal"}, !.RunTimeout = 2]

\* Two workers that have an identity, and two of which one has none.
TwoWorkers == [Base EXCEPT !.Workers = {w1, w2}, !.ClientCalls = {"signal"}]
Anonymous == [Base EXCEPT !.Workers = {w1, ""}, !.CommandKinds = {"Complete"}]

\* Every way a run closes, by a batch of commands, by a client or by its run timeout.
Closes == [Base EXCEPT !.CommandKinds = {"Cancel", "ContinueAsNew", "Marker"},
            !.ClientCalls = {"cancel", "terminate"}, !.MaxCommands = 2, !.TaskTimeout = 2,
            !.RunTimeout = 1]

\* One activity with heartbeat, start-to-close and schedule-to-start timeouts, two
\* attempts and a lost reference.
Retrying == [Base EXCEPT !.ActivityIds = {a1}, !.CommandKinds = {"ScheduleActivity"},
            !.MaxLost = 1, !.MaxTime = 3, !.TaskTimeout = 4, !.ScheduleToStart = 1,
            !.StartToClose = 2, !.HeartbeatTimeout = 1]

\* One activity with a single attempt: with a start-to-close timeout and a lost
\* reference, with a schedule-to-close timeout, or cancelled once a signal has woken
\* the workflow.
OneAttempt == [Base EXCEPT !.ActivityIds = {a1}, !.CommandKinds = {"ScheduleActivity"},
            !.TaskTimeout = 3, !.MaxAttempts = 1, !.MaxLost = 1]
OneBudget == [OneAttempt EXCEPT !.StartToClose = 2, !.ScheduleToClose = 1]
Canceling == [OneAttempt EXCEPT !.CommandKinds = {"ScheduleActivity", "CancelActivity"},
            !.ClientCalls = {"signal"}, !.MaxLost = 0, !.MaxFaults = 0]

\* Tasks, an activity with retries and the run timeout, with room for the clock.
Longer == [Base EXCEPT !.ActivityIds = {a1}, !.CommandKinds = {"ScheduleActivity"},
            !.MaxTime = 3, !.RunTimeout = 2, !.MaxFaults = 0]

MCOptions == {Delays, TwoWorkers, Anonymous, Closes, Retrying, OneAttempt, OneBudget,
              Canceling, Longer}
===============================================================================
