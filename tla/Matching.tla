------------------------------- MODULE Matching -------------------------------
(***************************************************************************)
(* One in-memory task queue of internal/matching.  Producers call Add,     *)
(* pollers call Poll; the queue mutex makes offer, takeBacklog, park,      *)
(* unpark and drain atomic, and everything between two of those calls can  *)
(* interleave.  Each task is the argument of one Add call; re-adding the   *)
(* same reference is another task.                                         *)
(***************************************************************************)
EXTENDS Naturals, Sequences, SequencesExt

CONSTANTS
  Tasks,        \* the arguments of the Add calls
  Pollers,      \* goroutines that long-poll the queue
  MaxBacklog,   \* Config.MaxBacklog
  NoTask        \* the empty channel buffer

ASSUME BacklogAssumption == MaxBacklog \in Nat \ {0}
ASSUME NoTaskAssumption == NoTask \notin Tasks

VARIABLES
  adding,     \* progress of each Add call
  backlog,    \* queue.backlog
  waiters,    \* queue.waiters, the parked pollers in arrival order
  settled,    \* pollers whose current waiter has waiter.settled
  ch,         \* waiter.ch, a channel buffering one task
  pc,         \* where each poller is inside poll
  returned,   \* how many polls returned each task
  dropped,    \* tasks drain discarded
  phase       \* "open", then "closed" (channel closed), then "drained"

vars == <<adding, backlog, waiters, settled, ch, pc, returned, dropped, phase>>

Init ==
  /\ adding = [t \in Tasks |-> "no"]
  /\ backlog = <<>>
  /\ waiters = <<>>
  /\ settled = {}
  /\ ch = [p \in Pollers |-> NoTask]
  /\ pc = [p \in Pollers |-> "idle"]
  /\ returned = [t \in Tasks |-> 0]
  /\ dropped = {}
  /\ phase = "open"

-------------------------------------------------------------------------------
\* Add: the closed check, then offer under the queue lock.

BeginAdd(t) ==
  /\ adding[t] = "no"
  /\ adding' = [adding EXCEPT ![t] = IF phase = "open" THEN "checked" ELSE "refused"]
  /\ UNCHANGED <<backlog, waiters, settled, ch, pc, returned, dropped, phase>>

\* The first waiter that is not settled takes the task through its channel;
\* settled ones found before it are unlinked.
SyncMatch(t, k) ==
  /\ waiters[k] \notin settled
  /\ \A j \in 1 .. (k - 1) : waiters[j] \in settled
  /\ waiters' = SubSeq(waiters, k + 1, Len(waiters))
  /\ settled' = settled \cup {waiters[k]}
  /\ ch' = [ch EXCEPT ![waiters[k]] = t]
  /\ adding' = [adding EXCEPT ![t] = "accepted"]
  /\ UNCHANGED backlog

\* Fault: the capacity check is off by one.
EnqueueOverfull(t) ==
  /\ \A j \in DOMAIN waiters : waiters[j] \in settled
  /\ waiters' = <<>>
  /\ Len(backlog) <= MaxBacklog
  /\ adding' = [adding EXCEPT ![t] = "accepted"]
  /\ backlog' = Append(backlog, t)
  /\ UNCHANGED <<settled, ch>>

Enqueue(t) ==
  /\ \A j \in DOMAIN waiters : waiters[j] \in settled
  /\ waiters' = <<>>
  /\ IF Len(backlog) >= MaxBacklog
       THEN /\ adding' = [adding EXCEPT ![t] = "refused"]
            /\ UNCHANGED backlog
       ELSE /\ adding' = [adding EXCEPT ![t] = "accepted"]
            /\ backlog' = Append(backlog, t)
  /\ UNCHANGED <<settled, ch>>

Offer(t) ==
  /\ adding[t] = "checked"
  /\ \/ \E k \in DOMAIN waiters : SyncMatch(t, k)
     \/ Enqueue(t)
  /\ UNCHANGED <<pc, returned, dropped, phase>>

-------------------------------------------------------------------------------
\* Poll: closed check, takeBacklog, park, select, unpark.

BeginPoll(p) ==
  /\ pc[p] = "idle"
  /\ phase = "open"
  /\ pc' = [pc EXCEPT ![p] = "polling"]
  /\ UNCHANGED <<adding, backlog, waiters, settled, ch, returned, dropped, phase>>

\* Fault: the popped task stays in the backlog.
TakeBacklogKeeps(p) ==
  /\ pc[p] = "polling"
  /\ backlog # <<>>
  /\ returned' = [returned EXCEPT ![Head(backlog)] = @ + 1]
  /\ pc' = [pc EXCEPT ![p] = "idle"]
  /\ UNCHANGED <<adding, backlog, waiters, settled, ch, dropped, phase>>

\* Fault: poll parks without looking at the backlog.
TakeBacklogSkipped(p) ==
  /\ pc[p] = "polling"
  /\ pc' = [pc EXCEPT ![p] = "missed"]
  /\ UNCHANGED <<adding, backlog, waiters, settled, ch, returned, dropped, phase>>

TakeBacklog(p) ==
  /\ pc[p] = "polling"
  /\ IF backlog # <<>>
       THEN /\ backlog' = Tail(backlog)
            /\ returned' = [returned EXCEPT ![Head(backlog)] = @ + 1]
            /\ pc' = [pc EXCEPT ![p] = "idle"]
       ELSE /\ pc' = [pc EXCEPT ![p] = "missed"]
            /\ UNCHANGED <<backlog, returned>>
  /\ UNCHANGED <<adding, waiters, settled, ch, dropped, phase>>

Park(p) ==
  /\ pc[p] = "missed"
  /\ waiters' = Append(waiters, p)
  /\ settled' = settled \ {p}
  /\ ch' = [ch EXCEPT ![p] = NoTask]
  /\ pc' = [pc EXCEPT ![p] = "parked"]
  /\ UNCHANGED <<adding, backlog, returned, dropped, phase>>

\* The select's channel branch.
Receive(p) ==
  /\ pc[p] = "parked"
  /\ ch[p] # NoTask
  /\ ch' = [ch EXCEPT ![p] = NoTask]
  /\ returned' = [returned EXCEPT ![ch[p]] = @ + 1]
  /\ pc' = [pc EXCEPT ![p] = "idle"]
  /\ UNCHANGED <<adding, backlog, waiters, settled, dropped, phase>>

\* The select's other branches: poll timeout, caller's context, matcher closed.
\* None of them waits for the channel to be empty.
StopWaiting(p) ==
  /\ pc[p] = "parked"
  /\ pc' = [pc EXCEPT ![p] = "leaving"]
  /\ UNCHANGED <<adding, backlog, waiters, settled, ch, returned, dropped, phase>>

\* list.Remove of the waiter's own element; an unsettled waiter is always listed.
RemoveElem(p) ==
  \E k \in DOMAIN waiters :
    /\ waiters[k] = p
    /\ waiters' = SubSeq(waiters, 1, k - 1) \o SubSeq(waiters, k + 1, Len(waiters))

\* Fault: a poll that timed out ignores what a producer already sent it.
UnparkForgetsBuffer(p) ==
  /\ pc[p] = "leaving"
  /\ pc' = [pc EXCEPT ![p] = "idle"]
  /\ IF p \in settled
       THEN ch' = [ch EXCEPT ![p] = NoTask] /\ UNCHANGED <<waiters, settled>>
       ELSE settled' = settled \cup {p} /\ RemoveElem(p) /\ UNCHANGED ch
  /\ UNCHANGED <<adding, backlog, dropped, phase, returned>>

\* Fault: a poll that gives up leaves its waiter on the FIFO.
UnparkStaysListed(p) ==
  /\ pc[p] = "leaving"
  /\ p \notin settled
  /\ pc' = [pc EXCEPT ![p] = "idle"]
  /\ settled' = settled \cup {p}
  /\ UNCHANGED <<adding, backlog, waiters, ch, dropped, phase, returned>>

Unpark(p) ==
  /\ pc[p] = "leaving"
  /\ pc' = [pc EXCEPT ![p] = "idle"]
  /\ IF p \in settled
       THEN /\ ch' = [ch EXCEPT ![p] = NoTask]
            /\ returned' = IF ch[p] = NoTask THEN returned
                           ELSE [returned EXCEPT ![ch[p]] = @ + 1]
            /\ UNCHANGED <<waiters, settled>>
       ELSE /\ settled' = settled \cup {p}
            /\ RemoveElem(p)
            /\ UNCHANGED <<ch, returned>>
  /\ UNCHANGED <<adding, backlog, dropped, phase>>

-------------------------------------------------------------------------------
\* Close: the closed channel first, then drain under the queue lock.

BeginClose ==
  /\ phase = "open"
  /\ phase' = "closed"
  /\ UNCHANGED <<adding, backlog, waiters, settled, ch, pc, returned, dropped>>

Drain ==
  /\ phase = "closed"
  /\ phase' = "drained"
  /\ dropped' = dropped \cup ToSet(backlog)
  /\ backlog' = <<>>
  /\ settled' = settled \cup ToSet(waiters)
  /\ waiters' = <<>>
  /\ UNCHANGED <<adding, ch, pc, returned>>

Next ==
  \/ \E t \in Tasks : BeginAdd(t) \/ Offer(t)
  \/ \E p \in Pollers :
       \/ BeginPoll(p) \/ TakeBacklog(p) \/ Park(p)
       \/ Receive(p) \/ StopWaiting(p) \/ Unpark(p)
  \/ BeginClose
  \/ Drain

Spec == Init /\ [][Next]_vars

\* Goroutines keep running, an Add in progress returns, the poll timer fires,
\* and a worker that got an empty poll polls again.
Fairness ==
  /\ \A t \in Tasks : WF_vars(Offer(t))
  /\ \A p \in Pollers :
       /\ WF_vars(BeginPoll(p)) /\ WF_vars(TakeBacklog(p)) /\ WF_vars(Park(p))
       /\ WF_vars(StopWaiting(p)) /\ WF_vars(Unpark(p))

FairSpec == Spec /\ Fairness

-------------------------------------------------------------------------------
Queued == ToSet(backlog)
Buffered == {ch[p] : p \in Pollers} \ {NoTask}

\* The shape of the queue's state; the backlog respects Config.MaxBacklog.
TypeOK ==
  /\ adding \in [Tasks -> {"no", "checked", "accepted", "refused"}]
  /\ backlog \in Seq(Tasks)
  /\ Len(backlog) <= MaxBacklog
  /\ waiters \in Seq(Pollers)
  /\ settled \in SUBSET Pollers
  /\ ch \in [Pollers -> Tasks \cup {NoTask}]
  /\ pc \in [Pollers -> {"idle", "polling", "missed", "parked", "leaving"}]
  /\ returned \in [Tasks -> Nat]
  /\ dropped \in SUBSET Tasks
  /\ phase \in {"open", "closed", "drained"}

\* "A task is never lost on poll timeout": a task Add accepted is in exactly one
\* place - the backlog (once), one waiter's channel, one poll's result, or the
\* tasks a shutdown discarded - whatever order offer, the poll timeout, the
\* caller's cancellation and drain run in; a refused task is in none.
Conservation ==
  /\ \A t \in Tasks :
       /\ adding[t] = "accepted" <=>
            t \in Queued \/ t \in Buffered \/ returned[t] > 0 \/ t \in dropped
       /\ returned[t] <= 1
       /\ returned[t] = 1 => t \notin Queued \cup Buffered \cup dropped
  /\ Queued \cap Buffered = {}
  /\ dropped \cap (Queued \cup Buffered) = {}
  /\ IsInjective(backlog)
  /\ \A p, q \in Pollers : ch[p] = ch[q] /\ ch[p] # NoTask => p = q

\* The waiter FIFO lists exactly the pollers that still wait unserved, each once:
\* offer never meets a settled waiter (its skip loop is purely defensive) and
\* never hands a task to a poll that has already returned.
WaitersMatchPolls ==
  /\ ToSet(waiters) = {p \in Pollers : pc[p] \in {"parked", "leaving"}} \ settled
  /\ IsInjective(waiters)
  /\ \A p \in Pollers :
       ch[p] # NoTask => pc[p] \in {"parked", "leaving"} /\ p \in settled

\* The queue's books, which stay balanced only together: its shape and the bound on
\* its backlog, every accepted task in one place, every live waiter in the list
\* (offer, poll, unpark, drain).
QueueSound == TypeOK /\ Conservation /\ WaitersMatchPolls

\* The abstract pool: what is queued or buffered in a channel.
Pool == INSTANCE TaskPool
          WITH pool <- Queued \cup Buffered, open <- phase = "open"

\* The queue implements TaskPool: an accepted task leaves the pool only through
\* one poll's return, or through drain once Close has begun.
ImplementsPool == Pool!Spec

\* While the matcher is open, an accepted task reaches some poll, although the
\* check of the backlog and the parking of the waiter are not one step.
AcceptedIsServed ==
  \A t \in Tasks :
    adding[t] = "accepted" ~> returned[t] = 1 \/ phase # "open"

===============================================================================
