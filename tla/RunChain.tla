------------------------------- MODULE RunChain -------------------------------
(***************************************************************************)
(* The runs of one workflow ID: how internal/engine starts a run, how the  *)
(* stores decide whether it may (request deduplication and the ID reuse    *)
(* policy), and how a closing run is replaced by its successor.            *)
(*                                                                         *)
(* Several engine replicas share one store.  A replica serialises what it  *)
(* does to the workflow ID with a lock the others do not see, so between   *)
(* two replicas only the store's transactions are atomic.  The clock reads *)
(* a new instant for every start, taken before the store sees the run.     *)
(*                                                                         *)
(*   kind   per client, the request it makes                               *)
(*   runs   the execution records; run IDs count creations in the store    *)
(*   cur    the memory store's map entry of the current run, 0 for none    *)
(*   lock   per replica, the call that holds the execution lock, or Free   *)
(*   call   per client, the progress of its request                        *)
(*   now    the last instant a start has read                              *)
(***************************************************************************)
EXTENDS Naturals, FiniteSets

CONSTANTS
  Replicas, Clients,
  Kinds,                        \* requests clients make: operation and ID reuse policy
  MaximumAttempts,              \* of the workflow's retry policy
  MaxRuns,                      \* bound: runs of this workflow ID
  MaxTries                      \* bound: how often a client sends its request

Free == "free"                  \* a lock nobody holds

ASSUME RunChainAssumption ==
  /\ Free \notin Clients
  /\ {MaximumAttempts, MaxRuns, MaxTries} \subseteq Nat \ {0}
  /\ Kinds \subseteq [op : {"start", "signalWithStart"},
                       policy : {"AllowDuplicate", "FailedOnly", "RejectDuplicate",
                                 "TerminateIfRunning"}]

VARIABLES kind, runs, cur, lock, call, now
vars == <<kind, runs, cur, lock, call, now>>

Op(c) == kind[c].op
Policy(c) == kind[c].policy

RunIds == 1 .. MaxRuns
Statuses == {"none", "Running", "Completed", "Failed", "TimedOut", "Terminated",
             "ContinuedAsNew"}
NoRun ==
  [status |-> "none", at |-> 0, req |-> <<>>, attempt |-> 0, retried |-> FALSE, task |-> "none",
   signals |-> {}]

\* Request IDs: a client's own, or successorRequestID of the run that closed.
ClientRequest(c) == <<"client", c>>
SuccessorRequest(i) == <<"successor-of", i>>

Exists(i) == runs[i].status # "none"
Open(i) == runs[i].status = "Running"
Known == {i \in RunIds : Exists(i)}
NextRunId == {Cardinality(Known) + 1} \cap RunIds      \* newID; none beyond the bound
CurrentOpen == cur # 0 /\ Open(cur)

\* byRecency: the newest run starts last; equal instants are told apart by run ID.
Newer(f, i, j) == f[i].at > f[j].at \/ (f[i].at = f[j].at /\ i > j)

\* sqlite's currentRun: the first row in that order.
CurrentRun(f) ==
  LET known == {i \in RunIds : f[i].status # "none"}
  IN IF known = {} THEN 0
     ELSE CHOOSE i \in known : \A j \in known \ {i} : Newer(f, i, j)

-------------------------------------------------------------------------------
\* CreateExecution, by the memory store.

\* Fault: the request ID is not looked up.
DedupNever(req) == {}

\* The run an earlier delivery of this request created.
Dedup(req) == {i \in Known : runs[i].req = req}

\* Fault: only an open run stands in the way of a new one.
RefusedOnlyOpen(policy, closing) == CurrentOpen /\ cur # closing

\* The reuse policy, judged on the current run; closing is the run this very
\* transaction closes, 0 for none.
Refused(policy, closing) ==
  LET open == CurrentOpen /\ cur # closing
  IN /\ cur # 0
     /\ CASE policy = "RejectDuplicate" -> TRUE
          [] policy = "FailedOnly" ->
               open \/ runs[cur].status \in {"Completed", "ContinuedAsNew"}
          [] policy = "TerminateIfRunning" -> FALSE
          [] OTHER -> open

\* Fault: the run created last becomes the current one.
NewCurrentLast(f, i) == i

\* applyCreateLocked.
NewCurrent(f, i) == IF cur = 0 \/ Newer(f, i, cur) THEN i ELSE cur

\* Fault: the store keeps the current run running.
StoreTerminateNot(f, policy) == f

\* Fault: the terminated run keeps its timer.
StoreTerminateKeepsTimer(f, policy) ==
  IF policy = "TerminateIfRunning" /\ CurrentOpen
    THEN [f EXCEPT ![cur].status = "Terminated"] ELSE f

\* terminate: the policy is enforced on the row when the engine has not done it.
StoreTerminate(f, policy) ==
  IF policy = "TerminateIfRunning" /\ CurrentOpen
    THEN [f EXCEPT ![cur].status = "Terminated", ![cur].task = "none"] ELSE f

\* Fault: the signal of a SignalWithStart is left out of the new run's first write.
NewRunUnsignalled(at, req, attempt, task, signals) ==
  [NoRun EXCEPT !.status = "Running", !.at = at, !.req = req, !.attempt = attempt,
                !.task = task]

NewRun(at, req, attempt, task, signals) ==
  [NoRun EXCEPT !.status = "Running", !.at = at, !.req = req, !.attempt = attempt,
                !.task = task, !.signals = signals]

CreateRun(f, i, run) ==
  LET g == [f EXCEPT ![i] = run]
  IN runs' = g /\ cur' = NewCurrent(g, i)

\* The same decisions by the sqlite store, on the row its ordering finds.

TerminateRun(f, i) == [f EXCEPT ![i].status = "Terminated", ![i].task = "none"]

\* The rows after the policy has been applied, or {} when it refuses.
ApplyReusePolicy(f, policy) ==
  LET prev == CurrentRun(f)
      open == f[prev].status = "Running"
  IN IF prev = 0 THEN {f}
     ELSE CASE policy = "RejectDuplicate" -> {}
            [] policy = "FailedOnly" ->
                 IF open \/ f[prev].status \in {"Completed", "ContinuedAsNew"} THEN {} ELSE {f}
            [] policy = "TerminateIfRunning" -> IF open THEN {TerminateRun(f, prev)} ELSE {f}
            [] OTHER -> IF open THEN {} ELSE {f}

-------------------------------------------------------------------------------
\* StartWorkflow and SignalWithStartWorkflow.

Request(c, r) ==
  /\ call[c].pc = "idle" /\ call[c].tries < MaxTries
  /\ call' = [call EXCEPT ![c].pc = "lock", ![c].rep = r, ![c].tries = @ + 1]
  /\ UNCHANGED <<kind, runs, cur, lock, now>>

LockExecution(c) ==
  /\ call[c].pc = "lock" /\ lock[call[c].rep] = Free
  /\ lock' = [lock EXCEPT ![call[c].rep] = c]
  /\ call' = [call EXCEPT ![c].pc =
       IF Op(c) = "signalWithStart" THEN "look"
       ELSE IF Policy(c) = "TerminateIfRunning" THEN "terminate" ELSE "stamp"]
  /\ UNCHANGED <<kind, runs, cur, now>>

\* SignalWithStart reads the current run; an open one is only signalled.
LookForOpenRun(c) ==
  /\ call[c].pc = "look"
  /\ call' = [call EXCEPT ![c].pc = IF CurrentOpen THEN "signal" ELSE "stamp",
                          ![c].run = IF CurrentOpen THEN cur ELSE 0]
  /\ UNCHANGED <<kind, runs, cur, lock, now>>

SignalOpenRun(c) ==
  LET i == call[c].run
  IN /\ call[c].pc = "signal"
     /\ call' = [call EXCEPT ![c].pc = IF Open(i) THEN "done" ELSE "failed"]
     /\ runs' = IF Open(i) THEN [runs EXCEPT ![i].signals = @ \cup {c}] ELSE runs
     /\ UNCHANGED <<kind, cur, lock, now>>

\* terminateIfRunningLocked.
TerminateIfRunning(c) ==
  /\ call[c].pc = "terminate"
  /\ runs' = IF CurrentOpen THEN [runs EXCEPT ![cur].status = "Terminated",
                                              ![cur].task = "none"] ELSE runs
  /\ call' = [call EXCEPT ![c].pc = "stamp"]
  /\ UNCHANGED <<kind, cur, lock, now>>

\* buildCreate reads the clock for the new run's StartedAt.
BuildCreate(c) ==
  /\ call[c].pc = "stamp"
  /\ now' = now + 1
  /\ call' = [call EXCEPT ![c].pc = "create", ![c].at = now + 1]
  /\ UNCHANGED <<kind, runs, cur, lock>>

\* createRunLocked.  A deduplicated SignalWithStart goes on to SignalWorkflow,
\* which asks for the lock this very call is holding and never gets it.
CreateExecution(c) ==
  LET req == ClientRequest(c)
      signals == IF Op(c) = "signalWithStart" THEN {c} ELSE {}
  IN /\ call[c].pc = "create"
     /\ \/ /\ Dedup(req) # {}
           /\ call' = [call EXCEPT ![c].run = CHOOSE i \in Dedup(req) : TRUE,
                ![c].pc = IF Op(c) = "signalWithStart" THEN "relock" ELSE "done"]
           /\ UNCHANGED <<runs, cur>>
        \/ /\ Dedup(req) = {} /\ Refused(Policy(c), 0)
           /\ call' = [call EXCEPT ![c].pc = "failed"]
           /\ UNCHANGED <<runs, cur>>
        \/ /\ Dedup(req) = {} /\ ~Refused(Policy(c), 0)
           /\ \E i \in NextRunId :
                /\ CreateRun(StoreTerminate(runs, Policy(c)), i,
                             NewRun(call[c].at, req, 1, "ready", signals))
                /\ call' = [call EXCEPT ![c].pc = "done", ![c].run = i]
     /\ UNCHANGED <<kind, lock, now>>

\* Nothing of the call is left but how often it was made.
Over(c, pc) == [pc |-> pc, rep |-> Free, run |-> 0, at |-> 0, tries |-> call[c].tries]

\* The call returns.  Its reply may be lost, and then the client asks again.
Return(c) ==
  /\ call[c].pc \in {"done", "failed"}
  /\ lock' = [lock EXCEPT ![call[c].rep] = Free]
  /\ call' = [call EXCEPT ![c] = Over(c, IF @.pc = "done" THEN "accepted" ELSE "rejected")]
  /\ UNCHANGED <<kind, runs, cur, now>>

LoseReply(c) ==
  /\ call[c].pc \in {"done", "failed"} /\ call[c].tries < MaxTries
  /\ lock' = [lock EXCEPT ![call[c].rep] = Free]
  /\ call' = [call EXCEPT ![c] = Over(c, "idle")]
  /\ UNCHANGED <<kind, runs, cur, now>>

\* A replica restarts: its lock is gone and so are the calls it was serving.
Crash(r) ==
  LET lostCalls == {c \in Clients : call[c].rep = r
                        /\ call[c].pc \notin {"idle", "accepted", "rejected"}}
  IN /\ lostCalls # {} /\ \A c \in lostCalls : call[c].tries < MaxTries
     /\ lock' = [lock EXCEPT ![r] = Free]
     /\ call' = [c \in Clients |->
          IF c \in lostCalls THEN Over(c, "idle") ELSE call[c]]
     /\ UNCHANGED <<kind, runs, cur, now>>

-------------------------------------------------------------------------------
\* A run closes, through any replica whose lock is free.

CloseRun(i, status) ==
  /\ Open(i) /\ \E r \in Replicas : lock[r] = Free
  /\ runs' = [runs EXCEPT ![i].status = status, ![i].task = "none"]
  /\ UNCHANGED <<kind, cur, lock, call, now>>

\* planSuccessor: the reuse policy of a successor is AllowDuplicate, and the run this
\* write closes does not stand in its way.
PlanSuccessor(i) == Dedup(SuccessorRequest(i)) = {} /\ ~Refused("AllowDuplicate", i)

\* Fault: the run is closed first and its successor left to a later write.
CloseWithSuccessorLater(i, status, attempt, task) == CloseRun(i, status)

\* finalizeEffects, successorPlan: the successor is created by the append that
\* closes its predecessor.
CloseWithSuccessor(i, status, attempt, task) ==
  /\ Open(i) /\ \E r \in Replicas : lock[r] = Free
  /\ PlanSuccessor(i)
  /\ now' = now + 1
  /\ \E j \in NextRunId :
       CreateRun([runs EXCEPT ![i].status = status, ![i].task = "none",
                              ![i].retried = status = "Failed"], j,
                 NewRun(now + 1, SuccessorRequest(i), attempt, task, {}))
  /\ UNCHANGED <<kind, lock, call>>

ContinueAsNew(i) == CloseWithSuccessor(i, "ContinuedAsNew", 1, "ready")

\* The retry policy is asked first, and the failed event says what it decided; a
\* retried run waits for its backoff.  No retry: attempts used up, a failure that is
\* not retryable, or a deadline that comes before the backoff ends.
FailExecution(i) ==
  \/ /\ runs[i].attempt < MaximumAttempts
     /\ CloseWithSuccessor(i, "Failed", runs[i].attempt + 1, "deferred")
  \/ CloseRun(i, "Failed")

\* startDeferredRun.
StartDeferredRun(i) ==
  /\ Open(i) /\ runs[i].task = "deferred"
  /\ \E r \in Replicas : lock[r] = Free
  /\ runs' = [runs EXCEPT ![i].task = "ready"]
  /\ UNCHANGED <<kind, cur, lock, call, now>>

-------------------------------------------------------------------------------
Init ==
  /\ kind \in [Clients -> Kinds]
  /\ runs = [i \in RunIds |-> NoRun]
  /\ cur = 0 /\ now = 0
  /\ lock = [r \in Replicas |-> Free]
  /\ call = [c \in Clients |->
       [pc |-> "idle", rep |-> Free, run |-> 0, at |-> 0, tries |-> 0]]

Next ==
  \/ \E c \in Clients :
       \/ \E r \in Replicas : Request(c, r)
       \/ LockExecution(c) \/ LookForOpenRun(c) \/ SignalOpenRun(c)
       \/ TerminateIfRunning(c) \/ BuildCreate(c) \/ CreateExecution(c)
       \/ Return(c) \/ LoseReply(c)
  \/ \E r \in Replicas : Crash(r)
  \/ \E i \in RunIds :
       \/ \E status \in {"Completed", "TimedOut"} : CloseRun(i, status)
       \/ ContinueAsNew(i) \/ FailExecution(i) \/ StartDeferredRun(i)

Spec == Init /\ [][Next]_vars

-------------------------------------------------------------------------------
\* Types.  A task waits only for an open run, and only the holder of a replica's
\* lock is between taking and releasing it (lockExecution).
TypeOK ==
  /\ \A i \in RunIds :
       /\ runs[i].status \in Statuses /\ runs[i].at \in 0 .. now
       /\ runs[i].attempt \in 0 .. MaximumAttempts
       /\ runs[i].task \in {"none", "ready", "deferred"}
       /\ runs[i].task # "none" <=> Open(i)
  /\ cur \in RunIds \cup {0}
  /\ \A c \in Clients :
       call[c].pc \notin {"idle", "lock", "accepted", "rejected"} => lock[call[c].rep] = c

\* The order the store created runs in is the order of their start times.  Two
\* replicas can break it: each reads its clock before the store decides.
InOrder == \A i, j \in Known : i < j => runs[i].at < runs[j].at

\* While starts reach the store in the order of their stamps, a workflow ID has at
\* most one open run and it is the current one, through retries, crashes, reuse
\* policies and successors (resolveCreateLocked).
OpenIsCurrent == InOrder => \A i \in RunIds : Open(i) => cur = i

\* The runs of a workflow ID fit together: types, tasks and locks, and the one open run.
RunsSound == TypeOK /\ OpenIsCurrent

\* The two stores agree on the current run, the map entry of one being the row the
\* other's ordering finds, and on what every policy would do to the next start and to
\* the successor of any run (resolveCreateLocked, applyReusePolicy).
StoresAgree ==
  /\ cur = CurrentRun(runs)
  /\ \A policy \in {"AllowDuplicate", "FailedOnly", "RejectDuplicate", "TerminateIfRunning"} :
       ApplyReusePolicy(runs, policy) =
         IF Refused(policy, 0) THEN {} ELSE {StoreTerminate(runs, policy)}
  /\ \A i \in Known : Open(i) =>
       (Refused("AllowDuplicate", i)
          <=> ApplyReusePolicy([runs EXCEPT ![i].status = "Failed"], "AllowDuplicate") = {})

\* A request creates one run however often it is delivered, and a run has at most
\* one successor (resolveCreateLocked, successorRequestID).
RequestOnce == \A i, j \in Known : runs[i].req = runs[j].req => i = j

\* A run that handed over, or failed to be retried, has its successor from the
\* moment it is closed (finalizeEffects, failExecution).
HandedOver ==
  \A i \in Known :
    runs[i].status = "ContinuedAsNew" \/ runs[i].retried
    => \E j \in Known : runs[j].req = SuccessorRequest(i)

\* An accepted SignalWithStart left its signal in some run, whether it created the
\* run, found it open or was repeated (SignalWithStartWorkflow).
SignalsDelivered ==
  \A c \in Clients : call[c].pc = "accepted" /\ Op(c) = "signalWithStart" =>
    \E i \in Known : c \in runs[i].signals

\* What was asked for is there, once: the run of a request, the successor of a run that
\* handed over, the signal of an accepted call (StartWorkflow, SignalWithStartWorkflow).
RequestsKept == RequestOnce /\ HandedOver /\ SignalsDelivered

\* A start never takes the workflow ID over against its policy: RejectDuplicate only
\* as the very first run, FailedOnly only over a run that did not succeed and, while
\* starts arrive in order, nobody but TerminateIfRunning over an open run
\* (applyReusePolicy).
ReuseHonoured ==
  [][\A c \in Clients : Dedup(ClientRequest(c)) = {} /\ Dedup(ClientRequest(c))' # {} =>
       /\ Policy(c) = "RejectDuplicate" => Known = {}
       /\ Policy(c) \in {"FailedOnly", "AllowDuplicate"} /\ InOrder => ~\E i \in Known : Open(i)
       /\ Policy(c) = "FailedOnly" =>
            cur = 0 \/ runs[cur].status \in {"Failed", "TimedOut", "Terminated"}]_vars

\* No call waits for a lock it holds: "the loser falls through to signalling the
\* winner's run" (SignalWithStartWorkflow).  It cannot: SignalWorkflow locks again.
NoSelfWait == \A c \in Clients : ~(call[c].pc = "relock" /\ lock[call[c].rep] = c)
===============================================================================
