---------------------------- MODULE RunChainProofs ----------------------------
(***************************************************************************)
(* For any number of clients, replicas and runs, the runs of a workflow ID *)
(* fit together as RunChain.tla says.  The argument has two halves.  The   *)
(* rows alone: they are numbered without gaps, the map entry of the memory *)
(* store is the newest of them, and a write either moves the rows that are *)
(* there along (Evolved) or adds one more.  The calls: whoever is past     *)
(* lockExecution holds the lock of a live replica, and has put its signal  *)
(* into a run before it may say so.                                        *)
(***************************************************************************)
EXTENDS RunChain, FiniteSetTheorems, TLAPS

Policies == {"AllowDuplicate", "FailedOnly", "RejectDuplicate", "TerminateIfRunning"}
Pcs == {"idle", "lock", "look", "signal", "terminate", "stamp", "create", "relock", "done",
        "failed", "accepted", "rejected"}
AtRest == {"idle", "accepted", "rejected"}
Ended == {"Completed", "Failed", "TimedOut", "Terminated", "ContinuedAsNew"}

Requests ==
  {<<>>} \cup {ClientRequest(c) : c \in Clients} \cup {SuccessorRequest(i) : i \in RunIds}

Runs == [status : Statuses, at : Nat, req : Requests, attempt : 0 .. MaximumAttempts,
         retried : BOOLEAN, task : {"none", "ready", "deferred"}, signals : SUBSET Clients]

\* The rows: their types, a task exactly for an open run, run IDs without gaps.
Rows ==
  /\ runs \in [RunIds -> Runs] /\ now \in Nat
  /\ \A i \in RunIds : runs[i].at <= now /\ (runs[i].task # "none" <=> Open(i))
  /\ \E n \in Nat : Known = 1 .. n

\* The map entry is the newest row.
Newest ==
  /\ cur \in Known \cup {0}
  /\ cur = 0 => Known = {}
  /\ \A j \in Known : j = cur \/ Newer(runs, cur, j)

RunsInv == Rows /\ Newest /\ OpenIsCurrent /\ RequestOnce /\ HandedOver

CallStates ==
  [pc : Pcs, rep : Replicas \cup {Free}, run : RunIds \cup {0}, at : Nat, tries : Nat]

\* The calls: who holds the lock, which stamps have been read.
Calls ==
  /\ kind \in [Clients -> [op : {"start", "signalWithStart"}, policy : Policies]]
  /\ lock \in [Replicas -> Clients \cup {Free}]
  /\ call \in [Clients -> CallStates]
  /\ \A c \in Clients :
       /\ call[c].at <= now
       /\ call[c].pc \notin AtRest => call[c].rep \in Replicas
       /\ call[c].pc \notin AtRest \cup {"lock"} => lock[call[c].rep] = c
       /\ call[c].pc = "signal" => call[c].run \in Known

\* A SignalWithStart that will be accepted, or was, has left its signal.
Signalled ==
  \A c \in Clients : call[c].pc \in {"done", "accepted"} /\ Op(c) = "signalWithStart" =>
    \E i \in Known : c \in runs[i].signals

Inv == RunsInv /\ Calls /\ Signalled

-------------------------------------------------------------------------------
\* The rows.

\* f is the rows after a write to runs that exist: some may have been closed.
Evolved(f) ==
  /\ f \in [RunIds -> Runs]
  /\ \A i \in RunIds :
       /\ f[i].at = runs[i].at /\ f[i].req = runs[i].req
       /\ f[i].status = runs[i].status \/ (Open(i) /\ f[i].status \in Ended)
       /\ f[i].task # "none" <=> f[i].status = "Running"
       /\ runs[i].signals \subseteq f[i].signals

\* No row, request or signal is lost, and the requests of new rows are among reqs.
Grown(reqs) ==
  /\ Known \subseteq Known' /\ \A i \in Known : runs[i].signals \subseteq runs'[i].signals
  /\ \A i \in Known' : (i \in Known /\ runs'[i].req = runs[i].req) \/ runs'[i].req \in reqs

\* Who was handed over by such a write.
Handed(f, i) == f[i].status = "ContinuedAsNew" \/ f[i].retried

\* newID gives the run ID right behind the known ones.
LEMMA NextIsFresh ==
  ASSUME Rows, NEW j \in NextRunId
  PROVE  j \in RunIds /\ j \notin Known /\ Known = 1 .. j - 1
<1>1. PICK n \in Nat : Known = 1 .. n
  BY DEF Rows
<1>2. Cardinality(1 .. n) = n
  BY FS_Interval
<1> QED BY <1>1, <1>2 DEF NextRunId, RunIds

\* A write that moves existing rows along keeps what the rows promise.
LEMMA EvolvedKeeps ==
  ASSUME RunsInv, NEW f, Evolved(f), runs' = f, cur' = cur,
         now' \in Nat, now <= now',
         \A i \in RunIds : Handed(f, i) => Handed(runs, i)
  PROVE  RunsInv' /\ Grown({})
<1> USE RunChainAssumption
<1>1. Known' = Known
  BY DEF Known, Exists, Evolved, Open, Ended
<1>2. Rows'
  <2>1. \A i \in RunIds : f[i].at <= now' /\ (f[i].task # "none" <=> f[i].status = "Running")
    BY DEF RunsInv, Rows, Evolved, Runs
  <2>2. \E n \in Nat : Known' = 1 .. n
    BY <1>1 DEF RunsInv, Rows
  <2> QED BY <2>1, <2>2 DEF Rows, Evolved, Open
<1>3. Newest'
  BY <1>1 DEF RunsInv, Newest, Evolved, Newer, Known
<1>4. OpenIsCurrent'
  BY <1>1 DEF RunsInv, OpenIsCurrent, InOrder, Evolved, Open, Ended, Known
<1>5. RequestOnce'
  BY <1>1 DEF RunsInv, RequestOnce, Evolved, Known
<1>6. HandedOver'
  BY <1>1 DEF RunsInv, HandedOver, Evolved, Known, Handed
<1>7. Grown({})
  BY <1>1 DEF Grown, Evolved, Known
<1> QED BY <1>2, <1>3, <1>4, <1>5, <1>6, <1>7 DEF RunsInv

\* So does a write that also creates a run, when nothing was created for its request
\* and, with the starts in order, it leaves no other run open.
LEMMA CreatedKeeps ==
  ASSUME RunsInv, NEW f, Evolved(f), NEW j \in NextRunId, NEW run \in Runs,
         run.status = "Running", run.task # "none", ~run.retried,
         run.at <= now', now' \in Nat, now <= now',
         CreateRun(f, j, run), Dedup(run.req) = {},
         InOrder => \A i \in RunIds : f[i].status # "Running",
         \A i \in RunIds : Handed(f, i) => Handed(runs, i) \/ run.req = SuccessorRequest(i)
  PROVE  /\ RunsInv' /\ Grown({run.req})
         /\ Known' = Known \cup {j} /\ runs'[j] = run
<1> USE RunChainAssumption
<1>0. j \in RunIds /\ j \notin Known /\ Known = 1 .. j - 1
  BY NextIsFresh DEF RunsInv
<1>1. runs' = [f EXCEPT ![j] = run] /\ cur' = NewCurrent(runs', j)
  BY DEF CreateRun
<1>2. /\ runs' \in [RunIds -> Runs] /\ runs'[j] = run
      /\ \A i \in RunIds \ {j} : runs'[i] = f[i]
  BY <1>0, <1>1 DEF Evolved
<1>3. Known' = Known \cup {j}
  BY <1>0, <1>2 DEF Known, Exists, Evolved, Open, Ended
<1>4. Rows'
  <2>1. Known' = 1 .. j
    BY <1>0, <1>3 DEF RunIds
  <2>2. \A i \in RunIds : runs'[i].at <= now' /\ (runs'[i].task # "none" <=> runs'[i].status = "Running")
    BY <1>2, SMTT(30) DEF RunsInv, Rows, Evolved, Runs
  <2> QED BY <1>0, <1>2, <2>1, <2>2 DEF Rows, Open, RunIds
<1>5. Newest'
  <2>1. \A i \in Known : i \in RunIds /\ i # j /\ i < j
                          /\ runs'[i].at = runs[i].at /\ runs[i].at \in Nat
    <3>1. \A i \in Known : i \in RunIds
      BY DEF Known
    <3>2. \A i \in Known : i # j /\ i < j
      BY <1>0 DEF RunIds
    <3> QED BY <1>2, <3>1, <3>2 DEF RunsInv, Rows, Evolved, Runs
  <2>2. runs'[j].at \in Nat
    BY <1>2 DEF Runs
  <2>3. CASE cur = 0
    BY <1>0, <1>1, <1>3, <2>3 DEF RunsInv, Newest, NewCurrent, RunIds
  <2>4. CASE cur # 0 /\ Newer(runs', j, cur)
    <3>1. cur' = j
      BY <1>1, <2>4 DEF NewCurrent
    <3>2. \A i \in Known : Newer(runs', j, i)
      BY <2>1, <2>2, <2>4, <1>0, SMTT(30) DEF RunsInv, Newest, Newer, RunIds
    <3> QED BY <1>0, <1>3, <3>1, <3>2 DEF Newest, RunIds
  <2>5. CASE cur # 0 /\ ~Newer(runs', j, cur)
    <3>1. cur' = cur
      BY <1>1, <2>5 DEF NewCurrent
    <3>2. cur \in Known /\ Newer(runs', cur, j)
      BY <2>1, <2>2, <2>5, <1>0 DEF RunsInv, Newest, Newer, RunIds
    <3>3. \A i \in Known : i = cur \/ Newer(runs', cur, i)
      BY <2>1, <3>2 DEF RunsInv, Newest, Newer
    <3> QED BY <1>3, <2>5, <3>1, <3>2, <3>3 DEF Newest
  <2> QED BY <2>3, <2>4, <2>5
<1>6. OpenIsCurrent'
  <2> SUFFICES ASSUME InOrder', NEW i \in RunIds, Open(i)'
               PROVE  cur' = i
    BY DEF OpenIsCurrent
  <2>1. InOrder
    BY <1>0, <1>2, <1>3 DEF InOrder, Evolved, Known
  <2>2. i = j
    BY <1>2, <2>1 DEF Open
  <2>3. cur = 0 \/ Newer(runs', j, cur)
    BY <1>0, <1>2, <1>3 DEF RunsInv, Newest, InOrder, Newer, Runs, RunIds
  <2> QED BY <1>1, <2>2, <2>3 DEF NewCurrent
<1>7. RequestOnce'
  BY <1>2, <1>3, <1>0 DEF RunsInv, RequestOnce, Evolved, Known, Dedup
<1>8. HandedOver'
  BY <1>2, <1>3, <1>0 DEF RunsInv, HandedOver, Evolved, Known, Handed
<1>9. Grown({run.req})
  BY <1>0, <1>2, <1>3 DEF Grown, Evolved, Known
<1> QED BY <1>2, <1>3, <1>4, <1>5, <1>6, <1>7, <1>8, <1>9 DEF RunsInv

-------------------------------------------------------------------------------
\* One step at a time.

\* Writing one open row, to close it or to go on with it, moves the rows along.
LEMMA WrittenEvolved ==
  ASSUME Rows, NEW i \in RunIds, Open(i), NEW r \in Runs,
         r.at = runs[i].at, r.req = runs[i].req, r.status \in Ended \cup {"Running"},
         r.task # "none" <=> r.status = "Running", runs[i].signals \subseteq r.signals
  PROVE  Evolved([runs EXCEPT ![i] = r])
<1>1. \A k \in RunIds : runs[k].task # "none" <=> runs[k].status = "Running"
  BY DEF Rows, Open
<1> QED BY <1>1 DEF Rows, Evolved, Open

\* A write that leaves the rows alone.
LEMMA RowsSame ==
  ASSUME RunsInv, UNCHANGED <<runs, cur>>, now' \in Nat, now <= now'
  PROVE  RunsInv' /\ Grown({})
<1>1. Evolved(runs)
  BY DEF RunsInv, Rows, Evolved, Open
<1> QED BY <1>1, EvolvedKeeps

\* CloseRun, also with the failure nobody retries.
LEMMA CloseRunKeeps ==
  ASSUME RunsInv, NEW i \in RunIds, NEW status \in Ended \ {"ContinuedAsNew"}, CloseRun(i, status)
  PROVE  RunsInv' /\ Grown({})
<1> DEFINE f == [runs EXCEPT ![i].status = status, ![i].task = "none"]
<1>1. now' \in Nat /\ now <= now' /\ runs' = f /\ cur' = cur /\ Open(i)
  BY DEF CloseRun, RunsInv, Rows
<1>3. Evolved(f)
  <2> DEFINE r == [runs[i] EXCEPT !.status = status, !.task = "none"]
  <2>1. f = [runs EXCEPT ![i] = r]
    BY DEF RunsInv, Rows
  <2>2. /\ r \in Runs /\ r.at = runs[i].at /\ r.req = runs[i].req /\ r.status \in Ended
        /\ r.task = "none" /\ r.status # "Running" /\ r.signals = runs[i].signals
    BY DEF RunsInv, Rows, Runs, Ended, Statuses
  <2> QED BY <1>1, <2>1, <2>2, WrittenEvolved DEF RunsInv
<1>2. \A k \in RunIds : Handed(f, k) => Handed(runs, k)
  BY DEF Handed, RunsInv, Rows, Runs
<1> QED BY <1>1, <1>2, <1>3, EvolvedKeeps

\* The run a request creates.
LEMMA NewRunTyped ==
  ASSUME NEW at \in Nat, NEW req \in Requests, NEW attempt \in 0 .. MaximumAttempts,
         NEW task \in {"ready", "deferred"}, NEW signals \in SUBSET Clients
  PROVE  LET run == NewRun(at, req, attempt, task, signals)
         IN /\ run \in Runs /\ run.status = "Running" /\ run.task # "none" /\ ~run.retried
            /\ run.at = at /\ run.req = req /\ run.signals = signals
BY DEF NewRun, NoRun, Runs, Statuses

\* A run and its successor in one write.
LEMMA SuccessorKeeps ==
  ASSUME RunsInv, NEW i \in RunIds, NEW status \in {"ContinuedAsNew", "Failed"},
         NEW attempt \in 0 .. MaximumAttempts, NEW task \in {"ready", "deferred"},
         CloseWithSuccessor(i, status, attempt, task)
  PROVE  RunsInv' /\ Grown({SuccessorRequest(i)})
<1> DEFINE f == [runs EXCEPT ![i].status = status, ![i].task = "none",
                             ![i].retried = status = "Failed"]
           run == NewRun(now + 1, SuccessorRequest(i), attempt, task, {})
<1>1. PICK j \in NextRunId : CreateRun(f, j, run)
  BY DEF CloseWithSuccessor
<1>2. now' = now + 1 /\ now \in Nat /\ Open(i)
      /\ Dedup(SuccessorRequest(i)) = {} /\ ~Refused("AllowDuplicate", i)
  BY DEF CloseWithSuccessor, PlanSuccessor, RunsInv, Rows
<1>3. /\ run \in Runs /\ run.status = "Running" /\ run.task # "none" /\ ~run.retried
      /\ run.at = now' /\ run.req = SuccessorRequest(i)
  <2>1. SuccessorRequest(i) \in Requests /\ now + 1 \in Nat /\ {} \in SUBSET Clients
    BY <1>2 DEF Requests
  <2> QED BY <1>2, <2>1, NewRunTyped
<1>4. Evolved(f)
  <2> DEFINE r == [runs[i] EXCEPT !.status = status, !.task = "none",
                                  !.retried = status = "Failed"]
  <2>1. f = [runs EXCEPT ![i] = r]
    BY DEF RunsInv, Rows
  <2>2. /\ r \in Runs /\ r.at = runs[i].at /\ r.req = runs[i].req /\ r.status \in Ended
        /\ r.task = "none" /\ r.status # "Running" /\ r.signals = runs[i].signals
    BY DEF RunsInv, Rows, Runs, Ended, Statuses
  <2> QED BY <1>2, <2>1, <2>2, WrittenEvolved DEF RunsInv
<1>5. InOrder => \A k \in RunIds : f[k].status # "Running"
  <2> SUFFICES ASSUME InOrder, NEW k \in RunIds, f[k].status = "Running" PROVE FALSE
    OBVIOUS
  <2>1. k # i /\ Open(k)
    BY DEF RunsInv, Rows, Open
  <2> QED BY <1>2, <2>1 DEF RunsInv, OpenIsCurrent
<1>6. \A k \in RunIds : Handed(f, k) => Handed(runs, k) \/ run.req = SuccessorRequest(k)
  BY <1>3 DEF Handed, RunsInv, Rows
<1>7. run.at <= now' /\ now' \in Nat /\ now <= now' /\ Dedup(run.req) = {}
  BY <1>2, <1>3
<1> HIDE DEF f, run
<1>8. RunsInv' /\ Grown({run.req})
  BY <1>1, <1>3, <1>4, <1>5, <1>6, <1>7, CreatedKeeps
<1> QED BY <1>3, <1>8

\* The write of a signal, of a termination by the engine, of a deferred run's task.
LEMMA WrittenKeeps ==
  ASSUME RunsInv, NEW i \in RunIds, Open(i), NEW r \in Runs,
         r.at = runs[i].at, r.req = runs[i].req, r.retried = runs[i].retried,
         r.status \in {"Running", "Terminated"},
         r.task # "none" <=> r.status = "Running", runs[i].signals \subseteq r.signals,
         runs' = [runs EXCEPT ![i] = r], UNCHANGED <<cur, now>>
  PROVE  RunsInv' /\ Grown({})
<1> DEFINE f == [runs EXCEPT ![i] = r]
<1>1. Evolved(f)
  BY WrittenEvolved DEF RunsInv, Ended
<1>2. \A k \in RunIds : Handed(f, k) => Handed(runs, k)
  BY DEF Handed, RunsInv, Rows, Runs
<1>3. now' \in Nat /\ now <= now' /\ runs' = f /\ cur' = cur
  BY DEF RunsInv, Rows
<1> HIDE DEF f
<1> QED BY <1>1, <1>2, <1>3, EvolvedKeeps

LEMMA SignalKeeps ==
  ASSUME Inv, NEW c \in Clients, SignalOpenRun(c)
  PROVE  /\ RunsInv' /\ Grown({})
         /\ call'[c].pc = "done" => \E i \in Known' : c \in runs'[i].signals
<1> DEFINE i == call[c].run
           r == [runs[i] EXCEPT !.signals = @ \cup {c}]
<1>1. i \in Known /\ i \in RunIds /\ runs[i] \in Runs
  BY DEF Inv, Calls, SignalOpenRun, Known, RunsInv, Rows, Known
<1>2. call'[c].pc = IF Open(i) THEN "done" ELSE "failed"
  BY DEF SignalOpenRun, Inv, Calls
<1>3. CASE Open(i)
  <2>1. runs' = [runs EXCEPT ![i] = r] /\ UNCHANGED <<cur, now>>
    BY <1>3 DEF SignalOpenRun, Inv, RunsInv, Rows
  <2>2. /\ r \in Runs /\ r.at = runs[i].at /\ r.req = runs[i].req /\ r.status = "Running"
        /\ r.retried = runs[i].retried /\ r.task = runs[i].task
        /\ r.signals = runs[i].signals \cup {c}
    BY <1>1, <1>3 DEF Runs, Open
  <2>3. r.task # "none"
    BY <1>1, <1>3, <2>2 DEF Inv, RunsInv, Rows
  <2>4. RunsInv' /\ Grown({})
    <3> HIDE DEF i, r
    <3> QED BY <1>1, <1>3, <2>1, <2>2, <2>3, WrittenKeeps DEF Inv
  <2>5. runs'[i] = r
    BY <1>1, <2>1 DEF Inv, RunsInv, Rows
  <2>6. i \in Known' /\ c \in runs'[i].signals
    BY <1>1, <2>2, <2>4, <2>5 DEF Grown
  <2> QED BY <2>4, <2>6
<1>4. CASE ~Open(i)
  <2>1. UNCHANGED <<runs, cur, now>>
    BY <1>4 DEF SignalOpenRun
  <2>2. RunsInv' /\ Grown({})
    BY <2>1, RowsSame DEF Inv, RunsInv, Rows
  <2> QED BY <1>2, <1>4, <2>2
<1> QED BY <1>3, <1>4

LEMMA TerminateKeeps ==
  ASSUME Inv, NEW c \in Clients, TerminateIfRunning(c)
  PROVE  RunsInv' /\ Grown({})
<1> DEFINE r == [runs[cur] EXCEPT !.status = "Terminated", !.task = "none"]
<1>1. CASE CurrentOpen
  <2>1. cur \in RunIds /\ Open(cur) /\ runs[cur] \in Runs
    BY <1>1 DEF CurrentOpen, Inv, RunsInv, Newest, Known, Rows
  <2>2. runs' = [runs EXCEPT ![cur] = r] /\ UNCHANGED <<cur, now>>
    BY <1>1, <2>1 DEF TerminateIfRunning, Inv, RunsInv, Rows
  <2>3. /\ r \in Runs /\ r.at = runs[cur].at /\ r.req = runs[cur].req
        /\ r.status = "Terminated" /\ r.retried = runs[cur].retried /\ r.task = "none"
        /\ r.signals = runs[cur].signals
    BY <2>1 DEF Runs, Statuses
  <2> HIDE DEF r
  <2> QED BY <2>1, <2>2, <2>3, WrittenKeeps DEF Inv
<1>2. CASE ~CurrentOpen
  BY <1>2, RowsSame DEF TerminateIfRunning, Inv, RunsInv, Rows
<1> QED BY <1>1, <1>2

LEMMA DeferredKeeps ==
  ASSUME RunsInv, NEW i \in RunIds, StartDeferredRun(i)
  PROVE  RunsInv' /\ Grown({})
<1> DEFINE r == [runs[i] EXCEPT !.task = "ready"]
<1>1. runs[i] \in Runs /\ Open(i)
  BY DEF RunsInv, Rows, StartDeferredRun
<1>2. runs' = [runs EXCEPT ![i] = r] /\ UNCHANGED <<cur, now>>
  BY DEF StartDeferredRun, RunsInv, Rows
<1>3. /\ r \in Runs /\ r.at = runs[i].at /\ r.req = runs[i].req /\ r.status = "Running"
      /\ r.retried = runs[i].retried /\ r.task = "ready" /\ r.signals = runs[i].signals
  BY <1>1 DEF Runs, Open
<1> HIDE DEF r
<1> QED BY <1>1, <1>2, <1>3, WrittenKeeps

\* The store's own termination of the current run.
LEMMA StoreTerminateEvolved ==
  ASSUME RunsInv, NEW policy
  PROVE  LET f == StoreTerminate(runs, policy)
         IN /\ Evolved(f) /\ \A k \in RunIds : Handed(f, k) => Handed(runs, k)
            /\ \A k \in RunIds : f[k].status = "Running" => Open(k)
            /\ policy = "TerminateIfRunning" /\ cur # 0 => f[cur].status # "Running"
<1> DEFINE f == StoreTerminate(runs, policy)
           r == [runs[cur] EXCEPT !.status = "Terminated", !.task = "none"]
<1>1. CASE policy = "TerminateIfRunning" /\ CurrentOpen
  <2>1. cur \in RunIds /\ Open(cur) /\ runs[cur] \in Runs /\ DOMAIN runs = RunIds
    BY <1>1 DEF CurrentOpen, RunsInv, Newest, Known, Rows
  <2>2. f = [runs EXCEPT ![cur] = r]
    BY <1>1, <2>1 DEF StoreTerminate
  <2>3. /\ r \in Runs /\ r.at = runs[cur].at /\ r.req = runs[cur].req
        /\ r.status = "Terminated" /\ r.retried = runs[cur].retried /\ r.task = "none"
        /\ r.signals = runs[cur].signals
    BY <2>1 DEF Runs, Statuses
  <2>4. Evolved(f)
    BY <2>1, <2>2, <2>3, WrittenEvolved DEF RunsInv, Ended
  <2>5. f[cur] = r /\ \A k \in RunIds \ {cur} : f[k] = runs[k]
    BY <2>1, <2>2
  <2> QED BY <2>1, <2>3, <2>4, <2>5 DEF Handed, Open
<1>2. CASE ~(policy = "TerminateIfRunning" /\ CurrentOpen)
  <2>1. f = runs
    BY <1>2 DEF StoreTerminate
  <2>2. Evolved(f)
    BY <2>1 DEF RunsInv, Rows, Evolved, Open
  <2> QED BY <1>2, <2>1, <2>2 DEF Open, CurrentOpen
<1> QED BY <1>1, <1>2

\* The branch of createRunLocked that creates a run.
Creates(c) ==
  /\ call[c].pc = "create"
  /\ Dedup(ClientRequest(c)) = {} /\ ~Refused(Policy(c), 0)
  /\ \E i \in NextRunId :
       /\ CreateRun(StoreTerminate(runs, Policy(c)), i,
                    NewRun(call[c].at, ClientRequest(c), 1, "ready",
                           IF Op(c) = "signalWithStart" THEN {c} ELSE {}))
       /\ call' = [call EXCEPT ![c].pc = "done", ![c].run = i]
  /\ UNCHANGED <<kind, lock, now>>

\* The other branches: the run exists already, or the policy refuses it.
Declines(c) ==
  /\ call[c].pc = "create"
  /\ \/ \E i \in Known : call' = [call EXCEPT ![c].run = i,
                ![c].pc = IF Op(c) = "signalWithStart" THEN "relock" ELSE "done"]
     \/ call' = [call EXCEPT ![c].pc = "failed"]
  /\ UNCHANGED <<kind, runs, cur, lock, now>>

LEMMA CreateCases ==
  ASSUME NEW c \in Clients, CreateExecution(c)
  PROVE  Creates(c) \/ Declines(c)
<1> DEFINE req == ClientRequest(c)
<1>1. CASE Dedup(req) # {} /\ call' = [call EXCEPT ![c].run = CHOOSE i \in Dedup(req) : TRUE,
                ![c].pc = IF Op(c) = "signalWithStart" THEN "relock" ELSE "done"]
                /\ UNCHANGED <<runs, cur>>
  <2>1. (CHOOSE i \in Dedup(req) : TRUE) \in Known
    BY <1>1 DEF Dedup
  <2> QED BY <1>1, <2>1 DEF CreateExecution, Declines
<1>2. CASE call' = [call EXCEPT ![c].pc = "failed"] /\ UNCHANGED <<runs, cur>>
  BY <1>2 DEF CreateExecution, Declines
<1>3. CASE /\ Dedup(req) = {} /\ ~Refused(Policy(c), 0)
           /\ \E i \in NextRunId :
                /\ CreateRun(StoreTerminate(runs, Policy(c)), i,
                             NewRun(call[c].at, req, 1, "ready",
                                    IF Op(c) = "signalWithStart" THEN {c} ELSE {}))
                /\ call' = [call EXCEPT ![c].pc = "done", ![c].run = i]
  BY <1>3 DEF CreateExecution, Creates
<1> QED BY <1>1, <1>2, <1>3 DEF CreateExecution

\* While the starts are in order, a policy that lets a run in leaves no other open.
LEMMA PolicyKeepsOneOpen ==
  ASSUME Inv, NEW c \in Clients, ~Refused(Policy(c), 0), InOrder,
         NEW k \in RunIds, StoreTerminate(runs, Policy(c))[k].status = "Running"
  PROVE  FALSE
<1>1. Open(k)
  BY StoreTerminateEvolved DEF Inv
<1>2. cur = k /\ cur # 0
  BY <1>1 DEF Inv, RunsInv, OpenIsCurrent, RunIds
<1>3. Policy(c) # "TerminateIfRunning"
  BY <1>2, StoreTerminateEvolved DEF Inv
<1>4. Policy(c) \in Policies
  BY DEF Policy, Inv, Calls
<1> QED BY <1>1, <1>2, <1>3, <1>4 DEF Refused, CurrentOpen, Policies

LEMMA CreateKeeps ==
  ASSUME Inv, NEW c \in Clients, Creates(c)
  PROVE  /\ RunsInv' /\ Grown({ClientRequest(c)})
         /\ Op(c) = "signalWithStart" => \E i \in Known' : c \in runs'[i].signals
<1> DEFINE f == StoreTerminate(runs, Policy(c))
           sig == IF Op(c) = "signalWithStart" THEN {c} ELSE {}
           run == NewRun(call[c].at, ClientRequest(c), 1, "ready", sig)
<1>1. PICK j \in NextRunId : CreateRun(f, j, run)
  BY DEF Creates
<1>2. now' = now /\ now \in Nat /\ call[c].at \in Nat /\ call[c].at <= now
  BY DEF Creates, Inv, RunsInv, Rows, Calls, CallStates
<1>3. /\ run \in Runs /\ run.status = "Running" /\ run.task # "none" /\ ~run.retried
      /\ run.at = call[c].at /\ run.req = ClientRequest(c) /\ run.signals = sig
  <2>1. /\ ClientRequest(c) \in Requests /\ sig \in SUBSET Clients
        /\ 1 \in 0 .. MaximumAttempts
    BY RunChainAssumption DEF Requests
  <2> QED BY <1>2, <2>1, NewRunTyped
<1>4. Evolved(f) /\ \A k \in RunIds : Handed(f, k) => Handed(runs, k)
  BY StoreTerminateEvolved DEF Inv
<1>5. InOrder => \A k \in RunIds : f[k].status # "Running"
  BY PolicyKeepsOneOpen DEF Creates
<1>6. Dedup(run.req) = {}
  BY <1>3 DEF Creates
<1>7. RunsInv' /\ Grown({run.req}) /\ Known' = Known \cup {j} /\ runs'[j] = run
  <2> HIDE DEF f, run
  <2> QED BY <1>1, <1>2, <1>3, <1>4, <1>5, <1>6, CreatedKeeps DEF Inv
<1> QED BY <1>3, <1>7

-------------------------------------------------------------------------------
\* The calls.

\* A call moves on, and touches no lock another call holds.
LEMMA CallMoved ==
  ASSUME Calls, NEW c \in Clients, NEW x \in CallStates, call' = [call EXCEPT ![c] = x],
         kind' = kind, Known \subseteq Known', now \in Nat, now' \in Nat, now <= now',
         lock' \in [Replicas -> Clients \cup {Free}],
         \A r \in Replicas : lock'[r] = lock[r] \/ lock[r] \in {c, Free},
         x.at <= now', x.pc \notin AtRest => x.rep \in Replicas,
         x.pc \notin AtRest \cup {"lock"} => lock'[x.rep] = c,
         x.pc = "signal" => x.run \in Known'
  PROVE  Calls'
<1>1. call' \in [Clients -> CallStates] /\ call'[c] = x
      /\ \A d \in Clients \ {c} : call'[d] = call[d]
  BY DEF Calls
<1>2. kind' \in [Clients -> [op : {"start", "signalWithStart"}, policy : Policies]]
  BY DEF Calls
<1>3. ASSUME NEW d \in Clients
      PROVE  /\ call'[d].at <= now'
             /\ call'[d].pc \notin AtRest => call'[d].rep \in Replicas
             /\ call'[d].pc \notin AtRest \cup {"lock"} => lock'[call'[d].rep] = d
             /\ call'[d].pc = "signal" => call'[d].run \in Known'
  <2>1. CASE d = c
    BY <1>1, <2>1
  <2>2. CASE d # c
    <3>1. /\ call'[d] = call[d] /\ call[d].at \in Nat /\ call[d].at <= now
          /\ call[d].pc \notin AtRest => call[d].rep \in Replicas
          /\ call[d].pc \notin AtRest \cup {"lock"} => lock[call[d].rep] = d
          /\ call[d].pc = "signal" => call[d].run \in Known
      BY <1>1, <2>2 DEF Calls, CallStates
    <3>2. d \notin {c, Free}
      BY <2>2, RunChainAssumption
    <3> QED BY <3>1, <3>2
  <2> QED BY <2>1, <2>2
<1> QED BY <1>1, <1>2, <1>3 DEF Calls

\* What a call does to the locks and to itself.
LEMMA CallStepKeeps ==
  ASSUME Inv, NEW c \in Clients, NEW reqs, Grown(reqs),
         \/ \E r \in Replicas : Request(c, r)
         \/ LockExecution(c) \/ LookForOpenRun(c) \/ SignalOpenRun(c)
         \/ TerminateIfRunning(c) \/ BuildCreate(c) \/ Creates(c) \/ Declines(c)
         \/ Return(c) \/ LoseReply(c)
  PROVE  Calls'
<1>1. /\ Calls /\ call[c] \in CallStates /\ Known \subseteq Known' /\ now \in Nat
      /\ lock \in [Replicas -> Clients \cup {Free}] /\ Known \subseteq RunIds
      /\ call[c].at <= now /\ (call[c].pc \notin AtRest => call[c].rep \in Replicas)
      /\ call[c].pc \notin AtRest \cup {"lock"} => lock[call[c].rep] = c
  BY DEF Inv, Calls, Grown, RunsInv, Rows, Known
<1>a. "lock" \notin AtRest /\ "idle" \in AtRest
  BY DEF AtRest
<1>2. ASSUME NEW x \in CallStates, call' = [call EXCEPT ![c] = x], UNCHANGED <<kind, lock, now>>,
             call[c].pc \notin AtRest \cup {"lock"}, x.rep = call[c].rep, x.at = call[c].at,
             x.pc = "signal" => x.run \in Known
      PROVE  Calls'
  <2>1. /\ kind' = kind /\ now' \in Nat /\ now <= now' /\ x.at <= now'
        /\ lock' \in [Replicas -> Clients \cup {Free}]
        /\ \A r \in Replicas : lock'[r] = lock[r]
        /\ x.rep \in Replicas /\ lock'[x.rep] = c
    BY <1>1, <1>2
  <2>2. x.pc = "signal" => x.run \in Known'
    BY <1>1, <1>2
  <2> QED BY <1>1, <1>2, <2>1, <2>2, CallMoved
<1>3. ASSUME NEW r \in Replicas, Request(c, r) PROVE Calls'
  <2> DEFINE x == [call[c] EXCEPT !.pc = "lock", !.rep = r, !.tries = @ + 1]
  <2>1. call' = [call EXCEPT ![c] = x]
    BY <1>1, <1>3 DEF Request, Calls
  <2>t. call[c].tries + 1 \in Nat
    BY <1>1 DEF CallStates
  <2>2. x \in CallStates /\ x.pc = "lock" /\ x.rep = r /\ x.at = call[c].at
    BY <1>1, <2>t DEF CallStates, Pcs
  <2> HIDE DEF x
  <2>3. UNCHANGED <<kind, lock, now>>
    BY <1>3 DEF Request
  <2>4. /\ now' \in Nat /\ now <= now' /\ x.at <= now' /\ lock' \in [Replicas -> Clients \cup {Free}]
        /\ \A k \in Replicas : lock'[k] = lock[k]
    BY <1>1, <2>2, <2>3
  <2>5. x.pc # "signal" /\ x.pc \in AtRest \cup {"lock"} /\ x.rep \in Replicas
    BY <2>2
  <2> QED BY <1>1, <2>1, <2>2, <2>3, <2>4, <2>5, CallMoved
<1>4. CASE LockExecution(c)
  <2> DEFINE to == IF Op(c) = "signalWithStart" THEN "look"
                   ELSE IF Policy(c) = "TerminateIfRunning" THEN "terminate" ELSE "stamp"
             x == [call[c] EXCEPT !.pc = to]
  <2>1. call' = [call EXCEPT ![c] = x]
    BY <1>1, <1>4 DEF LockExecution, Calls
  <2>2. x \in CallStates /\ x.pc \in {"look", "terminate", "stamp"}
        /\ x.rep = call[c].rep /\ x.at = call[c].at
    BY <1>1 DEF CallStates, Pcs
  <2>3. /\ call[c].rep \in Replicas /\ lock[call[c].rep] = Free
        /\ lock' = [lock EXCEPT ![call[c].rep] = c] /\ kind' = kind /\ now' = now
    BY <1>1, <1>4 DEF LockExecution, AtRest
  <2>4. /\ lock' \in [Replicas -> Clients \cup {Free}] /\ lock'[call[c].rep] = c
        /\ \A r \in Replicas : lock'[r] = lock[r] \/ lock[r] \in {c, Free}
    BY <1>1, <2>3
  <2> HIDE DEF x
  <2>5. /\ x.pc # "signal" /\ x.at <= now' /\ now <= now' /\ now' \in Nat
        /\ x.rep \in Replicas /\ lock'[x.rep] = c
    BY <1>1, <2>2, <2>3, <2>4
  <2> QED BY <1>1, <2>1, <2>2, <2>3, <2>4, <2>5, CallMoved
<1>5. CASE LookForOpenRun(c)
  <2> DEFINE x == [call[c] EXCEPT !.pc = IF CurrentOpen THEN "signal" ELSE "stamp",
                                  !.run = IF CurrentOpen THEN cur ELSE 0]
  <2>1. call' = [call EXCEPT ![c] = x]
    BY <1>1, <1>5 DEF LookForOpenRun, Calls
  <2>2. CurrentOpen => cur \in Known
    BY DEF Inv, RunsInv, Newest, CurrentOpen
  <2>3. x \in CallStates /\ x.rep = call[c].rep /\ x.at = call[c].at
        /\ (x.pc = "signal" => x.run \in Known)
    BY <1>1, <2>2 DEF CallStates, Pcs
  <2> HIDE DEF x
  <2> QED BY <1>2, <1>5, <2>1, <2>3 DEF LookForOpenRun, AtRest
<1>6. CASE \E pc \in {"stamp", "done", "failed"} :
              /\ call' = [call EXCEPT ![c].pc = pc] /\ UNCHANGED <<kind, lock, now>>
              /\ call[c].pc \in {"signal", "terminate", "create"}
  <2> PICK pc \in {"stamp", "done", "failed"} :
              /\ call' = [call EXCEPT ![c].pc = pc] /\ UNCHANGED <<kind, lock, now>>
              /\ call[c].pc \in {"signal", "terminate", "create"}
    BY <1>6
  <2> DEFINE x == [call[c] EXCEPT !.pc = pc]
  <2>1. call' = [call EXCEPT ![c] = x]
    BY <1>1 DEF Calls
  <2>2. x \in CallStates /\ x.rep = call[c].rep /\ x.at = call[c].at /\ x.pc # "signal"
    BY <1>1 DEF CallStates, Pcs
  <2> HIDE DEF x
  <2> QED BY <1>2, <2>1, <2>2 DEF AtRest
<1>7. CASE SignalOpenRun(c) \/ TerminateIfRunning(c)
  BY <1>6, <1>7 DEF SignalOpenRun, TerminateIfRunning
<1>8. CASE BuildCreate(c)
  <2> DEFINE x == [call[c] EXCEPT !.pc = "create", !.at = now + 1]
  <2>1. call' = [call EXCEPT ![c] = x]
    BY <1>1, <1>8 DEF BuildCreate, Calls
  <2>t. now + 1 \in Nat
    BY <1>1
  <2>2. x \in CallStates /\ x.rep = call[c].rep /\ x.at = now + 1 /\ x.pc = "create"
    BY <1>1, <2>t DEF CallStates, Pcs
  <2> HIDE DEF x
  <2>3. UNCHANGED <<kind, lock>> /\ now' = now + 1 /\ call[c].pc = "stamp"
    BY <1>8 DEF BuildCreate
  <2>4. /\ now' \in Nat /\ now <= now' /\ x.at <= now' /\ lock' \in [Replicas -> Clients \cup {Free}]
        /\ \A k \in Replicas : lock'[k] = lock[k]
    BY <1>1, <2>2, <2>3
  <2>5. x.pc # "signal" /\ x.rep \in Replicas /\ lock'[x.rep] = c
    BY <1>1, <2>2, <2>3 DEF AtRest
  <2> QED BY <1>1, <2>1, <2>2, <2>3, <2>4, <2>5, CallMoved
<1>9. ASSUME NEW i \in RunIds, NEW pc \in {"done", "relock"},
             call' = [call EXCEPT ![c].run = i, ![c].pc = pc], UNCHANGED <<kind, lock, now>>,
             call[c].pc = "create"
      PROVE  Calls'
  <2> DEFINE x == [call[c] EXCEPT !.run = i, !.pc = pc]
  <2>1. call' = [call EXCEPT ![c] = x]
    BY <1>1, <1>9 DEF Calls
  <2>2. x \in CallStates /\ x.rep = call[c].rep /\ x.at = call[c].at /\ x.pc # "signal"
    BY <1>1 DEF CallStates, Pcs
  <2> HIDE DEF x
  <2> QED BY <1>2, <1>9, <2>1, <2>2 DEF AtRest
<1>10. CASE Creates(c)
  <2>1. PICK i \in NextRunId : call' = [call EXCEPT ![c].pc = "done", ![c].run = i]
    BY <1>10 DEF Creates
  <2>2. call' = [call EXCEPT ![c].run = i, ![c].pc = "done"]
    BY <1>1, <2>1 DEF Calls
  <2> QED BY <1>9, <1>10, <2>2 DEF Creates, NextRunId
<1>11. CASE Declines(c)
  BY <1>1, <1>6, <1>9, <1>11 DEF Declines
<1>12. CASE Return(c) \/ LoseReply(c)
  <2>1. PICK pc \in AtRest : call' = [call EXCEPT ![c] = Over(c, pc)]
    BY <1>1, <1>12 DEF Return, LoseReply, Calls, AtRest
  <2>2. /\ Over(c, pc) \in CallStates /\ Over(c, pc).pc = pc /\ Over(c, pc).at = 0
    BY <1>1, <2>1 DEF Over, CallStates, AtRest, Pcs
  <2>3. /\ call[c].rep \in Replicas /\ lock[call[c].rep] = c
        /\ lock' = [lock EXCEPT ![call[c].rep] = Free] /\ kind' = kind /\ now' = now
    BY <1>1, <1>12 DEF Return, LoseReply, AtRest
  <2>4. /\ lock' \in [Replicas -> Clients \cup {Free}]
        /\ \A r \in Replicas : lock'[r] = lock[r] \/ lock[r] \in {c, Free}
    BY <1>1, <2>3
  <2>5. pc # "signal" /\ 0 <= now' /\ now <= now' /\ now' \in Nat
    BY <1>1, <2>1, <2>3 DEF AtRest
  <2> QED BY <1>1, <2>1, <2>2, <2>3, <2>4, <2>5, CallMoved
<1> QED BY <1>3, <1>4, <1>5, <1>7, <1>8, <1>10, <1>11, <1>12

LEMMA CrashKeeps ==
  ASSUME Inv, NEW r \in Replicas, Crash(r)
  PROVE  Calls'
<1>1. /\ Calls /\ Known' = Known /\ now \in Nat /\ now' = now /\ kind' = kind
      /\ lock' = [lock EXCEPT ![r] = Free]
  BY DEF Inv, RunsInv, Rows, Crash, Known, Exists
<1>2. ASSUME NEW d \in Clients
      PROVE  /\ call'[d] \in CallStates
             /\ \/ call'[d].pc = "idle" /\ call'[d].at = 0
                \/ call'[d] = call[d] /\ (call[d].rep # r \/ call[d].pc \in AtRest)
  BY <1>1 DEF Crash, Over, Calls, CallStates, AtRest, Pcs
<1>3. call' \in [Clients -> CallStates]
  BY <1>2 DEF Crash
<1> QED BY <1>1, <1>2, <1>3 DEF Calls, AtRest

\* The rows, in every step.
RowStep ==
  \E i \in RunIds :
    \/ \E status \in {"Completed", "TimedOut"} : CloseRun(i, status)
    \/ ContinueAsNew(i) \/ FailExecution(i) \/ StartDeferredRun(i)

Successors == {SuccessorRequest(i) : i \in RunIds}

LEMMA RowStepKeeps ==
  ASSUME RunsInv, RowStep
  PROVE  RunsInv' /\ Grown(Successors) /\ UNCHANGED <<kind, lock, call>> /\ now <= now'
<1> USE RunChainAssumption
<1>1. PICK i \in RunIds :
         \/ \E status \in {"Completed", "TimedOut"} : CloseRun(i, status)
         \/ ContinueAsNew(i) \/ FailExecution(i) \/ StartDeferredRun(i)
  BY DEF RowStep
<1>2. now \in Nat /\ runs[i].attempt \in Nat
  BY DEF RunsInv, Rows, Runs
<1>3. ASSUME NEW status \in {"Completed", "TimedOut", "Failed"}, CloseRun(i, status)
      PROVE  RunsInv' /\ Grown(Successors) /\ UNCHANGED <<kind, lock, call>> /\ now <= now'
  <2>1. status \in Ended \ {"ContinuedAsNew"}
    BY DEF Ended
  <2>2. RunsInv' /\ Grown({})
    BY <1>3, <2>1, CloseRunKeeps
  <2>3. Grown(Successors)
    BY <2>2 DEF Grown
  <2> QED BY <1>2, <1>3, <2>2, <2>3 DEF CloseRun
<1>4. ASSUME NEW status \in {"ContinuedAsNew", "Failed"}, NEW task \in {"ready", "deferred"},
             NEW attempt \in 0 .. MaximumAttempts, CloseWithSuccessor(i, status, attempt, task)
      PROVE  RunsInv' /\ Grown(Successors) /\ UNCHANGED <<kind, lock, call>> /\ now <= now'
  <2>1. RunsInv' /\ Grown({SuccessorRequest(i)})
    BY <1>4, SuccessorKeeps
  <2>2. Grown(Successors)
    BY <2>1 DEF Grown, Successors
  <2> QED BY <1>2, <1>4, <2>1, <2>2 DEF CloseWithSuccessor
<1>5. CASE ContinueAsNew(i)
  BY <1>4, <1>5 DEF ContinueAsNew
<1>6. CASE FailExecution(i)
  <2>1. runs[i].attempt < MaximumAttempts => runs[i].attempt + 1 \in 0 .. MaximumAttempts
    BY <1>2
  <2> QED BY <1>3, <1>4, <1>6, <2>1 DEF FailExecution
<1>7. CASE StartDeferredRun(i)
  <2>1. RunsInv' /\ Grown({})
    BY <1>7, DeferredKeeps
  <2>2. Grown(Successors)
    BY <2>1 DEF Grown
  <2> QED BY <1>2, <1>7, <2>1, <2>2 DEF StartDeferredRun
<1> QED BY <1>1, <1>3, <1>5, <1>6, <1>7

\* A call's step keeps the invariant.
LEMMA CallKeepsInv ==
  ASSUME Inv, NEW c \in Clients,
         \/ \E r \in Replicas : Request(c, r)
         \/ LockExecution(c) \/ LookForOpenRun(c) \/ SignalOpenRun(c)
         \/ TerminateIfRunning(c) \/ BuildCreate(c) \/ CreateExecution(c)
         \/ Return(c) \/ LoseReply(c)
  PROVE  Inv' /\ (Grown({}) \/ (Creates(c) /\ Grown({ClientRequest(c)})))
<1>1. Creates(c) \/ Declines(c) \/ ~CreateExecution(c)
  BY CreateCases
<1>2. RunsInv' /\ (Grown({}) \/ (Creates(c) /\ Grown({ClientRequest(c)})))
  <2>1. now \in Nat
    BY DEF Inv, RunsInv, Rows
  <2>2. CASE UNCHANGED <<runs, cur>> /\ now' \in {now, now + 1}
    BY <2>1, <2>2, RowsSame DEF Inv
  <2> QED BY <1>1, <2>2, SignalKeeps, TerminateKeeps, CreateKeeps
        DEF Request, LockExecution, LookForOpenRun, BuildCreate, Declines, Return, LoseReply
<1>3. Calls'
  BY <1>1, <1>2, CallStepKeeps
<1>4. Signalled'
  <2> SUFFICES ASSUME NEW d \in Clients, call'[d].pc \in {"done", "accepted"},
                      Op(d)' = "signalWithStart"
               PROVE  \E i \in Known' : d \in runs'[i].signals
    BY DEF Signalled
  <2>1. kind' = kind /\ Op(d) = "signalWithStart"
    BY <1>1 DEF Op, Request, LockExecution, LookForOpenRun, SignalOpenRun, TerminateIfRunning,
                BuildCreate, Creates, Declines, Return, LoseReply
  <2>2. CASE call[d].pc \in {"done", "accepted"}
    BY <1>2, <2>1, <2>2 DEF Inv, Signalled, Grown
  <2>3. CASE call[d].pc \notin {"done", "accepted"}
    <3>0. call \in [Clients -> CallStates]
      BY DEF Inv, Calls
    <3>a. d = c
      BY <1>1, <2>3, <3>0 DEF Request, LockExecution, LookForOpenRun, TerminateIfRunning,
           BuildCreate, SignalOpenRun, Creates, Declines, Return, LoseReply
    <3>b. ASSUME NEW r \in Replicas, Request(c, r) PROVE FALSE
      <4>1. call'[c].pc = "lock"
        BY <3>0, <3>b DEF Request, CallStates
      <4> QED BY <3>a, <4>1
    <3>c. ~LockExecution(c) /\ ~LookForOpenRun(c) /\ ~TerminateIfRunning(c) /\ ~BuildCreate(c)
      BY <3>0, <3>a DEF LockExecution, LookForOpenRun, TerminateIfRunning, BuildCreate, CallStates
    <3>d. ~Declines(c)
      BY <2>1, <3>0, <3>a DEF Declines, CallStates
    <3>e. ~Return(c) /\ ~LoseReply(c)
      BY <2>3, <3>0, <3>a DEF Return, LoseReply, Over
    <3>1. d = c /\ (SignalOpenRun(c) \/ Creates(c))
      BY <1>1, <3>a, <3>b, <3>c, <3>d, <3>e
    <3>2. SignalOpenRun(c) => call'[c].pc = "done"
      BY <3>1 DEF SignalOpenRun, Inv, Calls
    <3> QED BY <2>1, <3>1, <3>2, SignalKeeps, CreateKeeps
  <2> QED BY <2>2, <2>3
<1> QED BY <1>2, <1>3, <1>4 DEF Inv

\* Every step keeps the invariant.
LEMMA StepKeepsInv ==
  ASSUME Inv, [Next]_vars
  PROVE  Inv' /\ (Grown(Successors) \/ \E c \in Clients : Creates(c) /\ Grown({ClientRequest(c)}))
<1>0. now \in Nat
  BY DEF Inv, RunsInv, Rows
<1>1. CASE RowStep
  <2>1. RunsInv' /\ Grown(Successors) /\ UNCHANGED <<kind, lock, call>> /\ now <= now'
    BY <1>1, RowStepKeeps DEF Inv
  <2>2. Calls'
    <3>1. now' \in Nat /\ \A d \in Clients : call[d].at \in Nat
      BY <2>1 DEF RunsInv, Rows, Inv, Calls, CallStates
    <3> QED BY <1>0, <2>1, <3>1 DEF Inv, Calls, Grown
  <2>3. Signalled'
    BY <2>1 DEF Inv, Signalled, Grown, Op
  <2> QED BY <2>1, <2>2, <2>3 DEF Inv
<1>2. ASSUME NEW r \in Replicas, Crash(r) PROVE Inv' /\ Grown({})
  <2>1. RunsInv' /\ Grown({})
    BY <1>0, <1>2, RowsSame DEF Crash, Inv
  <2>2. Signalled'
    BY <1>2, <2>1 DEF Crash, Over, Inv, Calls, Signalled, Grown, Op
  <2> QED BY <1>2, <2>1, <2>2, CrashKeeps DEF Inv
<1>3. ASSUME UNCHANGED vars PROVE Inv' /\ Grown({})
  <2>1. RunsInv' /\ Grown({})
    BY <1>0, <1>3, RowsSame DEF vars, Inv
  <2> QED BY <1>3, <2>1 DEF vars, Inv, Calls, Signalled, Known, Exists, Op
<1>4. Grown({}) => Grown(Successors)
  BY DEF Grown
<1>5. CASE \E c \in Clients :
       \/ \E r \in Replicas : Request(c, r)
       \/ LockExecution(c) \/ LookForOpenRun(c) \/ SignalOpenRun(c)
       \/ TerminateIfRunning(c) \/ BuildCreate(c) \/ CreateExecution(c)
       \/ Return(c) \/ LoseReply(c)
  BY <1>4, <1>5, CallKeepsInv
<1> QED BY <1>1, <1>2, <1>3, <1>4, <1>5 DEF Next, RowStep

LEMMA InitInv == Init => Inv
<1> SUFFICES ASSUME Init PROVE Inv
  OBVIOUS
<1> USE RunChainAssumption
<1>1. \A i \in RunIds : runs[i] = NoRun
  BY DEF Init
<1>2. Known = {}
  BY <1>1 DEF Known, Exists, NoRun
<1>3. Rows
  <2>1. NoRun \in Runs
    BY DEF NoRun, Runs, Statuses, Requests
  <2>2. Known = 1 .. 0
    BY <1>2
  <2>3. runs \in [RunIds -> Runs] /\ now = 0
    BY <2>1 DEF Init
  <2>4. \A i \in RunIds : runs[i].at = 0 /\ runs[i].task = "none" /\ ~Open(i)
    BY <1>1 DEF NoRun, Open
  <2> QED BY <2>2, <2>3, <2>4 DEF Rows
<1>4. Newest /\ OpenIsCurrent /\ RequestOnce /\ HandedOver
  BY <1>1, <1>2 DEF Init, Newest, OpenIsCurrent, RequestOnce, HandedOver, Open, NoRun
<1>5. Calls /\ Signalled
  <2>1. call \in [Clients -> CallStates]
    BY DEF Init, CallStates, Pcs
  <2> QED BY <2>1 DEF Init, Calls, Signalled, AtRest, Policies
<1> QED BY <1>3, <1>4, <1>5 DEF Inv, RunsInv

LEMMA Invariance == Spec => []Inv
BY InitInv, StepKeepsInv, PTL DEF Spec

-------------------------------------------------------------------------------
\* The results.

\* The runs of a workflow ID fit together: types, one task exactly for an open run,
\* locks, and one open run, the current one, while starts arrive in the order of
\* their stamps (resolveCreateLocked, lockExecution).
THEOREM RunsFit == Spec => []RunsSound
<1>1. Inv => RunsSound
  <2> SUFFICES ASSUME Inv PROVE TypeOK
    BY DEF RunsSound, Inv, RunsInv
  <2>1. \A i \in RunIds :
          /\ runs[i].status \in Statuses /\ runs[i].at \in 0 .. now
          /\ runs[i].attempt \in 0 .. MaximumAttempts
          /\ runs[i].task \in {"none", "ready", "deferred"}
          /\ runs[i].task # "none" <=> Open(i)
    BY DEF Inv, RunsInv, Rows, Runs
  <2>2. cur \in RunIds \cup {0}
    BY DEF Inv, RunsInv, Newest, Known
  <2> QED BY <2>1, <2>2 DEF TypeOK, Inv, Calls, AtRest
<1> QED BY <1>1, Invariance, PTL

\* What was asked for is there, once: a request has one run however often it is
\* delivered, a run that handed over has its successor, and an accepted
\* SignalWithStart has its signal in some run (resolveCreateLocked, finalizeEffects,
\* SignalWithStartWorkflow).
THEOREM RequestsAreKept == Spec => []RequestsKept
<1>1. Inv => RequestsKept
  BY DEF Inv, RunsInv, RequestsKept, Signalled, SignalsDelivered
<1> QED BY <1>1, Invariance, PTL

\* The row the sqlite store's ordering finds is the newest one.
LEMMA CurrentRunIsNewest ==
  ASSUME Rows, Newest, NEW f, \A i \in RunIds : f[i].at = runs[i].at,
         {i \in RunIds : f[i].status # "none"} = Known
  PROVE  CurrentRun(f) = cur
<1>1. CASE Known = {}
  BY <1>1 DEF CurrentRun, Newest
<1>2. CASE Known # {}
  <2>1. cur \in Known
    BY <1>2 DEF Newest
  <2>2. \A i \in Known : i \in RunIds /\ i \in Nat /\ f[i].at = runs[i].at /\ runs[i].at \in Nat
    BY DEF Known, RunIds, Rows, Runs
  <2>3. \A j \in Known \ {cur} : Newer(f, cur, j)
    BY <2>1, <2>2 DEF Newest, Newer
  <2>4. ASSUME NEW i \in Known, \A j \in Known \ {i} : Newer(f, i, j) PROVE i = cur
    <3> SUFFICES ASSUME i # cur PROVE FALSE
      OBVIOUS
    <3>1. Newer(f, i, cur) /\ Newer(f, cur, i)
      BY <2>1, <2>3, <2>4
    <3> QED BY <2>1, <2>2, <3>1 DEF Newer
  <2>5. CurrentRun(f) = CHOOSE i \in Known : \A j \in Known \ {i} : Newer(f, i, j)
    BY <1>2 DEF CurrentRun
  <2> QED BY <2>1, <2>3, <2>4, <2>5
<1> QED BY <1>1, <1>2

\* The memory store's map entry is the row the sqlite store finds, and the two take
\* the same decision for every policy and for every successor (resolveCreateLocked,
\* applyReusePolicy).
THEOREM StoresDecideAlike == Spec => []StoresAgree
<1>1. Inv => StoresAgree
  <2> SUFFICES ASSUME Inv PROVE StoresAgree
    OBVIOUS
  <2>0. Rows /\ Newest /\ runs \in [RunIds -> Runs] /\ (cur # 0 => cur \in RunIds)
    BY DEF Inv, RunsInv, Rows, Newest, Known
  <2>1. cur = CurrentRun(runs)
    BY <2>0, CurrentRunIsNewest DEF Known, Exists
  <2>2. ASSUME NEW policy \in Policies
        PROVE  ApplyReusePolicy(runs, policy) =
                 IF Refused(policy, 0) THEN {} ELSE {StoreTerminate(runs, policy)}
    <3>1. CASE cur = 0
      BY <2>1, <3>1 DEF ApplyReusePolicy, Refused, StoreTerminate, CurrentOpen
    <3>2. CASE cur # 0 /\ policy = "RejectDuplicate"
      BY <2>1, <3>2 DEF ApplyReusePolicy, Refused
    <3>3. CASE cur # 0 /\ policy = "FailedOnly"
      BY <2>1, <3>3 DEF ApplyReusePolicy, Refused, StoreTerminate, CurrentOpen, Open
    <3>4. CASE cur # 0 /\ policy = "TerminateIfRunning"
      BY <2>1, <3>4 DEF ApplyReusePolicy, Refused, StoreTerminate, TerminateRun, CurrentOpen, Open
    <3>5. CASE cur # 0 /\ policy = "AllowDuplicate"
      BY <2>1, <3>5 DEF ApplyReusePolicy, Refused, StoreTerminate, CurrentOpen, Open
    <3> QED BY <3>1, <3>2, <3>3, <3>4, <3>5 DEF Policies
  <2>3. ASSUME NEW i \in Known, Open(i)
        PROVE  Refused("AllowDuplicate", i)
                 <=> ApplyReusePolicy([runs EXCEPT ![i].status = "Failed"], "AllowDuplicate") = {}
    <3> DEFINE f == [runs EXCEPT ![i].status = "Failed"]
    <3>1. i \in RunIds
      BY DEF Known
    <3>2. \A k \in RunIds : /\ f[k].at = runs[k].at
                            /\ f[k].status = IF k = i THEN "Failed" ELSE runs[k].status
      BY <2>0, <3>1 DEF Runs
    <3>3. {k \in RunIds : f[k].status # "none"} = Known
      BY <2>3, <3>2 DEF Known, Exists, Open
    <3>4. CurrentRun(f) = cur
      <4> HIDE DEF f
      <4> QED BY <2>0, <3>2, <3>3, CurrentRunIsNewest
    <3>5. Refused("AllowDuplicate", i) <=> cur # 0 /\ Open(cur) /\ cur # i
      BY DEF Refused, CurrentOpen
    <3>6. cur # 0 => (f[cur].status = "Running" <=> Open(cur) /\ cur # i)
      BY <2>0, <3>2 DEF Open
    <3>7. ApplyReusePolicy(f, "AllowDuplicate") = {} <=> cur # 0 /\ f[cur].status = "Running"
      <4> HIDE DEF f
      <4> QED BY <3>4 DEF ApplyReusePolicy
    <3> QED BY <3>5, <3>6, <3>7
  <2> QED BY <2>1, <2>2, <2>3 DEF StoresAgree, Policies
<1> QED BY <1>1, Invariance, PTL

\* A run is created for a client's request by that client's call alone.
LEMMA OnlyItsCallCreates ==
  ASSUME Inv, [Next]_vars, NEW c \in Clients,
         Dedup(ClientRequest(c)) = {}, Dedup(ClientRequest(c))' # {}
  PROVE  Creates(c)
<1>1. PICK k \in Known' : runs'[k].req = ClientRequest(c)
  BY DEF Dedup
<1>2. ~(k \in Known /\ runs'[k].req = runs[k].req)
  BY <1>1 DEF Dedup
<1>3. \A i : ClientRequest(c) # SuccessorRequest(i)
  BY DEF ClientRequest, SuccessorRequest
<1>4. \A d : ClientRequest(c) = ClientRequest(d) => c = d
  BY DEF ClientRequest
<1>5. ~Grown(Successors)
  BY <1>1, <1>2, <1>3 DEF Grown, Successors
<1>6. PICK d \in Clients : Creates(d) /\ Grown({ClientRequest(d)})
  BY <1>5, StepKeepsInv
<1> QED BY <1>1, <1>2, <1>4, <1>6 DEF Grown

\* A start takes the workflow ID over only as its policy allows: RejectDuplicate as the
\* very first run, FailedOnly over a run that did not succeed, and, with the starts in
\* order, nobody but TerminateIfRunning over an open one (applyReusePolicy).
THEOREM PolicyIsHonoured == Spec => ReuseHonoured
<1>1. Inv /\ [Next]_vars => [\A c \in Clients :
         Dedup(ClientRequest(c)) = {} /\ Dedup(ClientRequest(c))' # {} =>
         /\ Policy(c) = "RejectDuplicate" => Known = {}
         /\ Policy(c) \in {"FailedOnly", "AllowDuplicate"} /\ InOrder => ~\E i \in Known : Open(i)
         /\ Policy(c) = "FailedOnly" =>
              cur = 0 \/ runs[cur].status \in {"Failed", "TimedOut", "Terminated"}]_vars
  <2> SUFFICES ASSUME Inv, [Next]_vars, NEW c \in Clients,
                      Dedup(ClientRequest(c)) = {}, Dedup(ClientRequest(c))' # {}
               PROVE  /\ Policy(c) = "RejectDuplicate" => Known = {}
                      /\ Policy(c) \in {"FailedOnly", "AllowDuplicate"} /\ InOrder
                           => ~\E i \in Known : Open(i)
                      /\ Policy(c) = "FailedOnly" =>
                           cur = 0 \/ runs[cur].status \in {"Failed", "TimedOut", "Terminated"}
    OBVIOUS
  <2>1. ~Refused(Policy(c), 0)
    BY OnlyItsCallCreates DEF Creates
  <2>2. Policy(c) = "RejectDuplicate" => Known = {}
    BY <2>1 DEF Refused, Inv, RunsInv, Newest
  <2>3. Policy(c) \in {"FailedOnly", "AllowDuplicate"} => cur = 0 \/ ~Open(cur)
    BY <2>1 DEF Refused, CurrentOpen
  <2>4. \A i \in Known : i \in RunIds /\ i # 0
    BY DEF Known, RunIds
  <2>5. ASSUME Policy(c) \in {"FailedOnly", "AllowDuplicate"}, InOrder, NEW i \in Known, Open(i)
        PROVE  FALSE
    BY <2>3, <2>4, <2>5 DEF Inv, RunsInv, OpenIsCurrent
  <2>6. ASSUME Policy(c) = "FailedOnly", cur # 0
        PROVE  runs[cur].status \in {"Failed", "TimedOut", "Terminated"}
    <3>1. cur \in Known /\ runs[cur].status \in Statuses /\ runs[cur].status # "none"
      BY <2>6 DEF Inv, RunsInv, Newest, Rows, Known, Exists, Runs
    <3>2. runs[cur].status \notin {"Completed", "ContinuedAsNew", "Running"}
      BY <2>1, <2>3, <2>6 DEF Refused, Open
    <3> QED BY <3>1, <3>2 DEF Statuses
  <2> QED BY <2>2, <2>5, <2>6
<1> QED BY <1>1, Invariance, PTL DEF Spec, ReuseHonoured
===============================================================================
