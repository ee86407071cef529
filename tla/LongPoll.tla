------------------------------ MODULE LongPoll ------------------------------
(***************************************************************************)
(* The clients of module Client against the servers that answer them: the  *)
(* engine's GetHistory long poll with the notifier that wakes it           *)
(* (internal/engine), the frontend's handler, its cap on a poll, its drain *)
(* and its answers (internal/frontend), on several replicas over one store *)
(* and behind a balancer and a network that lose attempts.                 *)
(*                                                                         *)
(*   runs      the store: the runs of one workflow ID, oldest first.  Only *)
(*             the last may be open; the successor of a run, which has     *)
(*             origin "run", is the run after it                           *)
(*   chans     notifier.chans of each replica: the waitGroup count of a    *)
(*             run, 0 when the map has no entry for it                     *)
(*   draining  the replicas whose frontend has closed its drain channel    *)
(*   closed    the replicas whose engine is closed                         *)
(*   req       the requests, by slot: <<caller, i>>.  An attempt its       *)
(*             caller has given up (live FALSE) may still be in the server *)
(*             while the next one is made                                  *)
(*   faults    how many attempts, reads, runs, callers and replicas failed *)
(*                                                                         *)
(* A request's w says what its subscription points at: "live" when it is   *)
(* the entry in the map, "fired" when a notify or a close has removed that *)
(* entry, "none" when it has no subscription.                              *)
(***************************************************************************)
EXTENDS Client

CONSTANTS Replicas,     \* the skaldd processes
          Restarting,   \* those a rolling restart may stop
          Slots,        \* the requests that may be in the servers at once
          Other,        \* stands for a caller that is not modelled
          MaxRuns,      \* the runs of the workflow ID: enough for every start
          MaxExtra,     \* bound on the runs no modelled caller starts, successors included
          MaxWrites,    \* bound on the events that neither begin nor end a run
          MaxFaults     \* bound on the failures

\* A slot names its caller; the runs suffice for a start of every caller and the extra ones.
ASSUME LongPollAssumption ==
  /\ Replicas # {} /\ Restarting \subseteq Replicas
  /\ IsFiniteSet(Callers) /\ Other \notin Callers
  /\ Ops \in [Callers -> SUBSET {"execute", "result", "history"}]
  /\ IsFiniteSet(Slots) /\ Slots \subseteq Callers \X Nat
  /\ {MaxExtra, MaxWrites, MaxFaults, MaxRuns} \subseteq Nat
  /\ MaxRuns >= Cardinality(Callers) + MaxExtra
  /\ MaxAttempts \in Nat \ {0}

VARIABLES runs, chans, draining, closed, req, faults

vars == <<h, runs, chans, draining, closed, req, faults>>

Runs == 1..MaxRuns
Current == Len(runs)
Open(k) == runs[k].end = "open"
Mine(c) == {q \in Slots : q[1] = c}

NoRec == [run |-> 0, last |-> 0, end |-> "open"]
Free == [stage |-> "free", kind |-> "history", rep |-> CHOOSE r \in Replicas : TRUE,
         run |-> 0, from |-> 0, wait |-> FALSE, rec |-> NoRec, w |-> "none", live |-> FALSE]

Init ==
  /\ ClientInit
  /\ runs = <<>>
  /\ chans = [r \in Replicas |-> [k \in Runs |-> 0]]
  /\ draining = {} /\ closed = {}
  /\ req = [q \in Slots |-> Free]
  /\ faults = 0

-----------------------------------------------------------------------------
(* The notifier.                                                           *)

\* notify closes the channel of the entry and drops it, so every live
\* subscription to the run on that replica has fired.
Notified(r, ks) == [q \in Slots |->
   IF req[q].w = "live" /\ req[q].rep = r /\ req[q].rec.run \in ks
   THEN [req[q] EXCEPT !.w = "fired"] ELSE req[q]]
NotifiedChans(r, ks) == [chans EXCEPT ![r] = [k \in Runs |-> IF k \in ks THEN 0 ELSE @[k]]]

\* Fault: release does not ask whether the entry is still the one subscribed to.
ReleasedAnyEntry(q) ==
  IF req[q].w # "none" /\ chans[req[q].rep][req[q].rec.run] > 0
  THEN [chans EXCEPT ![req[q].rep][req[q].rec.run] = @ - 1] ELSE chans

\* The function subscribe returns: only a subscription that is still the entry
\* in the map is counted down.
Released(q) ==
  IF req[q].w = "live" THEN [chans EXCEPT ![req[q].rep][req[q].rec.run] = @ - 1] ELSE chans

-----------------------------------------------------------------------------
(* Writers.  Whichever replica holds the execution appends, and wakes the   *)
(* polls of its own process only.                                          *)

\* A new run, by a start or as the successor of a run that closes.
Begun(by, origin) == [len |-> 1, end |-> "open", by |-> by, origin |-> origin]

Append1(r, end, succeeded) ==
  /\ Current > 0 /\ Open(Current) /\ r \notin closed
  /\ LET grown == [runs EXCEPT ![Current].len = @ + 1, ![Current].end = end] IN
       runs' = IF succeeded THEN Append(grown, Begun(runs[Current].by, "run")) ELSE grown
  /\ req' = Notified(r, {Current, Current + 1})
  /\ chans' = NotifiedChans(r, {Current, Current + 1})
  /\ UNCHANGED <<h, draining, closed>>

Written == {e \in Runs \X (2..MaxWrites + 1) :
             e[1] <= Current /\ e[2] < runs[e[1]].len + (IF Open(e[1]) THEN 1 ELSE 0)}
Write(r) == Cardinality(Written) < MaxWrites /\ Append1(r, "open", FALSE) /\ UNCHANGED faults

\* A successor, or a run that somebody else has started, is extra.
Extra == {k \in 1..Current : runs[k].by = Other \/ runs[k].origin = "run"}

\* A caller that is not modelled starts the workflow.
StartedElsewhere ==
  /\ Current > 0 => ~Open(Current)
  /\ Cardinality(Extra) < MaxExtra
  /\ runs' = Append(runs, Begun(Other, "start"))
  /\ UNCHANGED <<h, chans, draining, closed, req, faults>>

\* The run's last event is its terminal event.  A workflow-level retry policy may give a
\* run that fails a successor in the same commit (failExecution), which is an extra run;
\* a failure that is not retried is one of the faults.
CloseRun(r, outcome, retried) ==
  /\ retried => outcome = "failed" /\ Cardinality(Extra) < MaxExtra
  /\ Append1(r, outcome, retried)
  /\ IF outcome = "completed" \/ retried THEN UNCHANGED faults
     ELSE faults < MaxFaults /\ faults' = faults + 1

\* A continue-as-new closes the run and creates its successor in one commit.
ContinueAsNew(r) ==
  /\ Cardinality(Extra) < MaxExtra
  /\ Append1(r, "continued", TRUE)
  /\ UNCHANGED faults

-----------------------------------------------------------------------------
(* A request.                                                              *)

\* NewHandle names a run its caller knows of.
MakeCall(c, op) ==
  /\ op # "execute" => Current > 0
  /\ IF op = "execute" THEN Call(c, op, 0, 0) ELSE Call(c, op, 1, runs[1].len)
  /\ UNCHANGED <<runs, chans, draining, closed, req, faults>>

\* The balancer sends to a replica whose readiness probe succeeds; the store is up.
Ready(r) == r \notin draining

\* An attempt goes to a ready replica.
Send(c, q, r) ==
  /\ Attempt(c)
  /\ q \in Mine(c) /\ req[q].stage = "free"
  /\ \A p \in Mine(c) : req[p].stage = "free" => q[2] <= p[2]
  /\ Ready(r)
  /\ req' = [req EXCEPT ![q] = [Free EXCEPT !.stage = "arrived", !.rep = r, !.live = TRUE,
               !.kind = IF Starting(c) THEN "start" ELSE "history",
               !.run = h[c].run, !.from = h[c].from, !.wait = h[c].op # "history"]]
  /\ UNCHANGED <<runs, chans, draining, closed, faults>>

\* The handler returns: its subscription is released, and its answer reaches the
\* caller unless it has hung up.
Return(q) ==
  /\ chans' = Released(q)
  /\ req' = [req EXCEPT ![q] = Free]
  /\ ~req[q].live => UNCHANGED h

Page(run, events, term, end, next) ==
  [run |-> run, events |-> events, term |-> term, end |-> end, next |-> next]

Answer(q, page) == Return(q) /\ (req[q].live => Receive(q[1], page))
AnswerError(q, code) == Return(q) /\ (req[q].live => ReceiveError(q[1], code))

\* Fault: an expired poll reports how the run stands by now.
ExpiredPollStatus(q) ==
  Page(0, {}, "none", IF req[q].rec.run = 0 THEN "open" ELSE runs[req[q].rec.run].end, req[q].from)

\* writeExpiredHistoryPoll: no events, no status, and the caller's own cursor.
ExpiredPoll(q) == Page(0, {}, "none", "open", req[q].from)

\* Fault: a start that was made already is made again.
DeduplicatedNever(c) == {}

\* The run a request ID has created: StartWorkflow fills the ID in once, so every
\* attempt carries the same one.
Deduplicated(c) == {k \in 1..Current : runs[k].by = c /\ runs[k].origin = "start"}

\* The frontend's pipeline lets the request through to its handler.
Admit(q) ==
  /\ req[q].stage = "arrived"
  /\ req' = [req EXCEPT ![q].stage = "got"]
  /\ UNCHANGED <<h, runs, chans, draining, closed, faults>>

\* Or it does not: the token, the protocol version, the method or the body is wrong.
RejectedBy == {"unauthorized", "invalid_argument"}
Reject(q, code) ==
  /\ faults < MaxFaults
  /\ req[q].stage = "arrived"
  /\ AnswerError(q, code)
  /\ faults' = faults + 1
  /\ UNCHANGED <<runs, draining, closed>>

\* The deadline of a request that is not a poll passes before anything is written.
RequestTimesOut(q) ==
  /\ faults < MaxFaults
  /\ req[q].stage = "got" /\ req[q].kind = "start"
  /\ AnswerError(q, "deadline_exceeded")
  /\ faults' = faults + 1
  /\ UNCHANGED <<runs, draining, closed>>

\* A handler panics wherever it is; what it has subscribed to is released on the way.
Panics(q) ==
  /\ faults < MaxFaults
  /\ req[q].stage \notin {"free", "arrived"}
  /\ AnswerError(q, "internal")
  /\ faults' = faults + 1
  /\ UNCHANGED <<runs, draining, closed>>

\* StartWorkflow on the server, one commit (RunChain has the detail).
StartWorkflow(q) ==
  /\ req[q].stage = "got" /\ req[q].kind = "start"
  /\ Return(q)
  /\ LET c == q[1] IN
     \/ /\ Deduplicated(c) # {}
        /\ runs' = runs
        /\ req[q].live => ReceiveStarted(c, CHOOSE k \in Deduplicated(c) : TRUE)
     \/ /\ Deduplicated(c) = {} /\ Current > 0 /\ Open(Current)
        /\ runs' = runs
        /\ req[q].live => ReceiveError(c, "already_exists")
     \/ /\ Deduplicated(c) = {} /\ (Current > 0 => ~Open(Current))
        /\ runs' = Append(runs, Begun(c, "start"))
        /\ req[q].live => ReceiveStarted(c, Current + 1)
  /\ UNCHANGED <<draining, closed, faults>>

\* The run was created and the answer to it could not be encoded.
StartedUnanswered(q) ==
  /\ faults < MaxFaults
  /\ req[q].stage = "got" /\ req[q].kind = "start"
  /\ Deduplicated(q[1]) = {} /\ (Current > 0 => ~Open(Current))
  /\ runs' = Append(runs, Begun(q[1], "start"))
  /\ AnswerError(q, "internal")
  /\ faults' = faults + 1
  /\ UNCHANGED <<draining, closed>>

\* getHistoryOnce, first read: the record of the run named, or of the current
\* run when the request names none.
GetExecution(q) ==
  /\ req[q].stage = "got" /\ req[q].kind = "history"
  /\ LET k == IF req[q].run = 0 THEN Current ELSE req[q].run IN
       req' = [req EXCEPT ![q].stage = "loaded",
                          ![q].rec = [run |-> k, last |-> runs[k].len, end |-> runs[k].end]]
  /\ UNCHANGED <<h, runs, chans, draining, closed, faults>>

HasNews(q) == req[q].rec.last >= req[q].from \/ ~req[q].wait

\* The subscription, taken after that read, and the next move, decided by it:
\* events to report, or a wait.  A closed notifier hands out a channel that is
\* closed already.  A closed run always has news for these cursors, which never pass
\* its closing event; a request that did would be answered with an empty page.
Subscribe(q) ==
  /\ req[q].stage = "loaded"
  /\ HasNews(q) \/ req[q].rec.end = "open"
  /\ LET w == IF req[q].rep \in closed THEN "fired" ELSE "live" IN
     /\ req' = [req EXCEPT ![q].stage = IF HasNews(q) THEN "reading" ELSE "parked", ![q].w = w]
     /\ chans' = IF w = "live" THEN [chans EXCEPT ![req[q].rep][req[q].rec.run] = @ + 1] ELSE chans
  /\ UNCHANGED <<h, runs, draining, closed, faults>>

\* The events are read now, the status is the one of the first read.
ReadHistory(q) ==
  /\ req[q].stage = "reading"
  /\ LET k == req[q].rec.run
         last == runs[k].len
     IN Answer(q, IF req[q].from > last
                  THEN Page(k, {}, "none", req[q].rec.end, req[q].from)
                  ELSE Page(k, req[q].from..last, IF Open(k) THEN "none" ELSE runs[k].end,
                            req[q].rec.end, last + 1))
  /\ UNCHANGED <<runs, draining, closed, faults>>

\* One turn of GetHistory's loop ends: the subscription is released and the next
\* turn reads again.
NextTurn(q) ==
  /\ req[q].stage = "parked"
  /\ chans' = Released(q)
  /\ req' = [req EXCEPT ![q].stage = "got", ![q].w = "none", ![q].rec = NoRec]
  /\ UNCHANGED <<h, runs, draining, closed, faults>>

\* The select of a parked poll: a write of this process was notified.
Wake(q) == req[q].w = "fired" /\ NextTurn(q)

\* Fault: the slow re-check runs only once the poll was notified.
RecheckNotified(q) == req[q].w = "fired" /\ NextTurn(q)

\* The slow re-check behind it, which may come at any time.
Recheck(q) == NextTurn(q)

\* Fault: the poll's context does not watch the drain.
PollEndedNoDrain(q) == ~req[q].live

\* The poll's context: the caller hung up, or the frontend is draining.
PollEnded(q) == ~req[q].live \/ (req[q].wait /\ req[q].rep \in draining)

\* The poll's context has ended while the call is in a store read or parked.
\* handleGetHistory answers a wait that ended with its context by an empty page.
Expire(q) ==
  /\ req[q].stage \in {"got", "reading", "parked"} /\ req[q].kind = "history"
  /\ PollEnded(q)
  /\ Answer(q, ExpiredPoll(q))
  /\ UNCHANGED <<runs, draining, closed, faults>>

\* The server's cap on a poll.
Cap(q) ==
  /\ req[q].stage = "parked"
  /\ Answer(q, ExpiredPoll(q))
  /\ UNCHANGED <<runs, draining, closed, faults>>

\* A read of the store fails: mapError gives the failure its one code.
StoreFails(q, code) ==
  /\ faults < MaxFaults
  /\ req[q].stage \in {"got", "reading"} /\ ~PollEnded(q)
  /\ AnswerError(q, code)
  /\ faults' = faults + 1
  /\ UNCHANGED <<runs, draining, closed>>

-----------------------------------------------------------------------------
(* What the network, the callers and the operators do.                     *)

\* Fault: the attempt that ran out of time is not canceled.
AttemptLostOpen(q) ==
  /\ faults < MaxFaults
  /\ req[q].live
  /\ req' = req
  /\ AttemptFails(q[1], "deadline_exceeded", TRUE)
  /\ faults' = faults + 1
  /\ UNCHANGED <<runs, chans, draining, closed>>

\* The attempt's own deadline passes, or the connection breaks, which
\* transportOutcome tells apart only by the code: the server is left with a request
\* nobody waits for.
AttemptLost(q) ==
  /\ faults < MaxFaults
  /\ req[q].live
  /\ req' = [req EXCEPT ![q].live = FALSE]
  /\ AttemptFails(q[1], "deadline_exceeded", TRUE)
  /\ faults' = faults + 1
  /\ UNCHANGED <<runs, chans, draining, closed>>

\* The caller's own context ends: no further attempt is made.
CallerGivesUp(c) ==
  /\ faults < MaxFaults
  /\ h[c].phase \in {"ready", "waiting"}
  /\ req' = [q \in Slots |-> IF q \in Mine(c) THEN [req[q] EXCEPT !.live = FALSE] ELSE req[q]]
  /\ Finish(c, "canceled")
  /\ faults' = faults + 1
  /\ UNCHANGED <<runs, chans, draining, closed>>

\* A rolling restart, which leaves a replica up: the frontend's Shutdown begins.
Shutdown(r) ==
  /\ faults < MaxFaults
  /\ r \in Restarting \ draining
  /\ draining' = draining \cup {r}
  /\ faults' = faults + 1
  /\ UNCHANGED <<h, runs, chans, closed, req>>

\* Shutdown returns, every request answered or the drain window over and the
\* connections closed, and skaldd closes the engine.
CloseEngine(r) ==
  /\ r \in draining \ closed
  /\ closed' = closed \cup {r}
  /\ req' = [q \in Slots |-> LET n == Notified(r, Runs)[q] IN
       IF n.rep = r THEN [n EXCEPT !.live = FALSE] ELSE n]
  /\ chans' = NotifiedChans(r, Runs)
  /\ UNCHANGED <<h, runs, draining, faults>>

\* The caller sees its connection closed.
ConnectionClosed(c) ==
  /\ h[c].phase = "waiting"
  /\ \A q \in Mine(c) : ~req[q].live
  /\ AttemptFails(c, "unavailable", TRUE)
  /\ UNCHANGED <<runs, chans, draining, closed, req, faults>>

-----------------------------------------------------------------------------
\* What a handler does without waiting for anything.
HandlerStep(q) ==
  \/ Admit(q) \/ StartWorkflow(q) \/ GetExecution(q) \/ Subscribe(q) \/ ReadHistory(q) \/ Wake(q)

ClientStep(c) ==
  \/ \E q \in Mine(c), r \in Replicas : Send(c, q, r)
  \/ ConnectionClosed(c)

Next ==
  \/ StartedElsewhere
  \/ \E q \in Slots : HandlerStep(q) \/ Recheck(q) \/ Expire(q) \/ Cap(q) \/ AttemptLost(q)
  \/ \E q \in Slots : RequestTimesOut(q) \/ Panics(q) \/ StartedUnanswered(q)
  \/ \E q \in Slots, code \in RejectedBy : Reject(q, code)
  \/ \E q \in Slots, code \in {"internal", "unavailable"} : StoreFails(q, code)
  \/ \E r \in Replicas : \/ Write(r) \/ ContinueAsNew(r)
                         \/ \E o \in Outcomes, retried \in BOOLEAN : CloseRun(r, o, retried)
                         \/ Shutdown(r) \/ CloseEngine(r)
  \/ \E c \in Callers : ClientStep(c) \/ CallerGivesUp(c) \/ \E op \in Ops[c] : MakeCall(c, op)

\* Handlers run on to their next wait, the re-check timer fires and the client's
\* goroutine goes on.  A context that has ended is noticed in the end: the store
\* asks for it at every read, and select chooses at random among the channels that
\* are ready.  The cap on a poll is not needed for anything below and not assumed.
Spec ==
  /\ Init /\ [][Next]_vars
  /\ \A q \in Slots : WF_vars(HandlerStep(q) \/ Recheck(q)) /\ SF_vars(Expire(q))
  /\ \A c \in Callers : WF_vars(ClientStep(c))

-----------------------------------------------------------------------------
\* Types.  A caller has at most one attempt it waits for, only such an attempt is
\* live, and a request holds a subscription exactly while it reads or is parked
\* (send, getHistoryOnce).
TypeOK ==
  /\ runs \in Seq([len : 1..MaxWrites + 2, end : {"open", "continued"} \cup Outcomes,
                   by : Callers \cup {Other}, origin : {"start", "run"}])
  /\ Len(runs) <= MaxRuns
  /\ chans \in [Replicas -> [Runs -> 0..Cardinality(Slots)]]
  /\ closed \subseteq draining /\ draining \subseteq Restarting
  /\ \A q \in Slots :
       /\ req[q].stage \in {"free", "arrived", "got", "loaded", "reading", "parked"}
       /\ req[q].w # "none" <=> req[q].stage \in {"reading", "parked"}
       /\ req[q].live => h[q[1]].phase = "waiting"
  /\ \A c \in Callers : h[c].attempt <= MaxAttempts
                        /\ Cardinality({q \in Mine(c) : req[q].live}) <= 1
  /\ faults <= MaxFaults

\* The notifier counts a run's waiters exactly: an entry is kept as long as a poll
\* waits on it, so that a write wakes it, and no longer, so that a run nobody
\* watches leaves nothing behind, whatever notify and close have replaced while a
\* poll was on its way out (notifier.subscribe).
SubscriptionsCounted ==
  \A r \in Replicas, k \in Runs :
    chans[r][k] = Cardinality({q \in Slots : req[q].w = "live" /\ req[q].rep = r
                                             /\ req[q].rec.run = k})

\* The server's books on its requests: each attempt, subscription and waiter counted
\* once (send, GetHistory, notifier).
WaitersCounted == TypeOK /\ SubscriptionsCounted

\* The runs a caller's start has created, successors left out.
StartedBy(c) == {k \in 1..Current : runs[k].by = c /\ runs[k].origin = "start"}

\* However often an attempt is repeated because its answer was lost or late, one
\* ExecuteWorkflow starts one run, and the handle it returns is for a run of its own
\* making or for a successor of it (applyStartDefaults).
StartedOnce ==
  \A c \in Callers :
    /\ Cardinality(StartedBy(c)) <= 1
    /\ h[c].op = "execute" /\ h[c].run > 0 =>
         \E k \in StartedBy(c) : \A j \in k..h[c].run - 1 : runs[j].end = "continued"

\* Result tells the truth about the chain of the run it was started on: it reports the
\* outcome of the first run of the chain that did not continue as new, and never a
\* corrupt history.  That run need not end the chain: a failure which the server retries
\* in a successor is reported as the failure it is (Result, awaitTerminal).
ResultIsTrue ==
  \A c \in Callers : h[c].op \in {"execute", "result"} =>
    /\ h[c].result # "corrupt"
    /\ h[c].result \in Outcomes =>
         /\ runs[h[c].run].end = h[c].result
         /\ LET first == IF h[c].op = "execute" THEN CHOOSE k \in StartedBy(c) : TRUE ELSE 1
            IN \A k \in first..h[c].run - 1 : runs[k].end = "continued"

\* History returns the run's events once each and in order, from the first to one at
\* least as late as when it was asked for, though the run grows between its pages.
HistoryIsPrefix ==
  \A c \in Callers : h[c].op = "history" /\ h[c].result = "ok" =>
    /\ h[c].all = [i \in 1..Len(h[c].all) |-> <<h[c].run, i>>]
    /\ Len(h[c].all) >= h[c].floor

\* What a caller is told is true, the outcome of a run as well as the events of a run
\* (Result, History).
AnswersAreTrue == ResultIsTrue /\ HistoryIsPrefix

\* The chain a call waits for has come to a run that did not continue as new.
ChainEnded(c) ==
  \E k \in 1..Current : /\ h[c].run \in 1..k /\ runs[k].end \in Outcomes
                       /\ \A j \in h[c].run..k - 1 : runs[j].end = "continued"

\* Once there is such a run every Result returns, also when the last event was
\* written on another replica, whose writes wake nobody here, and when the replica
\* serving the poll shuts down (GetHistory's re-check).
ResultReturns ==
  \A c \in Callers : (h[c].phase \in {"ready", "waiting"} /\ ChainEnded(c)) ~> (h[c].phase = "done")

\* A draining frontend is rid of its requests, parked polls included, without
\* waiting for their cap (Shutdown, pollContext).
DrainEnds ==
  \A r \in Restarting :
    (r \in draining) ~> (\A q \in Slots : req[q].rep = r => req[q].stage = "free")

=============================================================================
