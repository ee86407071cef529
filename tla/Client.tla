------------------------------- MODULE Client -------------------------------
(***************************************************************************)
(* The client (pkg/client): the send loop that repeats an attempt,         *)
(* ExecuteWorkflow, and a handle's Result and History.  Module LongPoll    *)
(* puts the servers next to it.                                            *)
(*                                                                         *)
(*   h.op       "execute" (ExecuteWorkflow, then Result), "result" (Result *)
(*              on a handle from NewHandle) or "history"                   *)
(*   h.phase    "idle", "ready" to make an attempt, "waiting" for its      *)
(*              answer, "done"                                             *)
(*   h.attempt  the attempt of the current send call                       *)
(*   h.run      the run addressed, 0 before a start                        *)
(*   h.from     the cursor                                                 *)
(*   h.all      History's events, as pairs of run and event ID             *)
(*   h.floor    how long the run was when the call was made                *)
(*   h.result   what the call returned                                     *)
(*                                                                         *)
(* A page is [run, events, term, end, next]: the run and the IDs of its    *)
(* events, what its terminal event says if it is among them, the status of *)
(* the run and the cursor to go on from.                                   *)
(***************************************************************************)
EXTENDS Naturals, Sequences, FiniteSets

CONSTANTS Callers,      \* the client calls
          Ops,          \* the operations each of them may be
          MaxAttempts   \* RetryPolicy.MaxAttempts of the client

VARIABLE h

\* How a chain of runs ends; cancellation, termination and timeouts are as a failure.
Outcomes == {"completed", "failed"}

NotCalled == [op |-> "none", phase |-> "idle", attempt |-> 0, run |-> 0, from |-> 0,
              all |-> <<>>, floor |-> 0, result |-> "none"]

ClientInit == h = [c \in Callers |-> NotCalled]

-----------------------------------------------------------------------------
(* Codes and statuses.                                                     *)

\* statusForCode, by the frontend.
Status(code) ==
  CASE code = "invalid_argument" -> 400
    [] code = "unauthorized" -> 401
    [] code = "not_found" -> 404
    [] code \in {"already_exists", "version_conflict"} -> 409
    [] code = "failed_precondition" -> 412
    [] code = "resource_exhausted" -> 429
    [] code = "unavailable" -> 503
    [] code = "deadline_exceeded" -> 504
    [] OTHER -> 500

\* codeForStatus, by the client, for an answer whose body a proxy replaced.
CodeForStatus(status) ==
  CASE status \in {400, 413, 415} -> "invalid_argument"
    [] status \in {401, 403} -> "unauthorized"
    [] status \in {404, 405} -> "not_found"
    [] status = 409 -> "already_exists"
    [] status = 412 -> "failed_precondition"
    [] status = 429 -> "resource_exhausted"
    [] status \in {502, 503} -> "unavailable"
    [] status \in {408, 504} -> "deadline_exceeded"
    [] OTHER -> "internal"

\* retryableResponse.
Retryable(status, code) == code = "unavailable" \/ status >= 500

-----------------------------------------------------------------------------
(* The calls.                                                              *)

\* The caller makes its call, on a run of the given length (none: 0, 0).
Call(c, op, run, len) ==
  /\ h[c].phase = "idle"
  /\ h' = [h EXCEPT ![c] = [NotCalled EXCEPT !.op = op, !.phase = "ready", !.attempt = 1,
                                             !.run = run, !.from = 1, !.floor = len]]

\* ExecuteWorkflow has not learned its run yet.
Starting(c) == h[c].op = "execute" /\ h[c].run = 0

\* One attempt leaves.
Attempt(c) == h[c].phase = "ready" /\ h' = [h EXCEPT ![c].phase = "waiting"]

Finish(c, result) ==
  h' = [h EXCEPT ![c].phase = "done", ![c].result = result, ![c].attempt = 0, ![c].from = 0]

\* The send loop after a failed attempt.
AttemptFails(c, code, retryable) ==
  IF retryable /\ h[c].attempt < MaxAttempts
  THEN h' = [h EXCEPT ![c].phase = "ready", ![c].attempt = @ + 1]
  ELSE Finish(c, code)

\* An error arrives; a proxy may have replaced its body.
ReceiveError(c, sent) ==
  \E body \in BOOLEAN :
    LET status == Status(sent)
        code == IF body THEN sent ELSE CodeForStatus(status)
    IN AttemptFails(c, code, Retryable(status, code))

\* The next call of the loop.
Again(c, run, from, all) ==
  h' = [h EXCEPT ![c].phase = "ready", ![c].attempt = 1, ![c].run = run,
                 ![c].from = from, ![c].all = all]

\* decodeTerminal: the outcome, as a value the caller may fail to decode or as a
\* typed error.
DecodeTerminal(c, term) ==
  \/ Finish(c, term)
  \/ term = "completed" /\ Finish(c, "invalid_argument")

\* awaitTerminal, and the loop of Result around it.
AwaitTerminal(c, page) ==
  CASE page.term = "continued" -> Again(c, page.run + 1, 1, <<>>)
    [] page.term \in Outcomes -> DecodeTerminal(c, page.term)
    [] page.term = "none" /\ page.next > h[c].from -> Again(c, h[c].run, page.next, <<>>)
    [] page.term = "none" /\ page.next <= h[c].from /\ page.end # "open" -> Finish(c, "corrupt")
    [] OTHER -> Again(c, h[c].run, h[c].from, <<>>)

\* Fault: the cursor moves one event too far.
HistorySkips(c, page) ==
  IF page.events = {} \/ page.next <= h[c].from
  THEN Finish(c, "ok")
  ELSE Again(c, h[c].run, page.next + 1,
             h[c].all \o [i \in 1..Cardinality(page.events) |-> <<page.run, h[c].from + i - 1>>])

\* History: pages until one is empty.
History(c, page) ==
  IF page.events = {} \/ page.next <= h[c].from
  THEN Finish(c, "ok")
  ELSE Again(c, h[c].run, page.next,
             h[c].all \o [i \in 1..Cardinality(page.events) |-> <<page.run, h[c].from + i - 1>>])

Receive(c, page) ==
  IF h[c].op = "history" THEN History(c, page) ELSE AwaitTerminal(c, page)

\* ExecuteWorkflow has its run, and Result follows.
ReceiveStarted(c, run) == Again(c, run, 1, <<>>)
=============================================================================
