-------------------------------- MODULE Timers ---------------------------------
(***************************************************************************)
(* internal/timers: the loop that reads a page of due entries, hands each  *)
(* to the engine and deletes it, its Start and Stop, and the engine's own  *)
(* writes to the index going on meanwhile.                                 *)
(*                                                                         *)
(*   index    the durable index; `seen` and `raced` are history: the entry  *)
(*           was dispatched since it was armed, it was armed while the     *)
(*           loop had an older entry of its key in hand                  *)
(*   now     the clock, which stays at MaxTime once it is there            *)
(*   loop    the loop's goroutine: where it is, the page it is working on, *)
(*           the delay before its next scan, consecutive failures          *)
(*   stop    the stop channel is closed                                    *)
(*   hard    the context of in-flight dispatches is cancelled              *)
(*   caller  of Stop: "none", "waiting", "hard", or what it returned       *)
(*   arms, crashes   how often the engine armed an entry, the process died *)
(***************************************************************************)
EXTENDS TimerIndex

CONSTANTS
  Keys,                         \* timer keys, a set of naturals
  Broken,                       \* keys whose dispatch always fails
  Batch,                        \* BatchSize
  Interval, MaxWait, Jitter,    \* Interval, MaxBackoff, the most the jitter adds
  MaxTime,                      \* bound: the clock
  MaxFailures,                  \* bound: 2^MaxFailures exceeds MaxWait, more change nothing
  MaxArms, MaxCrashes           \* bounds

ASSUME TimersAssumption ==
  /\ Keys \subseteq Nat /\ Broken \subseteq Keys
  /\ {Batch, Interval} \subseteq Nat \ {0}
  /\ {MaxWait, Jitter, MaxTime, MaxFailures, MaxArms, MaxCrashes} \subseteq Nat
  /\ Cardinality(Broken) < Batch /\ Interval * 2 ^ MaxFailures >= MaxWait

VARIABLES index, now, loop, stop, hard, caller, arms, crashes
vars == <<index, now, loop, stop, hard, caller, arms, crashes>>
shutdown == <<stop, hard, caller>>

Times == 0 .. MaxTime

\* The index without the entry under a key.
Without(k) == {e \in index : e.key # k}

-------------------------------------------------------------------------------
\* The loop.

\* Fault: the backoff is not capped.
WaitUncapped(failures) ==
  Interval * 2 ^ failures .. Interval * 2 ^ failures + Jitter

\* The delays wait() may return: the interval, or a capped power of two, plus jitter.
Wait(failures) ==
  LET backoff == IF failures = 0 THEN Interval ELSE Interval * 2 ^ failures
      base == IF failures > 0 /\ backoff > MaxWait THEN MaxWait ELSE backoff
  IN base .. base + Jitter

Idle == [at |-> "new", page |-> <<>>, wait |-> 0, failures |-> 0]

\* The scan is over, with or without an error: reset the timer.
EndScan(failed) ==
  LET f == IF failed THEN (IF loop.failures < MaxFailures THEN loop.failures + 1 ELSE MaxFailures)
           ELSE 0
  IN \E d \in Wait(f) :
       loop' = [at |-> "wait", page |-> <<>>, wait |-> d, failures |-> f]

\* The next record of the page, or the end of the scan.
NextRecord ==
  IF Len(loop.page) > 1 THEN loop' = [loop EXCEPT !.at = "dispatch", !.page = Tail(@)]
  ELSE EndScan(FALSE)

\* Start, unless Stop has claimed the latch.
Start ==
  /\ loop.at = "new"
  /\ \E d \in Wait(0) : loop' = [Idle EXCEPT !.at = "wait", !.wait = d]
  /\ UNCHANGED <<index, now, stop, hard, caller, arms, crashes>>

\* The stop channel, or the cancelled context, is noticed between scans.
LoopEnds ==
  /\ loop.at = "wait" /\ (stop \/ hard)
  /\ loop' = [Idle EXCEPT !.at = "done"]
  /\ UNCHANGED <<index, now, stop, hard, caller, arms, crashes>>

\* DueTimers; it fails when the store does and always once the context is cancelled.
ReadPage ==
  /\ loop.at = "wait" /\ loop.wait = 0 /\ ~hard
  /\ LET page == DueRows(index, now, Batch)
     IN IF page = <<>> THEN EndScan(FALSE)
        ELSE loop' = [loop EXCEPT !.at = "dispatch", !.page = page]
  /\ index' = {[e EXCEPT !.raced = FALSE] : e \in index}
  /\ UNCHANGED <<now, stop, hard, caller, arms, crashes>>

ReadPageFails ==
  /\ loop.at = "wait" /\ loop.wait = 0
  /\ EndScan(TRUE)
  /\ UNCHANGED <<index, now, stop, hard, caller, arms, crashes>>

\* Between two records, a cancelled context ends the scan with its error.
Abandon ==
  /\ loop.at = "dispatch" /\ hard
  /\ EndScan(TRUE)
  /\ UNCHANGED <<index, now, stop, hard, caller, arms, crashes>>

\* The callback starts: the engine is about to look at the entry.
Dispatch ==
  /\ loop.at = "dispatch" /\ ~hard
  /\ loop' = [loop EXCEPT !.at = "calling"]
  /\ UNCHANGED <<index, now, stop, hard, caller, arms, crashes>>

\* The callback returns nil for the entry it was given.
Absorb(k) ==
  /\ loop.at = "calling" /\ k = Head(loop.page).key /\ k \notin Broken
  /\ loop' = [loop EXCEPT !.at = "delete"]
  /\ index' = {[e EXCEPT !.seen = @ \/ (e.key = k /\ ~e.raced)] : e \in index}
  /\ UNCHANGED <<now, stop, hard, caller, arms, crashes>>

\* Fault: a failed dispatch falls through to the delete.
RefusedIsDeleted ==
  /\ loop.at = "calling"
  /\ loop' = [loop EXCEPT !.at = "delete"]
  /\ UNCHANGED <<index, now, stop, hard, caller, arms, crashes>>

\* Fault: a failed dispatch ends the scan.
RefusedEndsScan ==
  /\ loop.at = "calling"
  /\ EndScan(TRUE)
  /\ UNCHANGED <<index, now, stop, hard, caller, arms, crashes>>

\* The callback fails: the entry stays.
Refused ==
  /\ loop.at = "calling"
  /\ NextRecord
  /\ UNCHANGED <<index, now, stop, hard, caller, arms, crashes>>

\* DeleteTimers removes what the index now holds under the key.
DeleteEntry(k) ==
  /\ loop.at = "delete" /\ ~hard /\ k = Head(loop.page).key
  /\ index' = Without(k)
  /\ NextRecord
  /\ UNCHANGED <<now, stop, hard, caller, arms, crashes>>

DeleteFails ==
  /\ loop.at = "delete"
  /\ NextRecord
  /\ UNCHANGED <<index, now, stop, hard, caller, arms, crashes>>

-------------------------------------------------------------------------------
\* Stop.

\* Closes the channel; a loop that was never started counts as drained.
StopBegins ==
  /\ caller = "none" /\ caller' = "waiting"
  /\ stop' = TRUE
  /\ loop' = IF loop.at = "new" THEN [Idle EXCEPT !.at = "done"] ELSE loop
  /\ UNCHANGED <<index, now, hard, arms, crashes>>

\* The caller's deadline: the in-flight dispatch is cancelled, and still waited for.
StopExpires ==
  /\ caller = "waiting" /\ caller' = "hard"
  /\ hard' = TRUE
  /\ UNCHANGED <<index, now, loop, stop, arms, crashes>>

\* Fault: Stop does not wait for the loop after its deadline.
StopReturnsAtOnce ==
  /\ caller \in {"waiting", "hard"} /\ (caller = "hard" \/ loop.at = "done")
  /\ caller' = IF caller = "hard" THEN "expired" ELSE "stopped"
  /\ UNCHANGED <<index, now, loop, stop, hard, arms, crashes>>

StopReturns ==
  /\ caller \in {"waiting", "hard"} /\ loop.at = "done"
  /\ caller' = IF caller = "hard" THEN "expired" ELSE "stopped"
  /\ UNCHANGED <<index, now, loop, stop, hard, arms, crashes>>

-------------------------------------------------------------------------------
\* The engine, the clock and the process.

Busy(k) == \E i \in DOMAIN loop.page : loop.page[i].key = k

\* A write of the engine arms an entry, or moves the one under its key.
Arm(k, at) ==
  /\ arms < MaxArms /\ arms' = arms + 1
  /\ index' = Without(k) \cup {[key |-> k, at |-> at, seen |-> FALSE, raced |-> Busy(k)]}
  /\ UNCHANGED <<now, loop, stop, hard, caller, crashes>>

Disarm(k) ==
  /\ \E e \in index : e.key = k
  /\ index' = Without(k)
  /\ UNCHANGED <<now, loop, stop, hard, caller, arms, crashes>>

Tick ==
  /\ now < MaxTime \/ loop.wait > 0
  /\ now' = IF now < MaxTime THEN now + 1 ELSE now
  /\ loop' = IF loop.wait > 0 THEN [loop EXCEPT !.wait = @ - 1] ELSE loop
  /\ UNCHANGED <<index, stop, hard, caller, arms, crashes>>

\* The process dies, wherever the loop is, and is started again.
Crash ==
  /\ crashes < MaxCrashes /\ crashes' = crashes + 1
  /\ loop' = Idle /\ stop' = FALSE /\ hard' = FALSE /\ caller' = "none"
  /\ UNCHANGED <<index, now, arms>>

-------------------------------------------------------------------------------
Init ==
  /\ index = {} /\ now = 0 /\ loop = Idle
  /\ stop = FALSE /\ hard = FALSE /\ caller = "none"
  /\ arms = 0 /\ crashes = 0

LoopStep ==
  \/ Start \/ LoopEnds \/ ReadPage \/ ReadPageFails \/ Abandon \/ Dispatch
  \/ \E k \in Keys : Absorb(k) \/ DeleteEntry(k)
  \/ Refused \/ DeleteFails

Next ==
  \/ LoopStep
  \/ StopBegins \/ StopExpires \/ StopReturns
  \/ \E k \in Keys : Disarm(k) \/ \E at \in Times : Arm(k, at)
  \/ Tick \/ Crash

\* Goroutines run, the clock ticks, and no failure of the store or of a healthy
\* transition lasts for ever.
Spec ==
  /\ Init /\ [][Next]_vars
  /\ WF_vars(LoopStep) /\ WF_vars(StopReturns) /\ WF_vars(Tick)
  /\ SF_vars(ReadPage)
  /\ \A k \in Keys : SF_vars(Absorb(k)) /\ SF_vars(DeleteEntry(k))

-------------------------------------------------------------------------------
\* Types; a delay never exceeds the longest backoff and its jitter (wait).
TypeOK ==
  /\ index \subseteq [key : Keys, at : Times, seen : BOOLEAN, raced : BOOLEAN]
  /\ loop.at \in {"new", "wait", "dispatch", "calling", "delete", "done"}
  /\ Len(loop.page) <= Batch /\ (loop.page = <<>> <=> loop.at \in {"new", "wait", "done"})
  /\ loop.wait <= Jitter + (IF MaxWait > Interval THEN MaxWait ELSE Interval)
  /\ caller \in {"none", "waiting", "hard", "stopped", "expired"}

\* Once Stop has returned, on either path, the loop is gone: no callback is running
\* and none will be (Stop waits for done even after its deadline).
StopDrains == caller \in {"stopped", "expired"} => loop.at = "done"

\* The loop stays within its page and its longest wait, and ends with Stop (loop, Stop).
LoopSound == TypeOK /\ StopDrains

\* The loop removes an entry that was dispatched; the only other entry it can remove
\* is one the engine armed under the same key while the loop had the older one in its
\* page.  Crashes and failures at any point lose nothing (scan).
OnlyServedAreRemoved ==
  [][\A e \in index :
       (loop' # loop /\ ~\E f \in index' : f.key = e.key) => e.seen \/ e.raced]_vars

DueAt(k) == \E e \in index : e.key = k /\ e.at <= now

\* A due entry does not stay in the index for ever, though Broken entries, fewer than
\* a page of them, fail at every scan: it is served, moved or removed, unless the
\* service is stopped (scan reads the earliest page and leaves the failing ones in it).
DueIsServed ==
  \A k \in Keys \ Broken : DueAt(k) ~> (stop \/ ~DueAt(k))
===============================================================================
