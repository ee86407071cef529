---------------------------- MODULE LongPollProofs ----------------------------
(***************************************************************************)
(* For any number of callers, replicas and requests in flight, what module *)
(* LongPoll's callers are told is true, a start is made once, and the      *)
(* notifier counts its waiters.  The invariant ties three copies of the    *)
(* same facts together: the store's runs, the record a request read of a   *)
(* run some time ago, and the caller's own cursor.  Runs only ever grow,   *)
(* and a closed run does not change, so an old copy stays usable.          *)
(***************************************************************************)
EXTENDS LongPoll, SequenceTheorems, FiniteSetTheorems, TLAPS

Ends == {"open", "continued"} \cup Outcomes
RunRecs == [len : Nat \ {0}, end : Ends, by : Callers \cup {Other}, origin : {"start", "run"}]
Codes == {"invalid_argument", "unauthorized", "not_found", "already_exists", "version_conflict",
          "failed_precondition", "resource_exhausted", "unavailable", "deadline_exceeded",
          "internal"}
Results == Codes \cup Outcomes \cup {"none", "ok", "corrupt", "canceled"}
ClientRecs ==
  [op : {"none", "execute", "result", "history"}, phase : {"idle", "ready", "waiting", "done"},
   attempt : Nat, run : Nat, from : Nat, all : Seq(Nat \X Nat), floor : Nat,
   result : Results]
Stages == {"free", "arrived", "got", "loaded", "reading", "parked"}
Requests ==
  [stage : Stages, kind : {"start", "history"}, rep : Replicas, run : Nat, from : Nat,
   wait : BOOLEAN, rec : [run : Nat, last : Nat, end : Ends],
   w : {"none", "live", "fired"}, live : BOOLEAN]

\* StartedBy and Extra, of any store.
Begins(rs, k) == rs[k].origin = "start"
StartedIn(rs, c) == {k \in 1 .. Len(rs) : rs[k].by = c /\ Begins(rs, k)}
ExtraIn(rs) == {k \in 1 .. Len(rs) : rs[k].by = Other \/ ~Begins(rs, k)}

\* The store: only the last run may be open, a run that continued has its successor,
\* and each caller's start is there once.
RunsOK(rs) ==
  /\ rs \in Seq(RunRecs)
  /\ \A k \in 1 .. Len(rs) : k < Len(rs) => rs[k].end # "open"
  /\ \A k \in 1 .. Len(rs) : rs[k].end = "continued" => k < Len(rs)
  /\ \A k \in 1 .. Len(rs) : rs[k].len <= MaxWrites + (IF rs[k].end = "open" THEN 1 ELSE 2)
  /\ \A c \in Callers : \A j, k \in StartedIn(rs, c) : j = k
  /\ Cardinality(ExtraIn(rs)) <= MaxExtra

Chain(rs, from, to) == \A j \in from .. to - 1 : rs[j].end = "continued"

\* The first events of a run, as History returns them.
FirstOf(run, s) == \A i \in 1 .. Len(s) : s[i] = <<run, i>>

\* A caller: where its run stands in the chain it follows, what it has of a history,
\* and that what it returned is what the store says.
ClientOK(c, x, rs) ==
  /\ x.attempt <= MaxAttempts
  /\ x.op = "none" <=> x.phase = "idle"
  /\ x.phase # "done" => x.result = "none"
  /\ x.run <= Len(rs)
  /\ x.op \in {"result", "history"} => x.run >= 1
  /\ x.op = "execute" /\ x.run > 0 => \E k \in StartedIn(rs, c) : Chain(rs, k, x.run)
  /\ x.op = "result" => Chain(rs, 1, x.run)
  /\ x.op = "history" =>
       /\ FirstOf(x.run, x.all)
       /\ x.floor <= rs[x.run].len
       /\ x.phase # "done" => x.from = Len(x.all) + 1
       /\ x.result = "ok" => Len(x.all) >= x.floor
  /\ x.op # "history" =>
       /\ x.result # "corrupt"
       /\ x.result \in Outcomes => x.run >= 1 /\ rs[x.run].end = x.result

\* A request: what it has read of its run may be old, and is never wrong.
Shape(y, rs) ==
  /\ y.w # "none" <=> y.stage \in {"reading", "parked"}
  /\ y.stage # "free" /\ y.kind = "history" => y.run \in 1 .. Len(rs)
  /\ y.stage \in {"loaded", "reading", "parked"} =>
       /\ y.kind = "history" /\ y.rec.run = y.run
       /\ y.rec.last <= rs[y.run].len
       /\ y.rec.end # "open" => rs[y.run].end = y.rec.end
  /\ y.stage = "reading" => y.rec.last >= y.from \/ ~y.wait
  /\ y.stage = "parked" => y.wait

\* The attempt a caller waits for is about what the caller is at.
Matches(y, x) ==
  /\ x.phase = "waiting" /\ y.stage # "free"
  /\ y.run = x.run /\ y.from = x.from
  /\ y.kind = "start" <=> x.op = "execute" /\ x.run = 0
  /\ y.wait <=> x.op # "history"

OneLive == \A p, q \in Slots : req[p].live /\ req[q].live /\ p[1] = q[1] => p = q

Subscribed(rq, r, k) ==
  {q \in Slots : rq[q].w = "live" /\ rq[q].rep = r /\ rq[q].rec.run = k}

Counted ==
  /\ chans \in [Replicas -> [Runs -> Nat]]
  /\ \A r \in Replicas, k \in Runs : chans[r][k] = Cardinality(Subscribed(req, r, k))

Clients == h \in [Callers -> ClientRecs] /\ \A c \in Callers : ClientOK(c, h[c], runs)

InFlight ==
  /\ req \in [Slots -> Requests]
  /\ \A q \in Slots : Shape(req[q], runs) /\ (req[q].live => Matches(req[q], h[q[1]]))
  /\ OneLive

Operators ==
  /\ closed \subseteq draining /\ draining \subseteq Restarting
  /\ faults \in Nat /\ faults <= MaxFaults

Inv == RunsOK(runs) /\ Clients /\ InFlight /\ Counted /\ Operators

-----------------------------------------------------------------------------
(* The store.                                                              *)

\* What the store may have become: no run is lost, a closed one is as it was.
Grows(rs, rt) ==
  /\ Len(rs) <= Len(rt)
  /\ \A k \in 1 .. Len(rs) : /\ rt[k].by = rs[k].by /\ rt[k].origin = rs[k].origin
                             /\ rs[k].len <= rt[k].len
                             /\ rs[k].end # "open" => rt[k] = rs[k]

LEMMA SameGrows ==
  ASSUME NEW rs, RunsOK(rs)
  PROVE  Grows(rs, rs)
<1>1. \A k \in 1 .. Len(rs) : rs[k] \in RunRecs
  BY DEF RunsOK
<1> QED  BY <1>1 DEF Grows, RunsOK, RunRecs

\* A caller's start stays its start.
LEMMA StartedGrows ==
  ASSUME NEW rs, NEW rt, RunsOK(rs), Grows(rs, rt), NEW c
  PROVE  StartedIn(rs, c) \subseteq StartedIn(rt, c)
<1> SUFFICES ASSUME NEW k \in StartedIn(rs, c)
             PROVE  k \in StartedIn(rt, c)
  OBVIOUS
<1>1. k \in 1 .. Len(rs) /\ rs[k].by = c /\ rs[k].origin = "start"
  BY DEF StartedIn, Begins
<1>2. k \in 1 .. Len(rt) /\ rt[k].by = c /\ rt[k].origin = "start"
  BY <1>1 DEF Grows, RunsOK
<1> QED  BY <1>2 DEF StartedIn, Begins

LEMMA ChainGrows ==
  ASSUME NEW rs, NEW rt, RunsOK(rs), Grows(rs, rt), NEW a \in Nat \ {0}, NEW b \in Nat,
         b <= Len(rs), Chain(rs, a, b)
  PROVE  Chain(rt, a, b)
<1> SUFFICES ASSUME NEW j \in a .. b - 1
             PROVE  rt[j].end = "continued"
  BY DEF Chain
<1>1. j \in 1 .. Len(rs) /\ rs[j].end = "continued"
  BY DEF Chain, RunsOK
<1> QED  BY <1>1 DEF Grows

\* What a caller knows stays true while the store grows.
LEMMA ClientGrows ==
  ASSUME NEW rs, NEW rt, RunsOK(rs), RunsOK(rt), Grows(rs, rt),
         NEW c, NEW x \in ClientRecs, ClientOK(c, x, rs)
  PROVE  ClientOK(c, x, rt)
<1>1. x.run <= Len(rs) /\ x.run \in Nat /\ x.attempt \in Nat /\ x.floor \in Nat
  BY DEF ClientOK, ClientRecs
<1>2. Len(rs) \in Nat /\ Len(rt) \in Nat /\ Len(rs) <= Len(rt)
  BY DEF RunsOK, Grows
<1>3. ASSUME x.op = "execute", x.run > 0
      PROVE  \E k \in StartedIn(rt, c) : Chain(rt, k, x.run)
  <2>1. PICK k \in StartedIn(rs, c) : Chain(rs, k, x.run)
    BY <1>3 DEF ClientOK
  <2>2. k \in Nat \ {0} /\ k \in StartedIn(rt, c)
    BY StartedGrows DEF StartedIn
  <2>3. Chain(rt, k, x.run)
    BY <2>1, <2>2, <1>1, ChainGrows
  <2> QED  BY <2>2, <2>3
<1>4. x.op = "result" => Chain(rt, 1, x.run)
  <2>1. ASSUME x.op = "result" PROVE Chain(rt, 1, x.run)
    <3>1. Chain(rs, 1, x.run)
      BY <2>1 DEF ClientOK
    <3> QED  BY <3>1, <1>1, ChainGrows
  <2> QED  BY <2>1
<1>5. x.run >= 1 => /\ x.run \in 1 .. Len(rs)
                    /\ rs[x.run].len \in Nat /\ rt[x.run].len \in Nat
                    /\ rs[x.run].len <= rt[x.run].len
                    /\ rs[x.run].end # "open" => rt[x.run] = rs[x.run]
  <2> HAVE x.run >= 1
  <2>1. x.run \in 1 .. Len(rs) /\ x.run \in 1 .. Len(rt)
    BY <1>1, <1>2
  <2>2. rs[x.run] \in RunRecs /\ rt[x.run] \in RunRecs
    BY <2>1 DEF RunsOK
  <2> QED  BY <2>1, <2>2 DEF RunRecs, Grows
<1>6. x.op = "history" => x.floor <= rt[x.run].len
  BY <1>1, <1>5 DEF ClientOK
<1>7. x.op # "history" /\ x.result \in Outcomes => x.run >= 1 /\ rt[x.run].end = x.result
  BY <1>1, <1>5 DEF ClientOK, Outcomes
<1>8. x.run <= Len(rt)
  BY <1>1, <1>2
<1> QED  BY <1>3, <1>4, <1>6, <1>7, <1>8 DEF ClientOK

\* So does what a request has read.
LEMMA ShapeGrows ==
  ASSUME NEW rs, NEW rt, RunsOK(rs), RunsOK(rt), Grows(rs, rt),
         NEW y \in Requests, Shape(y, rs)
  PROVE  Shape(y, rt)
<1>1. y.run \in Nat /\ y.rec.last \in Nat /\ Len(rs) \in Nat /\ Len(rt) \in Nat /\ Len(rs) <= Len(rt)
  BY DEF Requests, RunsOK, Grows
<1>2. y.run \in 1 .. Len(rs) => y.run \in 1 .. Len(rt)
  BY <1>1
<1>3. y.run \in 1 .. Len(rs) => /\ rs[y.run].len \in Nat /\ rt[y.run].len \in Nat
                                /\ rs[y.run].len <= rt[y.run].len
                                /\ rs[y.run].end # "open" => rt[y.run] = rs[y.run]
  <2> HAVE y.run \in 1 .. Len(rs)
  <2>1. rs[y.run] \in RunRecs /\ rt[y.run] \in RunRecs
    BY <1>2 DEF RunsOK
  <2> QED  BY <2>1 DEF RunRecs, Grows
<1>4. ASSUME y.stage \in {"loaded", "reading", "parked"}
      PROVE  /\ y.rec.last <= rt[y.run].len
             /\ y.rec.end # "open" => rt[y.run].end = y.rec.end
  <2>1. y.run \in 1 .. Len(rs) /\ y.rec.last <= rs[y.run].len
        /\ (y.rec.end # "open" => rs[y.run].end = y.rec.end)
    BY <1>4 DEF Shape
  <2> QED  BY <1>1, <1>3, <2>1
<1> QED  BY <1>2, <1>4 DEF Shape

LEMMA UpTo ==
  ASSUME NEW n \in Nat
  PROVE  IsFiniteSet(1 .. n) /\ Cardinality(1 .. n) = n
<1>1. 1 \in Int /\ n \in Int
  OBVIOUS
<1>2. IsFiniteSet(1 .. n) /\ Cardinality(1 .. n) = IF 1 > n THEN 0 ELSE n - 1 + 1
  BY <1>1, FS_Interval
<1> QED  BY <1>2

LEMMA ExtraFinite ==
  ASSUME NEW rs, Len(rs) \in Nat
  PROVE  /\ ExtraIn(rs) \subseteq 1 .. Len(rs)
         /\ IsFiniteSet(ExtraIn(rs)) /\ Cardinality(ExtraIn(rs)) \in Nat
<1>1. ExtraIn(rs) \in SUBSET (1 .. Len(rs)) /\ IsFiniteSet(1 .. Len(rs))
  BY UpTo DEF ExtraIn
<1>2. IsFiniteSet(ExtraIn(rs))
  <2> HIDE DEF ExtraIn
  <2> QED  BY <1>1, FS_Subset
<1> QED  BY <1>1, <1>2, FS_CardinalityType

\* One more event, field by field.
GrownBy(rs, rt, e) ==
  /\ rt \in Seq(RunRecs) /\ Len(rt) = Len(rs)
  /\ \A k \in 1 .. Len(rs) : k # Len(rs) => rt[k] = rs[k]
  /\ rt[Len(rs)].by = rs[Len(rs)].by /\ rt[Len(rs)].origin = rs[Len(rs)].origin
  /\ rt[Len(rs)].end = e
  /\ rs[Len(rs)].len \in Nat /\ rt[Len(rs)].len = rs[Len(rs)].len + 1

LEMMA RunGrown ==
  ASSUME NEW rs \in Seq(RunRecs), Len(rs) > 0, NEW e \in Ends,
         NEW rt, rt = [rs EXCEPT ![Len(rs)].len = @ + 1, ![Len(rs)].end = e]
  PROVE  GrownBy(rs, rt, e)
<1> DEFINE n == Len(rs)
<1>1. n \in Nat \ {0} /\ n \in 1 .. Len(rs)
  OBVIOUS
<1> DEFINE v == [rs[n] EXCEPT !.len = @ + 1, !.end = e]
<1>2. v \in RunRecs /\ v.by = rs[n].by /\ v.origin = rs[n].origin /\ v.end = e /\ v.len = rs[n].len + 1 /\ rs[n].len \in Nat
  <2>1. rs[n] \in RunRecs
    BY <1>1
  <2>2. rs[n].len + 1 \in Nat \ {0}
    BY <2>1 DEF RunRecs
  <2> QED  BY <2>1, <2>2 DEF RunRecs, Ends
<1>3. rt = [rs EXCEPT ![n] = v]
  OBVIOUS
<1> HIDE DEF v
<1>4. /\ [rs EXCEPT ![n] = v] \in Seq(RunRecs)
      /\ Len([rs EXCEPT ![n] = v]) = Len(rs)
      /\ \A j \in 1 .. Len(rs) : [rs EXCEPT ![n] = v][j] = IF j = n THEN v ELSE rs[j]
  <2> HIDE DEF n
  <2> QED  BY <1>1, <1>2, ExceptSeq
<1> QED  BY <1>1, <1>2, <1>3, <1>4 DEF GrownBy

\* A run that ends, or only grows by an event.
LEMMA RunAppends ==
  ASSUME NEW rs, RunsOK(rs), Len(rs) > 0, rs[Len(rs)].end = "open",
         NEW e \in {"open"} \cup Outcomes, e = "open" => rs[Len(rs)].len <= MaxWrites,
         NEW rt, GrownBy(rs, rt, e)
  PROVE  RunsOK(rt) /\ Grows(rs, rt)
<1> DEFINE n == Len(rs)
<1>1. n \in Nat \ {0} /\ rs \in Seq(RunRecs) /\ MaxWrites \in Nat /\ e \in Ends
  BY LongPollAssumption DEF RunsOK, Ends
<1>2. \A k \in 1 .. n : rs[k] \in RunRecs
  BY <1>1
<1>4. /\ rt \in Seq(RunRecs) /\ Len(rt) = n
      /\ \A k \in 1 .. n : k # n => rt[k] = rs[k]
      /\ rt[n].by = rs[n].by /\ rt[n].origin = rs[n].origin /\ rt[n].end = e
      /\ rs[n].len \in Nat /\ rt[n].len = rs[n].len + 1
  BY DEF GrownBy
<1>5. Grows(rs, rt)
  BY <1>1, <1>2, <1>4 DEF Grows, RunRecs
<1>6. \A k \in 1 .. n : rt[k].end # "continued" <=> rs[k].end # "continued"
  BY <1>1, <1>4 DEF Outcomes
<1>7. \A k \in 1 .. n : rt[k].by = rs[k].by
  BY <1>4
<1>8. \A k \in 1 .. n : Begins(rt, k) <=> Begins(rs, k)
  BY <1>4 DEF Begins
<1>9. ExtraIn(rt) = ExtraIn(rs) /\ \A c : StartedIn(rt, c) = StartedIn(rs, c)
  BY <1>4, <1>7, <1>8 DEF ExtraIn, StartedIn
<1>10. \A k \in 1 .. Len(rt) : k < Len(rt) => rt[k].end # "open"
  BY <1>1, <1>4 DEF RunsOK
<1>11. \A k \in 1 .. Len(rt) : rt[k].end = "continued" => k < Len(rt)
  BY <1>4, <1>6 DEF RunsOK
<1>12. \A k \in 1 .. Len(rt) : rt[k].len <= MaxWrites + (IF rt[k].end = "open" THEN 1 ELSE 2)
  <2> SUFFICES ASSUME NEW k \in 1 .. Len(rt)
               PROVE  rt[k].len <= MaxWrites + (IF rt[k].end = "open" THEN 1 ELSE 2)
    OBVIOUS
  <2>1. CASE k = n
    <3>1. rs[n].len <= MaxWrites + 1
      BY <1>1 DEF RunsOK
    <3> QED  BY <1>1, <1>4, <2>1, <3>1
  <2>2. CASE k # n
    BY <1>4, <2>2 DEF RunsOK
  <2> QED  BY <2>1, <2>2
<1> QED  BY <1>4, <1>5, <1>9, <1>10, <1>11, <1>12 DEF RunsOK

\* A run that closes, by continuing as new or by a failure that is retried, and its successor.
LEMMA RunContinues ==
  ASSUME NEW rs, RunsOK(rs), Len(rs) > 0, rs[Len(rs)].end = "open",
         Cardinality(ExtraIn(rs)) < MaxExtra,
         NEW e \in Ends, e # "open", NEW rg, GrownBy(rs, rg, e),
         NEW rt, rt = Append(rg, Begun(rs[Len(rs)].by, "run"))
  PROVE  RunsOK(rt) /\ Grows(rs, rt)
<1> DEFINE n == Len(rs)
           v == Begun(rs[n].by, "run")
<1>1. n \in Nat \ {0} /\ rs \in Seq(RunRecs) /\ MaxWrites \in Nat /\ MaxExtra \in Nat
  BY LongPollAssumption DEF RunsOK
<1>2. \A k \in 1 .. n : rs[k] \in RunRecs
  BY <1>1
<1>4. /\ rg \in Seq(RunRecs) /\ Len(rg) = n
      /\ \A k \in 1 .. n : k # n => rg[k] = rs[k]
      /\ rg[n].by = rs[n].by /\ rg[n].origin = rs[n].origin /\ rg[n].end = e
      /\ rs[n].len \in Nat /\ rg[n].len = rs[n].len + 1
  BY DEF GrownBy
<1>5. v \in RunRecs /\ v.end = "open" /\ v.len = 1 /\ v.origin = "run"
  BY <1>1, <1>2 DEF RunRecs, Ends, Begun
<1>6. rt = Append(rg, v)
  OBVIOUS
<1> HIDE DEF v
<1>7. /\ rt \in Seq(RunRecs) /\ Len(rt) = n + 1 /\ rt[n + 1] = v
      /\ \A k \in 1 .. n : rt[k] = rg[k]
  BY <1>1, <1>4, <1>5, <1>6
<1>8. Grows(rs, rt)
  BY <1>1, <1>2, <1>4, <1>7 DEF Grows, RunRecs
<1>9. \A k \in 1 .. n : (Begins(rt, k) <=> Begins(rs, k)) /\ rt[k].by = rs[k].by
  BY <1>4, <1>7 DEF Begins
<1>10. ~Begins(rt, n + 1)
  BY <1>5, <1>7 DEF Begins
<1>11. 1 .. Len(rt) = (1 .. n) \cup {n + 1} /\ n + 1 \notin 1 .. n
  BY <1>1, <1>7
<1>12. \A c : StartedIn(rt, c) = StartedIn(rs, c)
  BY <1>9, <1>10, <1>11 DEF StartedIn
<1>13. ExtraIn(rt) = ExtraIn(rs) \cup {n + 1} /\ ExtraIn(rs) \subseteq 1 .. n
  BY <1>9, <1>10, <1>11 DEF ExtraIn
<1>14. Cardinality(ExtraIn(rt)) <= MaxExtra
  <2>1. IsFiniteSet(ExtraIn(rs)) /\ Cardinality(ExtraIn(rs)) \in Nat
    BY <1>1, ExtraFinite
  <2>2. Cardinality(ExtraIn(rs) \cup {n + 1}) = Cardinality(ExtraIn(rs)) + 1
    BY <1>11, <1>13, <2>1, FS_AddElement
  <2>3. Cardinality(ExtraIn(rt)) = Cardinality(ExtraIn(rs)) + 1
    BY <1>13, <2>2
  <2> QED  BY <1>1, <2>1, <2>3
<1>15. \A k \in 1 .. Len(rt) : k < Len(rt) => rt[k].end # "open"
  BY <1>1, <1>4, <1>7 DEF RunsOK
<1>16. \A k \in 1 .. Len(rt) : rt[k].end = "continued" => k < Len(rt)
  BY <1>1, <1>5, <1>7
<1>17. \A k \in 1 .. Len(rt) : rt[k].len <= MaxWrites + (IF rt[k].end = "open" THEN 1 ELSE 2)
  <2> SUFFICES ASSUME NEW k \in 1 .. Len(rt)
               PROVE  rt[k].len <= MaxWrites + (IF rt[k].end = "open" THEN 1 ELSE 2)
    OBVIOUS
  <2>1. CASE k = n
    <3>1. rs[n].len <= MaxWrites + 1
      BY <1>1 DEF RunsOK
    <3>2. rt[n] = rg[n]
      BY <1>1, <1>7
    <3> QED  BY <1>1, <1>4, <2>1, <3>1, <3>2
  <2>2. CASE k # n /\ k # n + 1
    <3>1. k \in 1 .. n /\ rt[k] = rs[k]
      BY <1>4, <1>7, <1>11, <2>2
    <3> QED  BY <3>1 DEF RunsOK
  <2>3. CASE k = n + 1
    BY <1>1, <1>5, <1>7, <2>3
  <2> QED  BY <2>1, <2>2, <2>3
<1> QED  BY <1>7, <1>8, <1>12, <1>14, <1>15, <1>16, <1>17 DEF RunsOK

\* A run somebody starts, after a closed one or as the first.
LEMMA RunStarts ==
  ASSUME NEW rs, RunsOK(rs), Len(rs) > 0 => rs[Len(rs)].end # "open",
         NEW b \in Callers \cup {Other},
         b = Other => Cardinality(ExtraIn(rs)) < MaxExtra, b # Other => StartedIn(rs, b) = {},
         NEW rt, rt = Append(rs, Begun(b, "start"))
  PROVE  RunsOK(rt) /\ Grows(rs, rt) /\ Len(rs) + 1 \in StartedIn(rt, b) /\ Len(rt) = Len(rs) + 1
<1> DEFINE n == Len(rs)
           v == Begun(b, "start")
<1>1. n \in Nat /\ rs \in Seq(RunRecs) /\ MaxWrites \in Nat /\ MaxExtra \in Nat
  BY LongPollAssumption DEF RunsOK
<1>2. \A k \in 1 .. n : rs[k] \in RunRecs
  BY <1>1
<1>3. v \in RunRecs /\ v.end = "open" /\ v.len = 1 /\ v.by = b /\ v.origin = "start"
  BY DEF RunRecs, Ends, Begun
<1>4. rt = Append(rs, v)
  OBVIOUS
<1> HIDE DEF v
<1>5. /\ rt \in Seq(RunRecs) /\ Len(rt) = n + 1 /\ rt[n + 1] = v
      /\ \A k \in 1 .. n : rt[k] = rs[k]
  BY <1>1, <1>3, <1>4
<1>6. Grows(rs, rt)
  BY <1>1, <1>2, <1>5 DEF Grows, RunRecs
<1>7. \A k \in 1 .. n : (Begins(rt, k) <=> Begins(rs, k)) /\ rt[k].by = rs[k].by
  BY <1>5 DEF Begins
<1>8. Begins(rt, n + 1)
  BY <1>3, <1>5 DEF Begins
<1>9. 1 .. Len(rt) = (1 .. n) \cup {n + 1} /\ n + 1 \notin 1 .. n
  BY <1>1, <1>5
<1>10. \A c : StartedIn(rt, c) = IF c = b THEN StartedIn(rs, c) \cup {n + 1} ELSE StartedIn(rs, c)
  BY <1>3, <1>5, <1>7, <1>8, <1>9 DEF StartedIn
<1>11. ExtraIn(rt) = (IF b = Other THEN ExtraIn(rs) \cup {n + 1} ELSE ExtraIn(rs))
       /\ ExtraIn(rs) \subseteq 1 .. n
  BY <1>3, <1>5, <1>7, <1>8, <1>9 DEF ExtraIn
<1>12. Cardinality(ExtraIn(rt)) <= MaxExtra
  <2>1. IsFiniteSet(ExtraIn(rs)) /\ Cardinality(ExtraIn(rs)) \in Nat
    BY <1>1, ExtraFinite
  <2>2. Cardinality(ExtraIn(rs) \cup {n + 1}) = Cardinality(ExtraIn(rs)) + 1
    BY <1>9, <1>11, <2>1, FS_AddElement
  <2>3. Cardinality(ExtraIn(rs)) <= MaxExtra
    BY DEF RunsOK
  <2> HIDE DEF n
  <2>4. CASE b = Other
    <3>1. Cardinality(ExtraIn(rs)) < MaxExtra /\ Cardinality(ExtraIn(rt)) = Cardinality(ExtraIn(rs)) + 1
      BY <1>11, <2>2, <2>4
    <3> QED  BY <1>1, <2>1, <3>1
  <2>5. CASE b # Other
    BY <1>11, <2>3, <2>5
  <2> QED  BY <2>4, <2>5
<1>13. \A k \in 1 .. Len(rt) : k < Len(rt) => rt[k].end # "open"
  <2> SUFFICES ASSUME NEW k \in 1 .. n PROVE rs[k].end # "open"
    BY <1>1, <1>5
  <2>1. k = n => rs[k].end # "open"
    BY <1>1
  <2> QED  BY <1>1, <2>1 DEF RunsOK
<1>14. \A k \in 1 .. Len(rt) : rt[k].end = "continued" => k < Len(rt)
  BY <1>1, <1>3, <1>5
<1>15. \A k \in 1 .. Len(rt) : rt[k].len <= MaxWrites + (IF rt[k].end = "open" THEN 1 ELSE 2)
  <2> SUFFICES ASSUME NEW k \in 1 .. Len(rt)
               PROVE  rt[k].len <= MaxWrites + (IF rt[k].end = "open" THEN 1 ELSE 2)
    OBVIOUS
  <2>1. CASE k = n + 1
    BY <1>1, <1>3, <1>5, <2>1
  <2>2. CASE k # n + 1
    <3>1. k \in 1 .. n /\ rt[k] = rs[k]
      BY <1>5, <1>9, <2>2
    <3> QED  BY <3>1 DEF RunsOK
  <2> QED  BY <2>1, <2>2
<1>16. \A c \in Callers : \A j, k \in StartedIn(rt, c) : j = k
  <2> TAKE c \in Callers
  <2>1. CASE c = b
    <3>1. c # Other
      BY LongPollAssumption
    <3>2. StartedIn(rt, c) = {n + 1}
      BY <1>10, <2>1, <3>1
    <3> QED  BY <3>2
  <2>2. CASE c # b
    BY <1>10, <2>2 DEF RunsOK
  <2> QED  BY <2>1, <2>2
<1>17. n + 1 \in StartedIn(rt, b)
  BY <1>10
<1> QED  BY <1>5, <1>6, <1>12, <1>13, <1>14, <1>15, <1>16, <1>17 DEF RunsOK

\* There are as many runs as callers and extra ones at most.
LEMMA FewRuns ==
  ASSUME NEW rs, RunsOK(rs)
  PROVE  Len(rs) \in Nat /\ Len(rs) <= MaxRuns /\ 1 .. Len(rs) \subseteq Runs
<1> DEFINE n == Len(rs)
           S == (1 .. n) \ ExtraIn(rs)
           f == [k \in S |-> rs[k].by]
<1>1. n \in Nat /\ MaxRuns \in Nat /\ MaxExtra \in Nat /\ IsFiniteSet(Callers)
  BY LongPollAssumption DEF RunsOK
<1>2. \A k \in 1 .. n : rs[k] \in RunRecs
  BY DEF RunsOK
<1>3. ExtraIn(rs) \subseteq 1 .. n
  BY DEF ExtraIn
<1>4. IsFiniteSet(1 .. n) /\ Cardinality(1 .. n) = n
  BY <1>1, UpTo
<1>5. IsFiniteSet(ExtraIn(rs)) /\ Cardinality(ExtraIn(rs)) \in Nat
  BY <1>1, ExtraFinite
<1>6. \A k \in S : rs[k].by \in Callers /\ k \in StartedIn(rs, rs[k].by)
  BY <1>2 DEF RunRecs, ExtraIn, StartedIn
<1>7. f \in Injection(S, Callers)
  <2>1. f \in [S -> Callers]
    BY <1>6
  <2>2. \A j, k \in S : f[j] = f[k] => j = k
    BY <1>6 DEF RunsOK
  <2> QED  BY <2>1, <2>2 DEF Injection, IsInjective
<1>8. Cardinality(S) <= Cardinality(Callers) /\ IsFiniteSet(S)
      /\ Cardinality(S) \in Nat /\ Cardinality(Callers) \in Nat
  <2>1. Cardinality(S) <= Cardinality(Callers) /\ IsFiniteSet(S)
    <3> HIDE DEF f, S
    <3> QED  BY <1>1, <1>7, FS_Injection
  <2> QED  BY <1>1, <2>1, FS_CardinalityType
<1>9. S \cup ExtraIn(rs) = 1 .. n /\ S \cap ExtraIn(rs) = {}
  BY <1>3
<1>10. n = Cardinality(S) + Cardinality(ExtraIn(rs))
  <2> HIDE DEF S
  <2>1. Cardinality(S \cup ExtraIn(rs)) =
          Cardinality(S) + Cardinality(ExtraIn(rs)) - Cardinality(S \cap ExtraIn(rs))
    BY <1>5, <1>8, FS_Union
  <2>2. Cardinality(S \cap ExtraIn(rs)) = 0
    BY <1>9, FS_EmptySet
  <2>3. Cardinality(S \cup ExtraIn(rs)) = n
    BY <1>4, <1>9
  <2> HIDE DEF n
  <2> QED  BY <1>5, <1>8, <2>1, <2>2, <2>3
<1>11. n <= MaxRuns
  <2>1. MaxRuns >= Cardinality(Callers) + MaxExtra /\ Cardinality(ExtraIn(rs)) <= MaxExtra
    BY LongPollAssumption DEF RunsOK
  <2> HIDE DEF S, n
  <2> QED  BY <1>1, <1>5, <1>8, <1>10, <2>1
<1> QED  BY <1>1, <1>11 DEF Runs

\* While an event may still be written, the open run has room for it.
LEMMA RoomToWrite ==
  ASSUME RunsOK(runs), Current > 0, Open(Current), Cardinality(Written) < MaxWrites
  PROVE  runs[Current].len <= MaxWrites
<1> DEFINE n == Len(runs)
           S == 1 .. MaxWrites
           f == [i \in S |-> <<n, i + 1>>]
<1>1. n \in Nat \ {0} /\ n \in Runs /\ MaxWrites \in Nat /\ MaxRuns \in Nat
  BY FewRuns, LongPollAssumption DEF Current
<1>2. runs[n].len \in Nat /\ runs[n].end = "open"
  <2>1. runs[n] \in RunRecs
    BY <1>1 DEF RunsOK
  <2> QED  BY <2>1 DEF RunRecs, Open, Current
<1> SUFFICES ASSUME runs[n].len > MaxWrites
             PROVE  FALSE
  BY <1>1, <1>2 DEF Current
<1>3. \A i \in S : <<n, i + 1>> \in Written
  BY <1>1, <1>2 DEF Written, Current, Open
<1>4. f \in Injection(S, Written)
  <2>1. f \in [S -> Written]
    BY <1>3
  <2>2. \A i, j \in S : f[i] = f[j] => i = j
    BY <1>1
  <2> QED  BY <2>1, <2>2 DEF Injection, IsInjective
<1>5. IsFiniteSet(Written)
  <2> DEFINE T == 2 .. MaxWrites + 1
  <2>1. IsFiniteSet(Runs)
    BY <1>1, UpTo DEF Runs
  <2>2. IsFiniteSet(T)
    <3>1. 2 \in Int /\ MaxWrites + 1 \in Int
      BY <1>1
    <3> QED  BY <3>1, FS_Interval
  <2>3. Written \in SUBSET (Runs \X T)
    BY DEF Written
  <2> HIDE DEF T, Written
  <2>4. IsFiniteSet(Runs \X T)
    BY <2>1, <2>2, FS_Product
  <2> QED  BY <2>3, <2>4, FS_Subset
<1>6. Cardinality(S) = MaxWrites /\ IsFiniteSet(S)
  BY <1>1, UpTo
<1>7. Cardinality(S) <= Cardinality(Written)
  <2> HIDE DEF S, f, Written
  <2> QED  BY <1>4, <1>5, FS_Injection
<1>8. Cardinality(Written) \in Nat
  BY <1>5, FS_CardinalityType
<1> HIDE DEF S
<1> QED  BY <1>1, <1>6, <1>7, <1>8

-----------------------------------------------------------------------------
(* The callers.                                                            *)

\* The caller moves, and what it knows is true of the store rs.
Becomes(c, rs) == \E x \in ClientRecs : h' = [h EXCEPT ![c] = x] /\ ClientOK(c, x, rs)

LEMMA Finishes ==
  ASSUME h \in [Callers -> ClientRecs], NEW c \in Callers, NEW rs, ClientOK(c, h[c], rs),
         h[c].phase # "idle", NEW r \in Results,
         h[c].op = "history" /\ r = "ok" => Len(h[c].all) >= h[c].floor,
         h[c].op # "history" => r # "corrupt",
         h[c].op # "history" /\ r \in Outcomes => h[c].run >= 1 /\ rs[h[c].run].end = r,
         Finish(c, r)
  PROVE  Becomes(c, rs)
<1> DEFINE x == [h[c] EXCEPT !.phase = "done", !.result = r, !.attempt = 0, !.from = 0]
<1>1. h[c] \in ClientRecs
  OBVIOUS
<1>2. /\ x \in ClientRecs /\ x.phase = "done" /\ x.result = r /\ x.attempt = 0
      /\ x.op = h[c].op /\ x.run = h[c].run /\ x.all = h[c].all /\ x.floor = h[c].floor
  BY <1>1 DEF ClientRecs
<1>3. h' = [h EXCEPT ![c] = x]
  BY DEF Finish
<1>4. 0 <= MaxAttempts
  BY LongPollAssumption
<1> HIDE DEF x
<1>5. ClientOK(c, x, rs)
  BY <1>2, <1>4 DEF ClientOK
<1> QED  BY <1>2, <1>3, <1>5 DEF Becomes

LEMMA Fails ==
  ASSUME h \in [Callers -> ClientRecs], NEW c \in Callers, NEW rs, ClientOK(c, h[c], rs),
         h[c].phase \in {"ready", "waiting"}, NEW code \in Codes, NEW b, AttemptFails(c, code, b)
  PROVE  Becomes(c, rs)
<1>1. h[c] \in ClientRecs
  OBVIOUS
<1>2. CASE b /\ h[c].attempt < MaxAttempts
  <2> DEFINE x == [h[c] EXCEPT !.phase = "ready", !.attempt = @ + 1]
  <2>1. h[c].attempt \in Nat /\ h[c].attempt + 1 \in Nat /\ h[c].attempt + 1 <= MaxAttempts
    BY <1>1, <1>2, LongPollAssumption DEF ClientRecs
  <2>2. /\ x \in ClientRecs /\ x.phase = "ready" /\ x.attempt = h[c].attempt + 1
        /\ x.op = h[c].op /\ x.run = h[c].run /\ x.all = h[c].all /\ x.floor = h[c].floor
        /\ x.result = h[c].result /\ x.from = h[c].from
    BY <1>1, <2>1 DEF ClientRecs
  <2>3. h' = [h EXCEPT ![c] = x]
    BY <1>2 DEF AttemptFails
  <2> HIDE DEF x
  <2>4. ClientOK(c, x, rs)
    BY <2>1, <2>2 DEF ClientOK
  <2> QED  BY <2>2, <2>3, <2>4 DEF Becomes
<1>3. CASE ~(b /\ h[c].attempt < MaxAttempts)
  <2>1. Finish(c, code)
    BY <1>3 DEF AttemptFails
  <2>2. code \in Results /\ code \notin {"ok", "corrupt"} \cup Outcomes
    BY DEF Results, Codes, Outcomes
  <2>3. h[c].phase # "idle"
    OBVIOUS
  <2> QED  BY <2>1, <2>2, <2>3, Finishes
<1> QED  BY <1>2, <1>3

LEMMA Errs ==
  ASSUME h \in [Callers -> ClientRecs], NEW c \in Callers, NEW rs, ClientOK(c, h[c], rs),
         h[c].phase \in {"ready", "waiting"}, NEW sent \in Codes, ReceiveError(c, sent)
  PROVE  Becomes(c, rs)
<1>1. PICK body \in BOOLEAN :
        AttemptFails(c, IF body THEN sent ELSE CodeForStatus(Status(sent)),
                     Retryable(Status(sent), IF body THEN sent ELSE CodeForStatus(Status(sent))))
  BY Zenon DEF ReceiveError
<1>2. CodeForStatus(Status(sent)) \in Codes
  BY DEF CodeForStatus, Codes
<1> DEFINE code == IF body THEN sent ELSE CodeForStatus(Status(sent))
           b == Retryable(Status(sent), code)
<1>3. code \in Codes
  BY <1>2
<1>4. AttemptFails(c, code, b)
  BY <1>1
<1> HIDE DEF code, b
<1> QED  BY <1>3, <1>4, Fails

\* The next call of a loop, on a run in the chain and from the cursor that goes with
\* what has been collected.
LEMMA Repeats ==
  ASSUME h \in [Callers -> ClientRecs], NEW c \in Callers, NEW rs, ClientOK(c, h[c], rs),
         h[c].phase \in {"ready", "waiting"},
         NEW run \in Nat, run >= 1, run <= Len(rs), NEW from \in Nat, NEW all \in Seq(Nat \X Nat),
         h[c].op = "execute" => \E k \in StartedIn(rs, c) : Chain(rs, k, run),
         h[c].op = "result" => Chain(rs, 1, run),
         h[c].op = "history" => /\ run = h[c].run /\ from = Len(all) + 1
                                /\ FirstOf(run, all),
         Again(c, run, from, all)
  PROVE  Becomes(c, rs)
<1> DEFINE x == [h[c] EXCEPT !.phase = "ready", !.attempt = 1, !.run = run, !.from = from,
                             !.all = all]
<1>1. h[c] \in ClientRecs
  OBVIOUS
<1>2. /\ x \in ClientRecs /\ x.phase = "ready" /\ x.attempt = 1
      /\ x.op = h[c].op /\ x.run = run /\ x.all = all /\ x.floor = h[c].floor
      /\ x.result = h[c].result /\ x.from = from
  BY <1>1 DEF ClientRecs
<1>3. h' = [h EXCEPT ![c] = x]
  BY DEF Again
<1>4. 1 <= MaxAttempts
  BY LongPollAssumption
<1>5. h[c].result = "none" /\ h[c].op # "none"
  BY DEF ClientOK
<1> HIDE DEF x
<1>6. x.op = "history" => /\ FirstOf(x.run, x.all)
                          /\ x.floor <= rs[x.run].len /\ x.from = Len(x.all) + 1
  BY <1>2 DEF ClientOK
<1>7. x.result = "none" /\ x.run >= 1 /\ x.run <= Len(rs)
  BY <1>2, <1>5
<1>8. ClientOK(c, x, rs)
  BY <1>2, <1>4, <1>5, <1>6, <1>7 DEF ClientOK, Outcomes
<1> QED  BY <1>2, <1>3, <1>8 DEF Becomes

\* A poll that expired moves nothing: the caller asks again from where it was.
LEMMA ExpiredReceived ==
  ASSUME h \in [Callers -> ClientRecs], NEW c \in Callers, ClientOK(c, h[c], runs),
         h[c].phase = "waiting", h[c].op # "history", h[c].run >= 1,
         Receive(c, Page(0, {}, "none", "open", h[c].from))
  PROVE  Becomes(c, runs)
<1>1. h[c].from \in Nat /\ h[c].run \in Nat /\ h[c].run <= Len(runs) /\ h[c] \in ClientRecs
  BY DEF ClientRecs, ClientOK
<1> DEFINE p == Page(0, {}, "none", "open", h[c].from)
<1>2. p.term = "none" /\ p.next = h[c].from /\ p.end = "open" /\ ~(p.next > h[c].from)
  BY <1>1 DEF Page
<1>3. AwaitTerminal(c, p)
  BY DEF Receive
<1> HIDE DEF p
<1>4. Again(c, h[c].run, h[c].from, <<>>)
  BY <1>2, <1>3 DEF AwaitTerminal, Outcomes
<1>5. <<>> \in Seq(Nat \X Nat)
  OBVIOUS
<1>6. /\ h[c].op = "execute" => \E k \in StartedIn(runs, c) : Chain(runs, k, h[c].run)
      /\ h[c].op = "result" => Chain(runs, 1, h[c].run)
  BY <1>1 DEF ClientOK
<1> QED  BY <1>1, <1>4, <1>5, <1>6, Repeats

\* The chain goes on to the successor of a run that continued.
LEMMA ChainExtends ==
  ASSUME NEW rs, NEW a \in Nat, NEW b \in Nat, Chain(rs, a, b), rs[b].end = "continued"
  PROVE  Chain(rs, a, b + 1)
<1> SUFFICES ASSUME NEW j \in a .. (b + 1) - 1
             PROVE  rs[j].end = "continued"
  BY DEF Chain
<1>1. j = b \/ j \in a .. b - 1
  OBVIOUS
<1> QED  BY <1>1 DEF Chain

LEMMA FunctionIsSeq ==
  ASSUME NEW S, NEW n \in Nat, NEW f \in [1 .. n -> S]
  PROVE  f \in Seq(S) /\ Len(f) = n
OBVIOUS

\* The events of a run after the n-th.
After(run, n, s) == \A i \in 1 .. Len(s) : s[i] = <<run, n + i>>

\* History's next page, u, joins the events it has.
LEMMA PageJoins ==
  ASSUME NEW P, NEW run \in Nat, NEW all \in Seq(P), FirstOf(run, all),
         NEW u \in Seq(P), After(run, Len(all), u)
  PROVE  /\ all \o u \in Seq(P) /\ Len(all \o u) = Len(all) + Len(u)
         /\ FirstOf(run, all \o u)
<1>1. /\ all \o u \in Seq(P) /\ Len(all \o u) = Len(all) + Len(u)
      /\ \A i \in 1 .. Len(all) + Len(u) :
            (all \o u)[i] = IF i <= Len(all) THEN all[i] ELSE u[i - Len(all)]
  BY ConcatProperties
<1>2. Len(all) \in Nat /\ Len(u) \in Nat
  OBVIOUS
<1>3. ASSUME NEW i \in 1 .. Len(all) + Len(u)
      PROVE  (all \o u)[i] = <<run, i>>
  <2>1. CASE i <= Len(all)
    <3>1. i \in 1 .. Len(all) /\ (all \o u)[i] = all[i]
      BY <1>1, <1>2, <2>1
    <3> QED  BY <3>1 DEF FirstOf
  <2>2. CASE i > Len(all)
    <3>1. i - Len(all) \in 1 .. Len(u) /\ Len(all) + (i - Len(all)) = i
      BY <1>2, <2>2
    <3>2. (all \o u)[i] = u[i - Len(all)]
      BY <1>1, <1>2, <2>2
    <3> QED  BY <3>1, <3>2 DEF After
  <2> QED  BY <1>2, <2>1, <2>2
<1> QED  BY <1>1, <1>3 DEF FirstOf

LEMMA PageAppended ==
  ASSUME NEW run \in Nat, NEW from \in Nat, NEW last \in Nat, from <= last,
         NEW all \in Seq(Nat \X Nat), from = Len(all) + 1, FirstOf(run, all)
  PROVE  LET t == all \o [i \in 1 .. Cardinality(from .. last) |-> <<run, from + i - 1>>] IN
         t \in Seq(Nat \X Nat) /\ Len(t) = last /\ FirstOf(run, t)
<1> DEFINE m == Cardinality(from .. last)
           u == [i \in 1 .. m |-> <<run, from + i - 1>>]
<1>1. m = last - Len(all) /\ m \in Nat /\ Len(all) \in Nat /\ Len(all) <= last
  <2>1. m = IF from > last THEN 0 ELSE last - from + 1
    BY FS_Interval
  <2> HIDE DEF m
  <2> QED  BY <2>1
<1> HIDE DEF m
<1>2. \A i \in 1 .. m : from + i - 1 \in Nat /\ from + i - 1 = Len(all) + i
  BY <1>1
<1>3. u \in [1 .. m -> Nat \X Nat]
  BY <1>2
<1>4. \A i \in 1 .. m : u[i] = <<run, Len(all) + i>>
  BY <1>2
<1> HIDE DEF u
<1>5. u \in Seq(Nat \X Nat) /\ Len(u) = m
  BY <1>1, <1>3, FunctionIsSeq
<1>6. After(run, Len(all), u)
  BY <1>4, <1>5 DEF After
<1>7. all \o u \in Seq(Nat \X Nat) /\ Len(all \o u) = Len(all) + Len(u) /\ FirstOf(run, all \o u)
  BY <1>5, <1>6, PageJoins
<1>8. Len(all \o u) = last
  BY <1>1, <1>5, <1>7
<1> QED  BY <1>7, <1>8 DEF u, m

\* The events a request read, and what its caller makes of them.
LEMMA PageReceived ==
  ASSUME RunsOK(runs), h \in [Callers -> ClientRecs], NEW c \in Callers, ClientOK(c, h[c], runs),
         h[c].phase = "waiting", NEW k \in 1 .. Len(runs), h[c].run = k,
         NEW from \in Nat, h[c].from = from, from <= runs[k].len, NEW end,
         Receive(c, Page(k, from .. runs[k].len, IF Open(k) THEN "none" ELSE runs[k].end, end,
                         runs[k].len + 1))
  PROVE  Becomes(c, runs)
<1> DEFINE last == runs[k].len
           p == Page(k, from .. last, IF Open(k) THEN "none" ELSE runs[k].end, end, last + 1)
<1>1. runs[k] \in RunRecs /\ k \in Nat /\ k >= 1 /\ k <= Len(runs) /\ Len(runs) \in Nat
  BY DEF RunsOK
<1>2. last \in Nat /\ runs[k].end \in Ends
  BY <1>1 DEF RunRecs
<1>3. /\ p.term = (IF Open(k) THEN "none" ELSE runs[k].end) /\ p.next = last + 1
      /\ p.run = k /\ p.events = from .. last
  BY DEF Page
<1>4. from \in p.events /\ p.next > from /\ ~(p.next <= from) /\ p.next \in Nat
  BY <1>2, <1>3
<1>5. Receive(c, p)
  OBVIOUS
<1>6. /\ h[c] \in ClientRecs
      /\ h[c].op = "execute" => \E j \in StartedIn(runs, c) : Chain(runs, j, k)
      /\ h[c].op = "result" => Chain(runs, 1, k)
  BY <1>1 DEF ClientOK
<1> HIDE DEF p
<1>7. CASE h[c].op = "history"
  <2> DEFINE all == h[c].all
             u == [i \in 1 .. Cardinality(from .. last) |-> <<k, from + i - 1>>]
             t == all \o u
  <2>1. all \in Seq(Nat \X Nat) /\ from = Len(all) + 1 /\ FirstOf(k, all)
    BY <1>6, <1>7 DEF ClientRecs, ClientOK
  <2>2. History(c, p)
    BY <1>5, <1>7 DEF Receive
  <2>3. Again(c, k, last + 1, t)
    <3> DEFINE g == [i \in 1 .. Cardinality(p.events) |-> <<p.run, h[c].from + i - 1>>]
    <3>1. p.events # {}
      BY <1>4
    <3>2. Again(c, h[c].run, p.next, h[c].all \o g)
      BY <1>4, <2>2, <3>1 DEF History
    <3>3. g = u
      BY <1>3
    <3> HIDE DEF g, u
    <3> QED  BY <1>3, <3>2, <3>3
  <2> HIDE DEF all, last
  <2>4. t \in Seq(Nat \X Nat) /\ Len(t) = last /\ FirstOf(k, t)
    BY <1>1, <1>2, <2>1, PageAppended DEF last
  <2> HIDE DEF t
  <2>5. last + 1 \in Nat /\ last + 1 = Len(t) + 1
    BY <1>2, <2>4
  <2> QED  BY <1>1, <1>7, <2>3, <2>4, <2>5, Repeats
<1>8. CASE h[c].op # "history"
  <2>1. AwaitTerminal(c, p)
    BY <1>5, <1>8 DEF Receive
  <2>2. <<>> \in Seq(Nat \X Nat)
    OBVIOUS
  <2>3. CASE runs[k].end = "open"
    <3>1. Again(c, k, last + 1, <<>>)
      BY <1>3, <1>4, <2>1, <2>3 DEF AwaitTerminal, Open, Outcomes
    <3>2. last + 1 \in Nat
      BY <1>2
    <3> HIDE DEF last
    <3> QED  BY <1>1, <1>6, <1>8, <2>2, <3>1, <3>2, Repeats
  <2>4. CASE runs[k].end = "continued"
    <3>1. Again(c, k + 1, 1, <<>>)
      BY <1>3, <2>1, <2>4 DEF AwaitTerminal, Open, Outcomes
    <3>2. k + 1 \in Nat /\ k + 1 >= 1 /\ k + 1 <= Len(runs)
      <4>1. k < Len(runs)
        BY <2>4 DEF RunsOK
      <4> QED  BY <1>1, <4>1
    <3>3. h[c].op = "execute" => \E j \in StartedIn(runs, c) : Chain(runs, j, k + 1)
      <4> HAVE h[c].op = "execute"
      <4>1. PICK j \in StartedIn(runs, c) : Chain(runs, j, k)
        BY <1>6
      <4>2. j \in Nat
        BY DEF StartedIn
      <4>3. Chain(runs, j, k + 1)
        BY <1>1, <2>4, <4>1, <4>2, ChainExtends
      <4> QED  BY <4>3
    <3>4. h[c].op = "result" => Chain(runs, 1, k + 1)
      BY <1>1, <1>6, <2>4, ChainExtends
    <3> QED  BY <1>8, <2>2, <3>1, <3>2, <3>3, <3>4, Repeats
  <2>5. CASE runs[k].end \in Outcomes
    <3>1. p.term = runs[k].end
      BY <1>3, <2>5 DEF Open, Outcomes
    <3>2. DecodeTerminal(c, p.term)
      BY <2>1, <2>5, <3>1 DEF AwaitTerminal, Outcomes
    <3>3. \/ Finish(c, runs[k].end) \/ Finish(c, "invalid_argument")
      BY <3>1, <3>2 DEF DecodeTerminal
    <3>4. h[c].phase # "idle" /\ runs[k].end \in Results /\ runs[k].end # "corrupt"
          /\ runs[k].end # "ok" /\ "invalid_argument" \in Results
          /\ "invalid_argument" \notin Outcomes
      BY <2>5 DEF Results, Codes, Outcomes
    <3>5. CASE Finish(c, runs[k].end)
      <4> DEFINE r == runs[k].end
      <4>1. h[c].run >= 1 /\ runs[h[c].run].end = r /\ r \in Results /\ r # "corrupt" /\ Finish(c, r)
        BY <1>1, <3>4, <3>5
      <4> HIDE DEF r
      <4> QED  BY <1>8, <3>4, <4>1, Finishes
    <3>6. CASE Finish(c, "invalid_argument")
      BY <1>8, <3>4, <3>6, Finishes
    <3> QED  BY <3>3, <3>5, <3>6
  <2> QED  BY <1>2, <2>3, <2>4, <2>5 DEF Ends
<1> QED  BY <1>7, <1>8

-----------------------------------------------------------------------------
(* What a step leaves as it was.                                           *)

LEMMA SlotCaller ==
  ASSUME NEW q \in Slots
  PROVE  q[1] \in Callers
BY LongPollAssumption

LEMMA FreeShape == Free \in Requests /\ ~Free.live /\ Free.w = "none" /\ \A rs : Shape(Free, rs)
<1> DEFINE r == CHOOSE r \in Replicas : TRUE
<1>1. r \in Replicas
  BY LongPollAssumption
<1> HIDE DEF r
<1>2. Free = [stage |-> "free", kind |-> "history", rep |-> r, run |-> 0, from |-> 0,
              wait |-> FALSE, rec |-> NoRec, w |-> "none", live |-> FALSE]
  BY DEF Free, r
<1>3. NoRec \in [run : Nat, last : Nat, end : Ends]
  BY DEF NoRec, Ends
<1>4. Free \in Requests
  BY <1>1, <1>2, <1>3 DEF Requests, Stages
<1>5. Free.stage = "free" /\ Free.w = "none" /\ Free.live = FALSE
  BY <1>2
<1> QED  BY <1>4, <1>5 DEF Shape

\* At most one caller moves, the store only grows.
LEMMA CallersMove ==
  ASSUME Clients, RunsOK(runs), RunsOK(runs'), Grows(runs, runs'), NEW c \in Callers,
         h' = h \/ Becomes(c, runs')
  PROVE  Clients' /\ \A d \in Callers : d # c => h'[d] = h[d]
<1>1. h \in [Callers -> ClientRecs] /\ \A d \in Callers : h[d] \in ClientRecs
  BY DEF Clients
<1>2. \A d \in Callers : ClientOK(d, h[d], runs')
  BY <1>1, ClientGrows DEF Clients
<1>3. CASE h' = h
  BY <1>1, <1>2, <1>3 DEF Clients
<1>4. CASE Becomes(c, runs')
  <2>1. PICK x \in ClientRecs : h' = [h EXCEPT ![c] = x] /\ ClientOK(c, x, runs')
    BY <1>4 DEF Becomes
  <2>2. h' \in [Callers -> ClientRecs] /\ h'[c] = x /\ \A d \in Callers : d # c => h'[d] = h[d]
    BY <1>1, <2>1
  <2> QED  BY <1>2, <2>1, <2>2 DEF Clients
<1> QED  BY <1>3, <1>4

\* One request changes, and its caller perhaps.
LEMMA OneSlot ==
  ASSUME Inv, RunsOK(runs'), Grows(runs, runs'), NEW q \in Slots, NEW y \in Requests,
         req' = [req EXCEPT ![q] = y], Shape(y, runs'),
         h' = h \/ Becomes(q[1], runs'),
         h' # h \/ y.live => req[q].live \/ \A p \in Slots : p[1] = q[1] => ~req[p].live,
         y.live => Matches(y, h'[q[1]])
  PROVE  Clients' /\ InFlight'
<1>1. q[1] \in Callers
  BY SlotCaller
<1>2. Clients' /\ \A d \in Callers : d # q[1] => h'[d] = h[d]
  BY <1>1, CallersMove DEF Inv
<1>3. req \in [Slots -> Requests] /\ OneLive
  BY DEF Inv, InFlight
<1>4. /\ req' \in [Slots -> Requests] /\ req'[q] = y
      /\ \A p \in Slots : p # q => req'[p] = req[p]
  BY <1>3
<1>5. \A p \in Slots : Shape(req'[p], runs')
  <2> SUFFICES ASSUME NEW p \in Slots PROVE Shape(req'[p], runs')
    OBVIOUS
  <2>1. CASE p = q
    BY <1>4, <2>1
  <2>2. CASE p # q
    <3>1. req[p] \in Requests /\ Shape(req[p], runs)
      BY <1>3 DEF Inv, InFlight
    <3>2. Shape(req[p], runs')
      BY <3>1, ShapeGrows DEF Inv
    <3> QED  BY <1>4, <2>2, <3>2
  <2> QED  BY <2>1, <2>2
<1>6. h' # h \/ y.live => \A p \in Slots : p # q /\ p[1] = q[1] => ~req[p].live
  BY <1>3 DEF OneLive
<1>7. \A p \in Slots : req'[p].live => Matches(req'[p], h'[p[1]])
  <2> SUFFICES ASSUME NEW p \in Slots, req'[p].live PROVE Matches(req'[p], h'[p[1]])
    OBVIOUS
  <2>1. CASE p = q
    BY <1>4, <2>1
  <2>2. CASE p # q
    <3>1. req'[p] = req[p] /\ Matches(req[p], h[p[1]]) /\ p[1] \in Callers
      BY <1>4, <2>2, SlotCaller DEF Inv, InFlight
    <3>2. h'[p[1]] = h[p[1]]
      BY <1>2, <1>6, <2>2, <3>1
    <3> QED  BY <3>1, <3>2
  <2> QED  BY <2>1, <2>2
<1>8. OneLive'
  BY <1>3, <1>4, <1>6 DEF OneLive
<1> QED  BY <1>2, <1>4, <1>5, <1>7, <1>8 DEF InFlight

\* A request that a notify, a close or a hang-up has touched.
Touched(y, z) ==
  /\ y.stage = z.stage /\ y.kind = z.kind /\ y.run = z.run /\ y.from = z.from
  /\ y.wait = z.wait /\ y.rec = z.rec
  /\ y.w = "none" <=> z.w = "none"
  /\ y.live => z.live

LEMMA SlotsTouched ==
  ASSUME Inv, RunsOK(runs'), Grows(runs, runs'), req' \in [Slots -> Requests],
         \A p \in Slots : Touched(req'[p], req[p]),
         \A p \in Slots : req'[p].live => h'[p[1]] = h[p[1]]
  PROVE  InFlight'
<1>1. \A p \in Slots : Shape(req'[p], runs')
  <2> SUFFICES ASSUME NEW p \in Slots PROVE Shape(req'[p], runs')
    OBVIOUS
  <2>1. Shape(req'[p], runs)
    BY DEF Inv, InFlight, Touched, Shape
  <2>2. req'[p] \in Requests
    OBVIOUS
  <2> QED  BY <2>1, <2>2, ShapeGrows DEF Inv
<1>2. \A p \in Slots : req'[p].live => Matches(req'[p], h'[p[1]])
  BY DEF Inv, InFlight, Touched, Matches
<1>3. OneLive'
  BY DEF Inv, InFlight, Touched, OneLive
<1> QED  BY <1>1, <1>2, <1>3 DEF InFlight

-----------------------------------------------------------------------------
(* The notifier's books.                                                   *)

LEMMA SubscribedFinite ==
  ASSUME NEW rq, NEW r, NEW k
  PROVE  IsFiniteSet(Subscribed(rq, r, k)) /\ Cardinality(Subscribed(rq, r, k)) \in Nat
<1>1. Subscribed(rq, r, k) \in SUBSET Slots /\ IsFiniteSet(Slots)
  BY LongPollAssumption DEF Subscribed
<1>2. IsFiniteSet(Subscribed(rq, r, k))
  BY <1>1, FS_Subset
<1> QED  BY <1>2, FS_CardinalityType

\* A subscription is to a run of the store, on a replica.
LEMMA LiveRun ==
  ASSUME Inv, NEW q \in Slots, req[q].w # "none" \/ req[q].stage = "loaded"
  PROVE  req[q].rec.run \in Runs /\ req[q].rep \in Replicas
         /\ req[q].rec.run \in 1 .. Len(runs) /\ req[q].rec.run = req[q].run
<1>1. req[q] \in Requests /\ Shape(req[q], runs)
  BY DEF Inv, InFlight
<1>2. req[q].stage \in {"loaded", "reading", "parked"}
  BY <1>1 DEF Shape
<1>3. req[q].run \in 1 .. Len(runs) /\ req[q].rec.run = req[q].run
  BY <1>1, <1>2 DEF Shape
<1> QED  BY <1>1, <1>3, FewRuns DEF Requests, Inv

LEMMA SameWaiters ==
  ASSUME Counted, chans' = chans,
         \A r \in Replicas, k \in Runs : Subscribed(req', r, k) = Subscribed(req, r, k)
  PROVE  Counted'
BY DEF Counted

\* A request that had no live subscription has none.
LEMMA NoWaiter ==
  ASSUME Inv, chans' = chans, NEW q \in Slots, NEW y \in Requests, req' = [req EXCEPT ![q] = y],
         y.w = req[q].w, y.w = "live" => y.rep = req[q].rep /\ y.rec.run = req[q].rec.run
  PROVE  Counted'
<1>1. req \in [Slots -> Requests] /\ Counted
  BY DEF Inv, InFlight
<1>2. req'[q] = y /\ \A p \in Slots : p # q => req'[p] = req[p]
  BY <1>1
<1>3. \A r \in Replicas, k \in Runs : Subscribed(req', r, k) = Subscribed(req, r, k)
  BY <1>2 DEF Subscribed
<1> QED  BY <1>1, <1>3, SameWaiters

\* The count goes down by the one that leaves, when it is still counted.
LEMMA WaiterLeaves ==
  ASSUME Inv, NEW q \in Slots, NEW y \in Requests, req' = [req EXCEPT ![q] = y],
         y.w # "live", chans' = Released(q)
  PROVE  Counted'
<1>1. req \in [Slots -> Requests] /\ Counted
  BY DEF Inv, InFlight
<1>2. req'[q] = y /\ \A p \in Slots : p # q => req'[p] = req[p]
  BY <1>1
<1>3. CASE req[q].w # "live"
  <2>1. \A r \in Replicas, k \in Runs : Subscribed(req', r, k) = Subscribed(req, r, k)
    BY <1>2, <1>3 DEF Subscribed
  <2>2. chans' = chans
    BY <1>3 DEF Released
  <2> QED  BY <1>1, <2>1, <2>2, SameWaiters
<1>4. CASE req[q].w = "live"
  <2> DEFINE s == req[q].rep
             j == req[q].rec.run
  <2>1. s \in Replicas /\ j \in Runs
    BY <1>4, LiveRun
  <2>2. chans' = [chans EXCEPT ![s][j] = @ - 1]
    BY <1>4 DEF Released
  <2>3. chans \in [Replicas -> [Runs -> Nat]]
        /\ \A r \in Replicas, k \in Runs : chans[r][k] = Cardinality(Subscribed(req, r, k))
    BY <1>1 DEF Counted
  <2>4. Subscribed(req', s, j) = Subscribed(req, s, j) \ {q} /\ q \in Subscribed(req, s, j)
    BY <1>2, <1>4 DEF Subscribed
  <2>5. \A r \in Replicas, k \in Runs :
          ~(r = s /\ k = j) => Subscribed(req', r, k) = Subscribed(req, r, k)
    BY <1>2, <1>4 DEF Subscribed
  <2> HIDE DEF s, j
  <2>6. Cardinality(Subscribed(req', s, j)) = chans[s][j] - 1
        /\ Cardinality(Subscribed(req', s, j)) \in Nat
    <3>1. Cardinality(Subscribed(req, s, j) \ {q}) = Cardinality(Subscribed(req, s, j)) - 1
      BY <2>4, SubscribedFinite, FS_RemoveElement
    <3>2. Cardinality(Subscribed(req', s, j)) = Cardinality(Subscribed(req, s, j)) - 1
      BY <2>4, <3>1
    <3>3. chans[s][j] = Cardinality(Subscribed(req, s, j))
      BY <2>1, <2>3
    <3> QED  BY <3>2, <3>3, SubscribedFinite
  <2>7. chans[s][j] - 1 \in Nat
    BY <2>6
  <2>8. /\ chans' \in [Replicas -> [Runs -> Nat]] /\ chans'[s][j] = chans[s][j] - 1
        /\ \A r \in Replicas, k \in Runs : ~(r = s /\ k = j) => chans'[r][k] = chans[r][k]
    BY <2>1, <2>2, <2>3, <2>7
  <2>9. \A r \in Replicas, k \in Runs : chans'[r][k] = Cardinality(Subscribed(req', r, k))
    BY <2>3, <2>5, <2>6, <2>8
  <2> QED  BY <2>8, <2>9 DEF Counted
<1> QED  BY <1>3, <1>4

LEMMA CountSet ==
  ASSUME NEW f \in [Replicas -> [Runs -> Nat]], NEW s \in Replicas, NEW j \in Runs, NEW n \in Nat
  PROVE  /\ [f EXCEPT ![s][j] = n] \in [Replicas -> [Runs -> Nat]]
         /\ [f EXCEPT ![s][j] = n][s][j] = n
         /\ \A r \in Replicas, k \in Runs :
               ~(r = s /\ k = j) => [f EXCEPT ![s][j] = n][r][k] = f[r][k]
OBVIOUS

\* It goes up by the one that comes.
LEMMA WaiterComes ==
  ASSUME Inv, NEW q \in Slots, req[q].stage = "loaded", NEW y \in Requests,
         req' = [req EXCEPT ![q] = y], y.w = "live",
         y.rep = req[q].rep, y.rec.run = req[q].rec.run,
         chans' = [chans EXCEPT ![req[q].rep][req[q].rec.run] = @ + 1]
  PROVE  Counted'
<1>1. req \in [Slots -> Requests] /\ Counted /\ req[q].w = "none"
  BY DEF Inv, InFlight, Shape
<1>2. req'[q] = y /\ \A p \in Slots : p # q => req'[p] = req[p]
  BY <1>1
<1> DEFINE s == req[q].rep
           j == req[q].rec.run
<1>3. s \in Replicas /\ j \in Runs
  BY LiveRun
<1>4. chans' = [chans EXCEPT ![s][j] = @ + 1]
  OBVIOUS
<1>5. chans \in [Replicas -> [Runs -> Nat]]
      /\ \A r \in Replicas, k \in Runs : chans[r][k] = Cardinality(Subscribed(req, r, k))
  BY <1>1 DEF Counted
<1>6. Subscribed(req', s, j) = Subscribed(req, s, j) \cup {q} /\ q \notin Subscribed(req, s, j)
  BY <1>1, <1>2 DEF Subscribed
<1>7. \A r \in Replicas, k \in Runs :
        ~(r = s /\ k = j) => Subscribed(req', r, k) = Subscribed(req, r, k)
  BY <1>1, <1>2 DEF Subscribed
<1>8. Cardinality(Subscribed(req', s, j)) = chans[s][j] + 1
  <2>1. Cardinality(Subscribed(req, s, j) \cup {q}) = Cardinality(Subscribed(req, s, j)) + 1
    BY <1>6, SubscribedFinite, FS_AddElement
  <2> QED  BY <1>3, <1>5, <1>6, <2>1
<1> HIDE DEF s, j
<1>9. chans[s][j] + 1 \in Nat
  BY <1>3, <1>5
<1>10. /\ chans' \in [Replicas -> [Runs -> Nat]] /\ chans'[s][j] = chans[s][j] + 1
       /\ \A r \in Replicas, k \in Runs : ~(r = s /\ k = j) => chans'[r][k] = chans[r][k]
  <2> DEFINE n == chans[s][j] + 1
  <2>1. n \in Nat /\ chans' = [chans EXCEPT ![s][j] = n]
    BY <1>4, <1>9
  <2>2. chans \in [Replicas -> [Runs -> Nat]]
    BY <1>5
  <2>3. /\ [chans EXCEPT ![s][j] = n] \in [Replicas -> [Runs -> Nat]]
        /\ [chans EXCEPT ![s][j] = n][s][j] = n
        /\ \A r \in Replicas, k \in Runs :
              ~(r = s /\ k = j) => [chans EXCEPT ![s][j] = n][r][k] = chans[r][k]
    <3> HIDE DEF n
    <3> QED  BY <1>3, <2>1, <2>2, CountSet
  <2> HIDE DEF n
  <2> QED  BY <2>1, <2>3 DEF n
<1>11. \A r \in Replicas, k \in Runs : chans'[r][k] = Cardinality(Subscribed(req', r, k))
  <2> SUFFICES ASSUME NEW r \in Replicas, NEW k \in Runs
               PROVE  chans'[r][k] = Cardinality(Subscribed(req', r, k))
    OBVIOUS
  <2>1. CASE r = s /\ k = j
    BY <1>8, <1>10, <2>1
  <2>2. CASE ~(r = s /\ k = j)
    <3>1. chans'[r][k] = chans[r][k] /\ Subscribed(req', r, k) = Subscribed(req, r, k)
      BY <1>7, <1>10, <2>2, Zenon
    <3>2. chans[r][k] = Cardinality(Subscribed(req, r, k))
      BY <1>5
    <3> QED  BY <3>1, <3>2, Zenon
  <2> QED  BY <2>1, <2>2
<1> QED  BY <1>10, <1>11 DEF Counted

\* A notify drops the entries and fires exactly the subscriptions they counted.
LEMMA WaitersNotified ==
  ASSUME Inv, NEW s \in Replicas, NEW ks, chans' = NotifiedChans(s, ks),
         \A p \in Slots : /\ req'[p].rep = req[p].rep /\ req'[p].rec = req[p].rec
                          /\ req'[p].w = IF req[p].w = "live" /\ req[p].rep = s /\ req[p].rec.run \in ks
                                         THEN "fired" ELSE req[p].w
  PROVE  Counted'
<1>1. chans \in [Replicas -> [Runs -> Nat]]
      /\ \A r \in Replicas, k \in Runs : chans[r][k] = Cardinality(Subscribed(req, r, k))
  BY DEF Inv, Counted
<1> DEFINE f == [k \in Runs |-> IF k \in ks THEN 0 ELSE chans[s][k]]
<1>2. f \in [Runs -> Nat] /\ \A k \in Runs : f[k] = IF k \in ks THEN 0 ELSE chans[s][k]
  BY <1>1
<1>3. chans' = [chans EXCEPT ![s] = f]
  BY DEF NotifiedChans
<1> HIDE DEF f
<1>4. /\ chans' \in [Replicas -> [Runs -> Nat]] /\ chans'[s] = f
      /\ \A r \in Replicas : r # s => chans'[r] = chans[r]
  BY <1>1, <1>2, <1>3
<1>5. ASSUME NEW r \in Replicas, NEW k \in Runs
      PROVE  chans'[r][k] = Cardinality(Subscribed(req', r, k))
  <2>1. CASE r = s /\ k \in ks
    <3>1. Subscribed(req', r, k) = {}
      BY <2>1 DEF Subscribed
    <3>2. chans'[r][k] = 0
      BY <1>2, <1>4, <2>1
    <3> QED  BY <3>1, <3>2, FS_EmptySet
  <2>2. CASE ~(r = s /\ k \in ks)
    <3>1. Subscribed(req', r, k) = Subscribed(req, r, k)
      BY <2>2 DEF Subscribed
    <3>2. chans'[r][k] = chans[r][k]
      BY <1>2, <1>4, <2>2
    <3>3. chans[r][k] = Cardinality(Subscribed(req, r, k))
      BY <1>1
    <3> QED  BY <3>1, <3>2, <3>3, Zenon
  <2> QED  BY <2>1, <2>2
<1> QED  BY <1>4, <1>5 DEF Counted

LEMMA NotifiedSlots ==
  ASSUME req \in [Slots -> Requests], NEW s, NEW ks, NEW p \in Slots
  PROVE  LET n == Notified(s, ks)[p] IN
         /\ n \in Requests /\ Touched(n, req[p]) /\ n.rep = req[p].rep /\ n.live = req[p].live
         /\ n.w = IF req[p].w = "live" /\ req[p].rep = s /\ req[p].rec.run \in ks
                  THEN "fired" ELSE req[p].w
<1> DEFINE n == Notified(s, ks)[p]
<1>1. req[p] \in Requests
  OBVIOUS
<1>2. CASE req[p].w = "live" /\ req[p].rep = s /\ req[p].rec.run \in ks
  <2>1. n = [req[p] EXCEPT !.w = "fired"]
    BY <1>2 DEF Notified
  <2> HIDE DEF n
  <2>2. n \in Requests /\ n.w = "fired"
        /\ n.stage = req[p].stage /\ n.kind = req[p].kind /\ n.run = req[p].run
        /\ n.from = req[p].from /\ n.wait = req[p].wait /\ n.rec = req[p].rec
        /\ n.rep = req[p].rep /\ n.live = req[p].live
    BY <1>1, <2>1 DEF Requests
  <2>3. Touched(n, req[p])
    BY <1>2, <2>2 DEF Touched
  <2> QED  BY <1>2, <2>2, <2>3 DEF n
<1>3. CASE ~(req[p].w = "live" /\ req[p].rep = s /\ req[p].rec.run \in ks)
  <2>1. n = req[p]
    BY <1>3 DEF Notified
  <2> HIDE DEF n
  <2>2. n \in Requests /\ Touched(n, req[p]) /\ n.rep = req[p].rep /\ n.live = req[p].live
        /\ n.w = req[p].w
    BY <1>1, <2>1 DEF Touched
  <2> QED  BY <1>3, <2>2 DEF n
<1> QED  BY <1>2, <1>3

-----------------------------------------------------------------------------
(* The writers.                                                            *)

LEMMA SameSets ==
  ASSUME RunsOK(runs)
  PROVE  /\ Extra = ExtraIn(runs)
         /\ \A c : Deduplicated(c) = StartedIn(runs, c) /\ StartedBy(c) = StartedIn(runs, c)
<1>1. Len(runs) \in Nat
  BY DEF RunsOK
<1>2. Extra = ExtraIn(runs)
  <2>1. ASSUME NEW k \in 1 .. Len(runs)
        PROVE  runs[k].origin = "run" <=> ~Begins(runs, k)
    <3>1. runs[k] \in RunRecs
      BY DEF RunsOK
    <3> QED  BY <3>1 DEF RunRecs, Begins
  <2> QED  BY <2>1 DEF Extra, ExtraIn, Current
<1> QED  BY <1>2 DEF Deduplicated, StartedBy, StartedIn, Begins, Current

\* The rest of a step that only lets the store grow.
LEMMA StoreGrows ==
  ASSUME Inv, RunsOK(runs'), Grows(runs, runs'), UNCHANGED <<h, chans, req>>
  PROVE  Clients' /\ InFlight' /\ Counted'
<1>1. Clients'
  <2>1. \A d \in Callers : h[d] \in ClientRecs /\ ClientOK(d, h[d], runs)
    BY DEF Inv, Clients
  <2>2. \A d \in Callers : ClientOK(d, h[d], runs')
    BY <2>1, ClientGrows DEF Inv
  <2> QED  BY <2>2 DEF Inv, Clients
<1>2. InFlight'
  <2>1. req' \in [Slots -> Requests] /\ \A p \in Slots : Touched(req'[p], req[p])
    BY DEF Inv, InFlight, Touched
  <2>2. \A p \in Slots : req'[p].live => h'[p[1]] = h[p[1]]
    OBVIOUS
  <2> QED  BY <2>1, <2>2, SlotsTouched
<1>3. Counted'
  BY SameWaiters DEF Inv
<1> QED  BY <1>1, <1>2, <1>3

LEMMA AppendKeeps ==
  ASSUME Inv, NEW s \in Replicas, NEW e \in Ends, NEW b \in BOOLEAN, Append1(s, e, b),
         e = "open" => Cardinality(Written) < MaxWrites,
         e = "continued" => b, b => e # "open" /\ Cardinality(Extra) < MaxExtra
  PROVE  RunsOK(runs') /\ Clients' /\ InFlight' /\ Counted'
<1> DEFINE n == Len(runs)
           g == [runs EXCEPT ![n].len = @ + 1, ![n].end = e]
           ks == {n, n + 1}
<1>1. RunsOK(runs) /\ runs \in Seq(RunRecs) /\ n > 0 /\ runs[n].end = "open"
  BY DEF Inv, RunsOK, Append1, Current, Open
<1>2. GrownBy(runs, g, e)
  BY <1>1, RunGrown
<1>3. runs' = IF b THEN Append(g, Begun(runs[n].by, "run")) ELSE g
  BY DEF Append1, Current
<1> HIDE DEF g
<1>4. RunsOK(runs') /\ Grows(runs, runs')
  <2>1. CASE b
    <3>1. Cardinality(ExtraIn(runs)) < MaxExtra
      BY <1>1, <2>1, SameSets
    <3>2. runs' = Append(g, Begun(runs[n].by, "run"))
      BY <1>3, <2>1
    <3> DEFINE rt == Append(g, Begun(runs[n].by, "run"))
    <3>3. RunsOK(rt) /\ Grows(runs, rt)
      BY <1>1, <1>2, <2>1, <3>1, RunContinues
    <3> HIDE DEF rt
    <3> QED  BY <3>2, <3>3 DEF rt
  <2>2. CASE ~b
    <3>1. e \in {"open"} \cup Outcomes
      BY <2>2 DEF Ends
    <3>2. e = "open" => runs[n].len <= MaxWrites
      BY <1>1, RoomToWrite DEF Current, Open
    <3>3. RunsOK(g) /\ Grows(runs, g)
      BY <1>1, <1>2, <3>1, <3>2, RunAppends
    <3> QED  BY <1>3, <2>2, <3>3
  <2> QED  BY <2>1, <2>2
<1>5. req' = Notified(s, ks) /\ chans' = NotifiedChans(s, ks) /\ h' = h
  BY DEF Append1, Current
<1>6. req \in [Slots -> Requests]
  BY DEF Inv, InFlight
<1> HIDE DEF ks
<1>7. \A p \in Slots : LET y == req'[p] IN
        /\ y \in Requests /\ Touched(y, req[p]) /\ y.rep = req[p].rep /\ y.live = req[p].live
        /\ y.w = IF req[p].w = "live" /\ req[p].rep = s /\ req[p].rec.run \in ks
                 THEN "fired" ELSE req[p].w
  BY <1>5, <1>6, NotifiedSlots
<1>8. req' \in [Slots -> Requests]
  BY <1>5, <1>7 DEF Notified
<1>9. InFlight'
  BY <1>4, <1>5, <1>7, <1>8, SlotsTouched
<1>10. Counted'
  BY <1>5, <1>7, WaitersNotified DEF Touched
<1>11. Clients'
  <2>1. \A d \in Callers : h[d] \in ClientRecs /\ ClientOK(d, h[d], runs)
    BY DEF Inv, Clients
  <2>2. \A d \in Callers : ClientOK(d, h[d], runs')
    BY <1>4, <2>1, ClientGrows DEF Inv
  <2> QED  BY <1>5, <2>2 DEF Inv, Clients
<1> QED  BY <1>4, <1>9, <1>10, <1>11

-----------------------------------------------------------------------------
(* Answers.                                                                *)

\* The handler returns; its caller, when it waits, moves.
LEMMA Answered ==
  ASSUME Inv, RunsOK(runs'), Grows(runs, runs'), NEW q \in Slots, Return(q),
         req[q].live => Becomes(q[1], runs')
  PROVE  Clients' /\ InFlight' /\ Counted'
<1>1. /\ req' = [req EXCEPT ![q] = Free] /\ chans' = Released(q)
      /\ h' = h \/ Becomes(q[1], runs')
      /\ h' # h => req[q].live
  BY DEF Return
<1>2. Free \in Requests /\ ~Free.live /\ Free.w # "live" /\ Shape(Free, runs')
  BY FreeShape
<1>3. Clients' /\ InFlight'
  BY <1>1, <1>2, OneSlot
<1>4. Counted'
  BY <1>1, <1>2, WaiterLeaves
<1> QED  BY <1>3, <1>4

LEMMA ErrorAnswered ==
  ASSUME Inv, RunsOK(runs'), Grows(runs, runs'), NEW q \in Slots, NEW code \in Codes,
         AnswerError(q, code)
  PROVE  Clients' /\ InFlight' /\ Counted'
<1>1. ASSUME req[q].live
      PROVE  Becomes(q[1], runs')
  <2>1. q[1] \in Callers /\ h \in [Callers -> ClientRecs] /\ ReceiveError(q[1], code)
    BY <1>1, SlotCaller DEF AnswerError, Inv, Clients
  <2>2. h[q[1]] \in ClientRecs /\ ClientOK(q[1], h[q[1]], runs)
    BY <2>1 DEF Inv, Clients
  <2>3. ClientOK(q[1], h[q[1]], runs')
    BY <2>2, ClientGrows DEF Inv
  <2>4. h[q[1]].phase \in {"ready", "waiting"}
    BY <1>1 DEF Inv, InFlight, Matches
  <2> QED  BY <2>1, <2>3, <2>4, Errs
<1>2. Return(q)
  BY DEF AnswerError
<1> QED  BY <1>1, <1>2, Answered

\* What a live request and its caller agree on.
LEMMA LiveCaller ==
  ASSUME Inv, NEW q \in Slots, req[q].live
  PROVE  LET x == h[q[1]] IN
         /\ q[1] \in Callers /\ x \in ClientRecs /\ ClientOK(q[1], x, runs)
         /\ x.phase = "waiting" /\ x.run = req[q].run /\ x.from = req[q].from
         /\ req[q].kind = "start" <=> x.op = "execute" /\ x.run = 0
         /\ req[q].wait <=> x.op # "history"
<1>1. q[1] \in Callers /\ h \in [Callers -> ClientRecs] /\ ClientOK(q[1], h[q[1]], runs)
  BY SlotCaller DEF Inv, Clients
<1>2. Matches(req[q], h[q[1]])
  BY DEF Inv, InFlight
<1> QED  BY <1>1, <1>2 DEF Matches

LEMMA ExpiredAnswered ==
  ASSUME Inv, NEW q \in Slots, req[q].stage # "free", req[q].kind = "history",
         req[q].live => req[q].wait, Answer(q, ExpiredPoll(q)), runs' = runs
  PROVE  Clients' /\ InFlight' /\ Counted'
<1> DEFINE c == q[1]
<1>1. RunsOK(runs') /\ Grows(runs, runs') /\ Return(q)
  BY SameGrows DEF Inv, Answer
<1>2. ASSUME req[q].live
      PROVE  Becomes(c, runs')
  <2>1. c \in Callers /\ h \in [Callers -> ClientRecs] /\ ClientOK(c, h[c], runs)
        /\ h[c].phase = "waiting" /\ h[c].op # "history"
        /\ h[c].run = req[q].run /\ h[c].from = req[q].from
    BY <1>2, LiveCaller DEF Inv, Clients
  <2>2. Shape(req[q], runs)
    BY DEF Inv, InFlight
  <2>3. h[c].run \in 1 .. Len(runs)
    BY <2>1, <2>2 DEF Shape
  <2>4. Receive(c, Page(0, {}, "none", "open", h[c].from))
    BY <1>2, <2>1 DEF Answer, ExpiredPoll
  <2>5. h[c].run >= 1
    BY <2>3
  <2>6. Becomes(c, runs)
    BY <2>1, <2>4, <2>5, ExpiredReceived
  <2> QED  BY <2>6
<1> QED  BY <1>1, <1>2, Answered

LEMMA ReadKeeps ==
  ASSUME Inv, NEW q \in Slots, ReadHistory(q)
  PROVE  Clients' /\ InFlight' /\ Counted'
<1> DEFINE c == q[1]
           k == req[q].rec.run
           last == runs[k].len
           from == req[q].from
<1>1. RunsOK(runs') /\ Grows(runs, runs') /\ Return(q) /\ runs' = runs
  BY SameGrows DEF Inv, Answer, ReadHistory
<1>2. req[q] \in Requests /\ Shape(req[q], runs) /\ req[q].stage = "reading"
  BY DEF Inv, InFlight, ReadHistory
<1>3. /\ k \in 1 .. Len(runs) /\ k = req[q].run /\ req[q].kind = "history"
      /\ req[q].rec.last <= last /\ (req[q].rec.last >= from \/ ~req[q].wait)
  BY <1>2 DEF Shape
<1>4. from \in Nat /\ req[q].rec.last \in Nat
  BY <1>2 DEF Requests
<1>5. runs[k] \in RunRecs
  BY <1>3 DEF Inv, RunsOK
<1>6. last \in Nat
  BY <1>5 DEF RunRecs
<1>7. ASSUME req[q].live
      PROVE  Becomes(c, runs)
  <2>1. c \in Callers /\ h \in [Callers -> ClientRecs] /\ ClientOK(c, h[c], runs)
        /\ h[c].phase = "waiting" /\ (req[q].wait <=> h[c].op # "history")
        /\ h[c].run = k /\ h[c].from = from /\ h[c] \in ClientRecs
    BY <1>3, <1>7, LiveCaller DEF Inv, Clients
  <2>2. Receive(c, IF from > last THEN Page(k, {}, "none", req[q].rec.end, from)
                   ELSE Page(k, from .. last, IF Open(k) THEN "none" ELSE runs[k].end,
                             req[q].rec.end, last + 1))
    BY <1>7, Zenon DEF ReadHistory, Answer
  <2>3. CASE from > last
    <3> DEFINE p == Page(k, {}, "none", req[q].rec.end, from)
    <3>1. h[c].op = "history"
      BY <1>3, <1>4, <1>6, <2>1, <2>3
    <3>2. Receive(c, p) /\ p.events = {}
      BY <2>2, <2>3 DEF Page
    <3> HIDE DEF p
    <3>3. Finish(c, "ok")
      BY <3>1, <3>2 DEF Receive, History
    <3>4. Len(h[c].all) >= h[c].floor
      <4>1. from = Len(h[c].all) + 1 /\ h[c].floor <= last
        BY <2>1, <3>1 DEF ClientOK
      <4>2. Len(h[c].all) \in Nat /\ h[c].floor \in Nat
        BY <2>1 DEF ClientRecs
      <4> HIDE DEF from, last
      <4> QED  BY <1>4, <1>6, <2>3, <4>1, <4>2
    <3>5. "ok" \in Results /\ h[c].phase # "idle"
      BY <2>1 DEF Results
    <3> HIDE DEF c
    <3> QED  BY <2>1, <3>1, <3>3, <3>4, <3>5, Finishes
  <2>4. CASE ~(from > last)
    <3>1. Receive(c, Page(k, from .. last, IF Open(k) THEN "none" ELSE runs[k].end,
                             req[q].rec.end, last + 1))
      BY <2>2, <2>4
    <3>2. from <= last
      BY <1>4, <1>6, <2>4
    <3>3. RunsOK(runs)
      BY DEF Inv
    <3> HIDE DEF c, k, from
    <3> QED  BY <1>3, <1>4, <2>1, <3>1, <3>2, <3>3, PageReceived
  <2> QED  BY <2>3, <2>4
<1> QED  BY <1>1, <1>7, Answered

\* A start: made before, refused, or made now.
LEMMA StartKeeps ==
  ASSUME Inv, NEW q \in Slots, StartWorkflow(q)
  PROVE  RunsOK(runs') /\ Clients' /\ InFlight' /\ Counted'
<1> DEFINE c == q[1]
<1>1. c \in Callers /\ RunsOK(runs) /\ Return(q) /\ h \in [Callers -> ClientRecs]
      /\ req[q].kind = "start"
  BY SlotCaller DEF Inv, StartWorkflow, Clients
<1>2. Deduplicated(c) = StartedIn(runs, c) /\ Len(runs) \in Nat
  BY <1>1, SameSets DEF RunsOK
<1>3. req[q].live => h[c] \in ClientRecs /\ ClientOK(c, h[c], runs) /\ h[c].phase = "waiting"
                     /\ h[c].op = "execute"
  BY <1>1, LiveCaller
<1>4. <<>> \in Seq(Nat \X Nat) /\ 1 \in Nat
  OBVIOUS
<1>5. ASSUME NEW rs, RunsOK(rs), Grows(runs, rs), NEW k \in StartedIn(rs, c), req[q].live,
             ReceiveStarted(c, k)
      PROVE  Becomes(c, rs)
  <2>1. ClientOK(c, h[c], rs)
    BY <1>1, <1>3, <1>5, ClientGrows
  <2>2. k \in Nat /\ k >= 1 /\ k <= Len(rs) /\ Again(c, k, 1, <<>>)
    BY <1>5 DEF StartedIn, ReceiveStarted, RunsOK
  <2>3. Chain(rs, k, k)
    BY <2>2 DEF Chain
  <2>4. h[c].phase \in {"ready", "waiting"} /\ h[c].op = "execute"
    BY <1>3, <1>5
  <2>5. \E j \in StartedIn(rs, c) : Chain(rs, j, k)
    BY <2>3
  <2> HIDE DEF c
  <2> QED  BY <1>1, <1>4, <2>1, <2>2, <2>4, <2>5, Repeats
<1>6. CASE Deduplicated(c) # {} /\ runs' = runs
           /\ (req[q].live => ReceiveStarted(c, CHOOSE k \in Deduplicated(c) : TRUE))
  <2> DEFINE k == CHOOSE k \in Deduplicated(c) : TRUE
  <2>1. k \in StartedIn(runs, c)
    BY <1>2, <1>6
  <2> HIDE DEF k
  <2>2. req[q].live => ReceiveStarted(c, k)
    BY <1>6 DEF k
  <2>3. RunsOK(runs') /\ Grows(runs, runs')
    BY <1>1, <1>6, SameGrows
  <2>4. req[q].live => Becomes(c, runs')
    BY <1>5, <1>6, <2>1, <2>2, <2>3
  <2> QED  BY <1>1, <2>3, <2>4, Answered
<1>7. CASE runs' = runs /\ (req[q].live => ReceiveError(c, "already_exists"))
  <2>1. RunsOK(runs') /\ Grows(runs, runs') /\ "already_exists" \in Codes
    BY <1>1, <1>7, SameGrows DEF Codes
  <2>2. AnswerError(q, "already_exists")
    BY <1>1, <1>7 DEF AnswerError
  <2> QED  BY <2>1, <2>2, ErrorAnswered
<1>8. CASE /\ Deduplicated(c) = {} /\ (Current > 0 => ~Open(Current))
           /\ runs' = Append(runs, Begun(c, "start"))
           /\ req[q].live => ReceiveStarted(c, Current + 1)
  <2>1. c # Other /\ c \in Callers \cup {Other} /\ StartedIn(runs, c) = {}
        /\ (Len(runs) > 0 => runs[Len(runs)].end # "open")
    BY <1>1, <1>2, <1>8, LongPollAssumption DEF Current, Open
  <2>2. RunsOK(runs') /\ Grows(runs, runs') /\ Len(runs) + 1 \in StartedIn(runs', c)
    <3> DEFINE rt == Append(runs, Begun(c, "start"))
    <3>1. RunsOK(rt) /\ Grows(runs, rt) /\ Len(runs) + 1 \in StartedIn(rt, c)
      <4> HIDE DEF c
      <4> QED  BY <1>1, <2>1, RunStarts
    <3>2. runs' = rt
      BY <1>8
    <3> HIDE DEF rt
    <3> QED  BY <3>1, <3>2
  <2>3. req[q].live => Becomes(c, runs')
    BY <1>5, <1>8, <2>2 DEF Current
  <2> QED  BY <1>1, <2>2, <2>3, Answered
<1> QED  BY <1>6, <1>7, <1>8 DEF StartWorkflow

\* The run is there and its caller is told of a failure.
LEMMA UnansweredKeeps ==
  ASSUME Inv, NEW q \in Slots, StartedUnanswered(q)
  PROVE  RunsOK(runs') /\ Clients' /\ InFlight' /\ Counted'
<1> DEFINE c == q[1]
           rt == Append(runs, Begun(c, "start"))
<1>1. c \in Callers /\ RunsOK(runs) /\ runs' = rt /\ AnswerError(q, "internal")
      /\ Deduplicated(c) = {} /\ "internal" \in Codes
  BY SlotCaller DEF Inv, StartedUnanswered, Codes
<1>2. c # Other /\ c \in Callers \cup {Other} /\ StartedIn(runs, c) = {}
      /\ (Len(runs) > 0 => runs[Len(runs)].end # "open")
  BY <1>1, SameSets, LongPollAssumption DEF Current, Open, StartedUnanswered
<1>3. RunsOK(rt) /\ Grows(runs, rt)
  <2> HIDE DEF c
  <2> QED  BY <1>1, <1>2, RunStarts
<1> HIDE DEF rt
<1>4. RunsOK(runs') /\ Grows(runs, runs')
  BY <1>1, <1>3
<1> QED  BY <1>1, <1>4, ErrorAnswered

-----------------------------------------------------------------------------
(* A request on its way.                                                   *)

\* A request moves on and its caller does not notice.
LEMMA RequestMoves ==
  ASSUME Inv, UNCHANGED <<h, runs>>, NEW q \in Slots, NEW y \in Requests,
         req' = [req EXCEPT ![q] = y], Shape(y, runs), y.stage # "free",
         y.live = req[q].live, y.run = req[q].run, y.from = req[q].from,
         y.kind = req[q].kind, y.wait = req[q].wait
  PROVE  Clients' /\ InFlight'
<1>1. RunsOK(runs') /\ Grows(runs, runs') /\ Shape(y, runs')
  BY SameGrows DEF Inv
<1>2. y.live => Matches(y, h'[q[1]])
  BY DEF Inv, InFlight, Matches
<1>3. h' = h /\ (y.live => req[q].live)
  OBVIOUS
<1> QED  BY <1>1, <1>2, <1>3, OneSlot

LEMMA AdmitKeeps ==
  ASSUME Inv, NEW q \in Slots, Admit(q)
  PROVE  Clients' /\ InFlight' /\ Counted'
<1> DEFINE y == [req[q] EXCEPT !.stage = "got"]
<1>1. req[q] \in Requests /\ Shape(req[q], runs) /\ req[q].stage = "arrived"
      /\ req \in [Slots -> Requests]
  BY DEF Inv, InFlight, Admit
<1>2. /\ y \in Requests /\ y.stage = "got" /\ y.w = req[q].w /\ y.live = req[q].live
      /\ y.run = req[q].run /\ y.from = req[q].from /\ y.kind = req[q].kind
      /\ y.wait = req[q].wait /\ y.rep = req[q].rep /\ y.rec = req[q].rec
  BY <1>1 DEF Requests, Stages
<1>3. req' = [req EXCEPT ![q] = y] /\ h' = h /\ runs' = runs /\ chans' = chans
  BY DEF Admit
<1> HIDE DEF y
<1>4. Shape(y, runs) /\ y.stage # "free"
  BY <1>1, <1>2 DEF Shape
<1>5. Clients' /\ InFlight'
  BY <1>2, <1>3, <1>4, RequestMoves
<1>6. Counted'
  BY <1>2, <1>3, NoWaiter
<1> QED  BY <1>5, <1>6

LEMMA LoadKeeps ==
  ASSUME Inv, NEW q \in Slots, GetExecution(q)
  PROVE  Clients' /\ InFlight' /\ Counted'
<1> DEFINE k == req[q].run
           rec == [run |-> k, last |-> runs[k].len, end |-> runs[k].end]
           y == [req[q] EXCEPT !.stage = "loaded", !.rec = rec]
<1>1. req[q] \in Requests /\ Shape(req[q], runs) /\ req[q].stage = "got" /\ req[q].kind = "history"
      /\ req \in [Slots -> Requests]
  BY DEF Inv, InFlight, GetExecution
<1>2. k \in 1 .. Len(runs) /\ req[q].w = "none"
  BY <1>1 DEF Shape
<1>3. runs[k] \in RunRecs
  BY <1>2 DEF Inv, RunsOK
<1>4. rec \in [run : Nat, last : Nat, end : Ends] /\ runs[k].len \in Nat
  BY <1>2, <1>3 DEF RunRecs
<1>5. k # 0
  BY <1>2
<1>6. req' = [req EXCEPT ![q] = y] /\ h' = h /\ runs' = runs /\ chans' = chans
  <2>1. (IF req[q].run = 0 THEN Current ELSE req[q].run) = k
    BY <1>5
  <2> QED  BY <2>1 DEF GetExecution
<1>7. rec.run = k /\ rec.last = runs[k].len /\ rec.end = runs[k].end
  OBVIOUS
<1> HIDE DEF rec
<1>8. /\ y \in Requests /\ y.stage = "loaded" /\ y.w = req[q].w /\ y.live = req[q].live
      /\ y.run = req[q].run /\ y.from = req[q].from /\ y.kind = req[q].kind
      /\ y.wait = req[q].wait /\ y.rep = req[q].rep /\ y.rec = rec
  BY <1>1, <1>4 DEF Requests, Stages
<1> HIDE DEF y
<1>9. Shape(y, runs) /\ y.stage # "free"
  BY <1>1, <1>2, <1>4, <1>7, <1>8 DEF Shape
<1>10. Clients' /\ InFlight'
  BY <1>6, <1>8, <1>9, RequestMoves
<1>11. Counted'
  BY <1>2, <1>6, <1>8, NoWaiter
<1> QED  BY <1>10, <1>11

LEMMA SubscribeKeeps ==
  ASSUME Inv, NEW q \in Slots, Subscribe(q)
  PROVE  Clients' /\ InFlight' /\ Counted'
<1> DEFINE w == IF req[q].rep \in closed THEN "fired" ELSE "live"
           st == IF HasNews(q) THEN "reading" ELSE "parked"
           y == [req[q] EXCEPT !.stage = st, !.w = w]
<1>1. req[q] \in Requests /\ Shape(req[q], runs) /\ req[q].stage = "loaded"
      /\ req \in [Slots -> Requests]
  BY DEF Inv, InFlight, Subscribe
<1>2. /\ st = "reading" => req[q].rec.last >= req[q].from \/ ~req[q].wait
      /\ st = "parked" => req[q].wait
      /\ st \in {"reading", "parked"} /\ w \in {"fired", "live"}
  BY DEF HasNews
<1>3. /\ req' = [req EXCEPT ![q] = y] /\ h' = h /\ runs' = runs
      /\ chans' = IF w = "live" THEN [chans EXCEPT ![req[q].rep][req[q].rec.run] = @ + 1] ELSE chans
  BY Zenon DEF Subscribe
<1> HIDE DEF w, st
<1>4. /\ y \in Requests /\ y.stage = st /\ y.w = w /\ y.live = req[q].live
      /\ y.run = req[q].run /\ y.from = req[q].from /\ y.kind = req[q].kind
      /\ y.wait = req[q].wait /\ y.rep = req[q].rep /\ y.rec = req[q].rec
  BY <1>1, <1>2 DEF Requests, Stages
<1> HIDE DEF y
<1>5. Shape(y, runs) /\ y.stage # "free"
  BY <1>1, <1>2, <1>4 DEF Shape
<1>6. Clients' /\ InFlight'
  BY <1>3, <1>4, <1>5, RequestMoves
<1>7. Counted'
  <2>1. CASE w = "live"
    BY <1>1, <1>3, <1>4, <2>1, WaiterComes
  <2>2. CASE w # "live"
    <3>1. req[q].w = "none"
      BY <1>1 DEF Shape
    <3>2. chans' = Released(q)
      BY <1>3, <2>2, <3>1 DEF Released
    <3> QED  BY <1>3, <1>4, <2>2, <3>2, WaiterLeaves
  <2> QED  BY <2>1, <2>2
<1> QED  BY <1>6, <1>7

LEMMA TurnKeeps ==
  ASSUME Inv, NEW q \in Slots, NextTurn(q)
  PROVE  Clients' /\ InFlight' /\ Counted'
<1> DEFINE y == [req[q] EXCEPT !.stage = "got", !.w = "none", !.rec = NoRec]
<1>1. req[q] \in Requests /\ Shape(req[q], runs) /\ req[q].stage = "parked"
      /\ req \in [Slots -> Requests]
  BY DEF Inv, InFlight, NextTurn
<1>2. NoRec \in [run : Nat, last : Nat, end : Ends]
  BY DEF NoRec, Ends
<1>3. req' = [req EXCEPT ![q] = y] /\ h' = h /\ runs' = runs /\ chans' = Released(q)
  BY DEF NextTurn
<1>4. /\ y \in Requests /\ y.stage = "got" /\ y.w = "none" /\ y.live = req[q].live
      /\ y.run = req[q].run /\ y.from = req[q].from /\ y.kind = req[q].kind
      /\ y.wait = req[q].wait
  BY <1>1, <1>2 DEF Requests, Stages
<1> HIDE DEF y
<1>5. Shape(y, runs) /\ y.stage # "free"
  BY <1>1, <1>4 DEF Shape
<1>6. Clients' /\ InFlight'
  BY <1>3, <1>4, <1>5, RequestMoves
<1>7. Counted'
  BY <1>3, <1>4, WaiterLeaves
<1> QED  BY <1>6, <1>7

-----------------------------------------------------------------------------
(* The callers and the operators.                                          *)

LEMMA Waits ==
  ASSUME Inv, NEW c \in Callers, h[c].phase # "waiting"
  PROVE  \A p \in Slots : p[1] = c => ~req[p].live
BY DEF Inv, InFlight, Matches

\* A caller moves and has no attempt that it waits for.
LEMMA CallerAlone ==
  ASSUME Inv, UNCHANGED <<runs, chans, req>>, NEW c \in Callers, Becomes(c, runs),
         \A p \in Slots : p[1] = c => ~req[p].live
  PROVE  Clients' /\ InFlight' /\ Counted'
<1>1. RunsOK(runs') /\ Grows(runs, runs') /\ Becomes(c, runs')
  BY SameGrows DEF Inv
<1>2. Clients' /\ \A d \in Callers : d # c => h'[d] = h[d]
  BY <1>1, CallersMove DEF Inv
<1>3. \A p \in Slots : req'[p].live => h'[p[1]] = h[p[1]]
  BY <1>2, SlotCaller
<1>4. req' \in [Slots -> Requests] /\ \A p \in Slots : Touched(req'[p], req[p])
  BY DEF Inv, InFlight, Touched
<1>5. InFlight'
  BY <1>1, <1>3, <1>4, SlotsTouched
<1>6. Counted'
  BY SameWaiters DEF Inv
<1> QED  BY <1>2, <1>5, <1>6

LEMMA CallKeeps ==
  ASSUME Inv, NEW c \in Callers, NEW op \in Ops[c], MakeCall(c, op)
  PROVE  Clients' /\ InFlight' /\ Counted'
<1> DEFINE run == IF op = "execute" THEN 0 ELSE 1
           len == IF op = "execute" THEN 0 ELSE runs[1].len
           x == [NotCalled EXCEPT !.op = op, !.phase = "ready", !.attempt = 1,
                                  !.run = run, !.from = 1, !.floor = len]
<1>1. op \in {"execute", "result", "history"}
  BY LongPollAssumption
<1>2. h[c].phase = "idle" /\ h' = [h EXCEPT ![c] = x]
  BY Zenon DEF MakeCall, Call
<1>3. RunsOK(runs) /\ Len(runs) \in Nat
  BY DEF Inv, RunsOK
<1>4. op # "execute" => 1 \in 1 .. Len(runs) /\ runs[1].len \in Nat
  <2> SUFFICES ASSUME op # "execute" PROVE 1 \in 1 .. Len(runs) /\ runs[1].len \in Nat
    OBVIOUS
  <2>1. 1 \in 1 .. Len(runs)
    BY <1>3 DEF MakeCall, Current
  <2>2. runs[1] \in RunRecs
    BY <1>3, <2>1 DEF RunsOK
  <2> QED  BY <2>1, <2>2 DEF RunRecs
<1>5. run \in Nat /\ len \in Nat /\ run <= Len(runs)
      /\ (op # "execute" => run = 1 /\ len = runs[1].len) /\ (op = "execute" => run = 0)
  BY <1>3, <1>4
<1>6. /\ NotCalled \in ClientRecs /\ NotCalled.result = "none" /\ NotCalled.all = <<>>
  <2>1. <<>> \in Seq(Nat \X Nat)
    OBVIOUS
  <2> QED  BY <2>1 DEF NotCalled, ClientRecs, Results
<1> HIDE DEF run, len
<1>7. /\ x \in ClientRecs /\ x.op = op /\ x.phase = "ready" /\ x.attempt = 1 /\ x.run = run
      /\ x.from = 1 /\ x.floor = len /\ x.all = <<>> /\ x.result = "none"
  BY <1>1, <1>5, <1>6 DEF ClientRecs, Results
<1> HIDE DEF x
<1>8. 1 <= MaxAttempts
  BY LongPollAssumption
<1>9. Len(x.all) = 0 /\ FirstOf(x.run, x.all)
  BY <1>7 DEF FirstOf
<1>10. op = "result" => Chain(runs, 1, x.run)
  BY <1>5, <1>7 DEF Chain
<1>11. op = "history" => x.floor <= runs[x.run].len
  BY <1>4, <1>5, <1>7
<1>12. ClientOK(c, x, runs)
  BY <1>1, <1>5, <1>7, <1>8, <1>9, <1>10, <1>11 DEF ClientOK, Outcomes
<1>13. Becomes(c, runs)
  BY <1>2, <1>7, <1>12 DEF Becomes
<1>14. UNCHANGED <<runs, chans, req>>
  BY DEF MakeCall
<1> QED  BY <1>2, <1>13, <1>14, Waits, CallerAlone

LEMMA ConnectionKeeps ==
  ASSUME Inv, NEW c \in Callers, ConnectionClosed(c)
  PROVE  Clients' /\ InFlight' /\ Counted'
<1>1. h \in [Callers -> ClientRecs] /\ ClientOK(c, h[c], runs) /\ h[c].phase \in {"ready", "waiting"}
      /\ "unavailable" \in Codes /\ AttemptFails(c, "unavailable", TRUE)
  BY DEF Inv, Clients, ConnectionClosed, Codes
<1>2. Becomes(c, runs)
  BY <1>1, Fails
<1>3. UNCHANGED <<runs, chans, req>> /\ \A p \in Slots : p[1] = c => ~req[p].live
  BY DEF ConnectionClosed, Mine
<1> QED  BY <1>2, <1>3, CallerAlone

LEMMA LostKeeps ==
  ASSUME Inv, NEW q \in Slots, AttemptLost(q)
  PROVE  Clients' /\ InFlight' /\ Counted'
<1> DEFINE c == q[1]
           y == [req[q] EXCEPT !.live = FALSE]
<1>1. c \in Callers /\ h \in [Callers -> ClientRecs] /\ ClientOK(c, h[c], runs)
      /\ h[c].phase \in {"ready", "waiting"} /\ req[q].live
      /\ "deadline_exceeded" \in Codes /\ AttemptFails(c, "deadline_exceeded", TRUE)
  BY LiveCaller DEF Inv, Clients, AttemptLost, Codes
<1>2. RunsOK(runs') /\ Grows(runs, runs') /\ runs' = runs /\ chans' = chans
  BY SameGrows DEF Inv, AttemptLost
<1>3. Becomes(c, runs')
  <2> HIDE DEF c
  <2>1. Becomes(c, runs)
    BY <1>1, Fails
  <2> QED  BY <1>2, <2>1
<1>4. req[q] \in Requests /\ Shape(req[q], runs)
  BY DEF Inv, InFlight
<1>5. /\ y \in Requests /\ y.live = FALSE /\ Touched(y, req[q]) /\ y.w = req[q].w
      /\ y.rep = req[q].rep /\ y.rec = req[q].rec
  BY <1>4 DEF Requests, Touched
<1>6. req' = [req EXCEPT ![q] = y]
  BY DEF AttemptLost
<1> HIDE DEF y
<1>7. Shape(y, runs')
  BY <1>2, <1>4, <1>5 DEF Shape, Touched
<1>8. Clients' /\ InFlight'
  BY <1>1, <1>2, <1>3, <1>5, <1>6, <1>7, OneSlot
<1>9. Counted'
  BY <1>2, <1>5, <1>6, NoWaiter
<1> QED  BY <1>8, <1>9

LEMMA SendKeeps ==
  ASSUME Inv, NEW c \in Callers, NEW q \in Mine(c), NEW r \in Replicas, Send(c, q, r)
  PROVE  Clients' /\ InFlight' /\ Counted'
<1> DEFINE x == [h[c] EXCEPT !.phase = "waiting"]
           kind == IF Starting(c) THEN "start" ELSE "history"
           wait == h[c].op # "history"
           y == [Free EXCEPT !.stage = "arrived", !.rep = r, !.live = TRUE, !.kind = kind,
                             !.run = h[c].run, !.from = h[c].from, !.wait = wait]
<1>1. q \in Slots /\ q[1] = c
  BY DEF Mine
<1>2. h \in [Callers -> ClientRecs] /\ h[c] \in ClientRecs /\ ClientOK(c, h[c], runs)
      /\ h[c].phase = "ready" /\ h' = [h EXCEPT ![c] = x] /\ req[q].stage = "free"
  BY DEF Inv, Clients, Send, Attempt
<1>3. /\ x \in ClientRecs /\ x.phase = "waiting" /\ x.op = h[c].op /\ x.attempt = h[c].attempt
      /\ x.run = h[c].run /\ x.from = h[c].from /\ x.all = h[c].all /\ x.floor = h[c].floor
      /\ x.result = h[c].result
  BY <1>2 DEF ClientRecs
<1>4. req' = [req EXCEPT ![q] = y] /\ runs' = runs /\ chans' = chans
  BY Zenon DEF Send
<1>5. kind \in {"start", "history"} /\ wait \in BOOLEAN
      /\ (kind = "start" <=> h[c].op = "execute" /\ h[c].run = 0)
      /\ (wait <=> h[c].op # "history")
  BY DEF Starting
<1>6. h[c].run \in Nat /\ h[c].from \in Nat /\ Len(runs) \in Nat
  BY <1>2 DEF ClientRecs, Inv, RunsOK
<1> HIDE DEF x, kind, wait
<1>7. /\ y \in Requests /\ y.stage = "arrived" /\ y.live = TRUE /\ y.kind = kind
      /\ y.run = h[c].run /\ y.from = h[c].from /\ y.wait = wait /\ y.w = "none"
  BY <1>5, <1>6, FreeShape DEF Requests, Stages
<1> HIDE DEF y
<1>8. RunsOK(runs') /\ Grows(runs, runs')
  BY <1>4, SameGrows DEF Inv
<1>9. ClientOK(c, x, runs')
  BY <1>2, <1>3, <1>4 DEF ClientOK
<1>10. Becomes(c, runs')
  BY <1>2, <1>3, <1>9 DEF Becomes
<1>11. kind = "history" => h[c].run \in 1 .. Len(runs)
  <2>1. h[c].op \in {"execute", "result", "history"}
    BY <1>2 DEF ClientOK, ClientRecs
  <2>2. h[c].run <= Len(runs) /\ (h[c].op \in {"result", "history"} => h[c].run >= 1)
    BY <1>2 DEF ClientOK
  <2> QED  BY <1>5, <1>6, <2>1, <2>2
<1>12. Shape(y, runs')
  BY <1>4, <1>7, <1>11 DEF Shape
<1>13. h'[c] = x
  BY <1>2
<1>14. Matches(y, h'[q[1]])
  BY <1>1, <1>3, <1>5, <1>7, <1>13 DEF Matches
<1>15. \A p \in Slots : p[1] = q[1] => ~req[p].live
  BY <1>1, <1>2, Waits
<1>16. Clients' /\ InFlight'
  BY <1>1, <1>4, <1>7, <1>8, <1>10, <1>12, <1>14, <1>15, OneSlot
<1>17. Counted'
  <2>1. req[q].w = "none"
    BY <1>1, <1>2 DEF Inv, InFlight, Shape
  <2> QED  BY <1>1, <1>4, <1>7, <2>1, NoWaiter
<1> QED  BY <1>16, <1>17

LEMMA GiveUpKeeps ==
  ASSUME Inv, NEW c \in Callers, CallerGivesUp(c)
  PROVE  Clients' /\ InFlight' /\ Counted'
<1>1. h \in [Callers -> ClientRecs] /\ ClientOK(c, h[c], runs) /\ h[c].phase # "idle"
      /\ "canceled" \in Results /\ "canceled" \notin Outcomes /\ Finish(c, "canceled")
  BY DEF Inv, Clients, CallerGivesUp, Results, Outcomes
<1>2. Becomes(c, runs)
  BY <1>1, Finishes
<1>3. RunsOK(runs') /\ Grows(runs, runs') /\ runs' = runs /\ chans' = chans
  BY SameGrows DEF Inv, CallerGivesUp
<1>4. Clients' /\ \A d \in Callers : d # c => h'[d] = h[d]
  BY <1>2, <1>3, CallersMove DEF Inv
<1>5. ASSUME NEW p \in Slots
      PROVE  /\ req'[p] \in Requests /\ Touched(req'[p], req[p])
             /\ req'[p].live => h'[p[1]] = h[p[1]]
             /\ req'[p].w = req[p].w /\ req'[p].rep = req[p].rep /\ req'[p].rec = req[p].rec
  <2>1. req[p] \in Requests /\ p[1] \in Callers
    BY SlotCaller DEF Inv, InFlight
  <2>2. CASE p[1] = c
    <3> DEFINE y == [req[p] EXCEPT !.live = FALSE]
    <3>1. req'[p] = y
      BY <2>2 DEF CallerGivesUp, Mine
    <3>2. y \in Requests /\ Touched(y, req[p]) /\ y.live = FALSE
          /\ y.w = req[p].w /\ y.rep = req[p].rep /\ y.rec = req[p].rec
      BY <2>1 DEF Requests, Touched
    <3> HIDE DEF y
    <3> QED  BY <3>1, <3>2
  <2>3. CASE p[1] # c
    <3>1. req'[p] = req[p]
      BY <2>3 DEF CallerGivesUp, Mine
    <3> QED  BY <1>4, <2>1, <2>3, <3>1 DEF Touched
  <2> QED  BY <2>2, <2>3
<1>6. req' \in [Slots -> Requests]
  BY <1>5 DEF CallerGivesUp
<1>7. InFlight'
  BY <1>3, <1>5, <1>6, SlotsTouched
<1>8. \A r \in Replicas, k \in Runs : Subscribed(req', r, k) = Subscribed(req, r, k)
  BY <1>5 DEF Subscribed
<1>9. Counted'
  BY <1>3, <1>8, SameWaiters DEF Inv
<1> QED  BY <1>4, <1>7, <1>9

\* The engine closes: all its subscriptions fire, its connections are gone.
LEMMA CloseKeeps ==
  ASSUME Inv, NEW r \in Replicas, CloseEngine(r)
  PROVE  Clients' /\ InFlight' /\ Counted'
<1>1. RunsOK(runs') /\ Grows(runs, runs') /\ runs' = runs /\ h' = h
      /\ chans' = NotifiedChans(r, Runs)
  BY SameGrows DEF Inv, CloseEngine
<1>2. req \in [Slots -> Requests]
  BY DEF Inv, InFlight
<1>3. ASSUME NEW p \in Slots
      PROVE  /\ req'[p] \in Requests /\ Touched(req'[p], req[p])
             /\ req'[p].rep = req[p].rep /\ req'[p].rec = req[p].rec
             /\ req'[p].w = IF req[p].w = "live" /\ req[p].rep = r /\ req[p].rec.run \in Runs
                            THEN "fired" ELSE req[p].w
  <2> DEFINE n == Notified(r, Runs)[p]
             y == [n EXCEPT !.live = FALSE]
  <2>1. /\ n \in Requests /\ Touched(n, req[p]) /\ n.rep = req[p].rep /\ n.live = req[p].live
        /\ n.w = IF req[p].w = "live" /\ req[p].rep = r /\ req[p].rec.run \in Runs
                 THEN "fired" ELSE req[p].w
    BY <1>2, NotifiedSlots
  <2>2. req'[p] = IF n.rep = r THEN y ELSE n
    BY DEF CloseEngine
  <2> HIDE DEF n
  <2>3. /\ y \in Requests /\ y.live = FALSE /\ Touched(y, n) /\ y.rep = n.rep /\ y.rec = n.rec
        /\ y.w = n.w
    BY <2>1 DEF Requests, Touched
  <2> HIDE DEF y
  <2>4. Touched(y, req[p]) /\ y.rec = req[p].rec /\ n.rec = req[p].rec
    BY <2>1, <2>3 DEF Touched
  <2>5. CASE n.rep = r
    BY <2>1, <2>2, <2>3, <2>4, <2>5
  <2>6. CASE n.rep # r
    BY <2>1, <2>2, <2>4, <2>6
  <2> QED  BY <2>5, <2>6
<1>4. req' \in [Slots -> Requests]
  BY <1>3 DEF CloseEngine
<1>5. InFlight'
  BY <1>1, <1>3, <1>4, SlotsTouched
<1>6. Counted'
  BY <1>1, <1>3, WaitersNotified
<1>7. Clients'
  BY <1>1 DEF Inv, Clients
<1> QED  BY <1>5, <1>6, <1>7

LEMMA ElsewhereKeeps ==
  ASSUME Inv, StartedElsewhere
  PROVE  RunsOK(runs') /\ Clients' /\ InFlight' /\ Counted'
<1> DEFINE rt == Append(runs, Begun(Other, "start"))
<1>1. RunsOK(runs) /\ runs' = rt
  BY DEF Inv, StartedElsewhere
<1>2. Cardinality(ExtraIn(runs)) < MaxExtra /\ (Len(runs) > 0 => runs[Len(runs)].end # "open")
      /\ Other \in Callers \cup {Other}
  BY <1>1, SameSets DEF StartedElsewhere, Current, Open
<1>3. RunsOK(rt) /\ Grows(runs, rt)
  BY <1>1, <1>2, RunStarts
<1> HIDE DEF rt
<1>4. RunsOK(runs') /\ Grows(runs, runs')
  BY <1>1, <1>3
<1>5. UNCHANGED <<h, chans, req>>
  BY DEF StartedElsewhere
<1> QED  BY <1>4, <1>5, StoreGrows

LEMMA InvInit ==
  ASSUME Init
  PROVE  Inv
<1>1. {MaxExtra, MaxFaults, MaxRuns} \subseteq Nat /\ MaxAttempts \in Nat
  BY LongPollAssumption
<1>2. RunsOK(runs)
  <2>1. runs = <<>> /\ Len(runs) = 0 /\ runs \in Seq(RunRecs)
    BY DEF Init
  <2>2. 1 .. Len(runs) = {}
    BY <2>1
  <2>3. ExtraIn(runs) = {} /\ \A c : StartedIn(runs, c) = {}
    BY <2>2 DEF ExtraIn, StartedIn
  <2>4. Cardinality(ExtraIn(runs)) <= MaxExtra
    BY <1>1, <2>3, FS_EmptySet
  <2> QED  BY <2>1, <2>2, <2>3, <2>4 DEF RunsOK
<1>3. Clients
  <2>1. <<>> \in Seq(Nat \X Nat)
    OBVIOUS
  <2>2. NotCalled \in ClientRecs
    BY <2>1 DEF NotCalled, ClientRecs, Results
  <2>3. NotCalled.op = "none" /\ NotCalled.phase = "idle" /\ NotCalled.attempt = 0
        /\ NotCalled.run = 0 /\ NotCalled.result = "none"
    BY DEF NotCalled
  <2>4. 0 <= Len(runs)
    BY <1>2 DEF RunsOK
  <2>5. \A c : ClientOK(c, NotCalled, runs)
    BY <1>1, <2>3, <2>4 DEF ClientOK, Outcomes
  <2> QED  BY <2>2, <2>5 DEF Clients, Init, ClientInit
<1>4. req = [q \in Slots |-> Free]
  BY DEF Init
<1>5. InFlight
  BY <1>4, FreeShape DEF InFlight, OneLive
<1>6. Counted
  <2>1. \A r \in Replicas, k \in Runs : Subscribed(req, r, k) = {}
    BY <1>4, FreeShape DEF Subscribed
  <2>2. chans \in [Replicas -> [Runs -> Nat]] /\ \A r \in Replicas, k \in Runs : chans[r][k] = 0
    BY DEF Init
  <2> QED  BY <2>1, <2>2, FS_EmptySet DEF Counted
<1>7. Operators
  BY <1>1 DEF Operators, Init
<1> QED  BY <1>2, <1>3, <1>5, <1>6, <1>7 DEF Inv

LEMMA InvNext ==
  ASSUME Inv, [Next]_vars
  PROVE  Inv'
<1> USE DEF Inv
<1>0. Operators /\ MaxFaults \in Nat /\ faults \in Nat /\ faults <= MaxFaults
      /\ (faults < MaxFaults => faults + 1 \in Nat /\ faults + 1 <= MaxFaults)
  BY LongPollAssumption DEF Operators
<1>s. runs' = runs => RunsOK(runs')
  OBVIOUS
<1>g. runs' = runs => RunsOK(runs') /\ Grows(runs, runs')
  BY SameGrows
<1>e. ASSUME NEW q \in Slots, NEW code \in Codes, AnswerError(q, code), runs' = runs
      PROVE  Clients' /\ InFlight' /\ Counted' /\ RunsOK(runs')
  BY <1>e, <1>g, ErrorAnswered
<1>1. CASE StartedElsewhere
  <2>1. Operators'
    BY <1>0, <1>1 DEF StartedElsewhere, Operators
  <2> QED  BY <1>1, <2>1, ElsewhereKeeps
<1>2. ASSUME NEW q \in Slots, HandlerStep(q) \/ Recheck(q)
      PROVE  Inv'
  <2>1. Operators'
    BY <1>0, <1>2 DEF HandlerStep, Recheck, NextTurn, Admit, StartWorkflow, GetExecution, Subscribe,
                     ReadHistory, Wake, Operators
  <2>2. CASE Admit(q)
    BY <1>s, <2>1, <2>2, AdmitKeeps DEF Admit
  <2>3. CASE StartWorkflow(q)
    BY <2>1, <2>3, StartKeeps
  <2>4. CASE GetExecution(q)
    BY <1>s, <2>1, <2>4, LoadKeeps DEF GetExecution
  <2>5. CASE Subscribe(q)
    BY <1>s, <2>1, <2>5, SubscribeKeeps DEF Subscribe
  <2>6. CASE ReadHistory(q)
    BY <1>s, <2>1, <2>6, ReadKeeps DEF ReadHistory
  <2>7. CASE NextTurn(q)
    BY <1>s, <2>1, <2>7, TurnKeeps DEF NextTurn
  <2> QED  BY <1>2, <2>2, <2>3, <2>4, <2>5, <2>6, <2>7 DEF HandlerStep, Recheck, Wake
<1>3. ASSUME NEW q \in Slots, Expire(q) \/ Cap(q)
      PROVE  Inv'
  <2>1. Operators' /\ runs' = runs /\ Answer(q, ExpiredPoll(q))
    BY <1>0, <1>3 DEF Expire, Cap, Operators
  <2>2. req[q].stage # "free" /\ req[q].kind = "history" /\ (req[q].live => req[q].wait)
    <3>1. Shape(req[q], runs)
      BY DEF InFlight
    <3> QED  BY <1>3, <3>1 DEF Expire, Cap, PollEnded, Shape
  <2> QED  BY <1>s, <2>1, <2>2, ExpiredAnswered
<1>4. ASSUME NEW q \in Slots, AttemptLost(q)
      PROVE  Inv'
  <2>1. Operators' /\ runs' = runs
    BY <1>0, <1>4 DEF AttemptLost, Operators
  <2> QED  BY <1>4, <1>s, <2>1, LostKeeps
<1>5. ASSUME NEW q \in Slots, RequestTimesOut(q) \/ Panics(q)
      PROVE  Inv'
  <2>1. Operators' /\ runs' = runs /\ "deadline_exceeded" \in Codes /\ "internal" \in Codes
    BY <1>0, <1>5 DEF RequestTimesOut, Panics, Operators, Codes
  <2> QED  BY <1>5, <1>e, <2>1 DEF RequestTimesOut, Panics
<1>6. ASSUME NEW q \in Slots, StartedUnanswered(q)
      PROVE  Inv'
  <2>1. Operators'
    BY <1>0, <1>6 DEF StartedUnanswered, Operators
  <2> QED  BY <1>6, <2>1, UnansweredKeeps
<1>7. ASSUME NEW q \in Slots, NEW code \in RejectedBy, Reject(q, code)
      PROVE  Inv'
  <2>1. Operators' /\ runs' = runs /\ code \in Codes
    BY <1>0, <1>7 DEF Reject, RejectedBy, Operators, Codes
  <2> QED  BY <1>7, <1>e, <2>1 DEF Reject
<1>8. ASSUME NEW q \in Slots, NEW code \in {"internal", "unavailable"}, StoreFails(q, code)
      PROVE  Inv'
  <2>1. Operators' /\ runs' = runs /\ code \in Codes
    BY <1>0, <1>8 DEF StoreFails, Operators, Codes
  <2> QED  BY <1>8, <1>e, <2>1 DEF StoreFails
<1>9. ASSUME NEW r \in Replicas, Write(r)
      PROVE  Inv'
  <2>1. Operators' /\ Append1(r, "open", FALSE) /\ "open" \in Ends /\ Cardinality(Written) < MaxWrites
    BY <1>0, <1>9 DEF Write, Append1, Operators, Ends
  <2> QED  BY <2>1, AppendKeeps
<1>10. ASSUME NEW r \in Replicas, ContinueAsNew(r)
       PROVE  Inv'
  <2>1. Operators' /\ Append1(r, "continued", TRUE) /\ "continued" \in Ends /\ Cardinality(Extra) < MaxExtra
    BY <1>0, <1>10 DEF ContinueAsNew, Append1, Operators, Ends
  <2> QED  BY <2>1, AppendKeeps
<1>11. ASSUME NEW r \in Replicas, NEW o \in Outcomes, NEW b \in BOOLEAN, CloseRun(r, o, b)
       PROVE  Inv'
  <2>1. /\ Operators' /\ Append1(r, o, b) /\ o \in Ends /\ o \notin {"open", "continued"}
        /\ b => Cardinality(Extra) < MaxExtra
    BY <1>0, <1>11 DEF CloseRun, Append1, Operators, Ends, Outcomes
  <2> QED  BY <2>1, AppendKeeps
<1>12. ASSUME NEW r \in Replicas, Shutdown(r)
       PROVE  Inv'
  <2>1. Operators' /\ runs' = runs /\ UNCHANGED <<h, chans, req>>
    BY <1>0, <1>12 DEF Shutdown, Operators
  <2> QED  BY <1>g, <2>1, StoreGrows
<1>13. ASSUME NEW r \in Replicas, CloseEngine(r)
       PROVE  Inv'
  <2>1. Operators' /\ runs' = runs
    BY <1>0, <1>13 DEF CloseEngine, Operators
  <2> QED  BY <1>13, <1>s, <2>1, CloseKeeps
<1>14. ASSUME NEW c \in Callers, NEW q \in Mine(c), NEW r \in Replicas, Send(c, q, r)
       PROVE  Inv'
  <2>1. Operators' /\ runs' = runs
    BY <1>0, <1>14 DEF Send, Operators
  <2> QED  BY <1>14, <1>s, <2>1, SendKeeps
<1>15. ASSUME NEW c \in Callers, ConnectionClosed(c)
       PROVE  Inv'
  <2>1. Operators' /\ runs' = runs
    BY <1>0, <1>15 DEF ConnectionClosed, Operators
  <2> QED  BY <1>15, <1>s, <2>1, ConnectionKeeps
<1>16. ASSUME NEW c \in Callers, CallerGivesUp(c)
       PROVE  Inv'
  <2>1. Operators' /\ runs' = runs
    BY <1>0, <1>16 DEF CallerGivesUp, Operators
  <2> QED  BY <1>16, <1>s, <2>1, GiveUpKeeps
<1>17. ASSUME NEW c \in Callers, NEW op \in Ops[c], MakeCall(c, op)
       PROVE  Inv'
  <2>1. Operators' /\ runs' = runs
    BY <1>0, <1>17 DEF MakeCall, Operators
  <2> QED  BY <1>17, <1>s, <2>1, CallKeeps
<1>18. CASE UNCHANGED vars
  <2>1. Operators' /\ runs' = runs /\ UNCHANGED <<h, chans, req>>
    BY <1>0, <1>18 DEF vars, Operators
  <2> QED  BY <1>g, <2>1, StoreGrows
<1> QED  BY <1>1, <1>2, <1>3, <1>4, <1>5, <1>6, <1>7, <1>8, <1>9, <1>10, <1>11, <1>12, <1>13,
            <1>14, <1>15, <1>16, <1>17, <1>18 DEF Next, ClientStep

LEMMA InvHolds == Spec => []Inv
<1>1. Init => Inv
  BY InvInit
<1>2. Inv /\ [Next]_vars => Inv'
  BY InvNext
<1> QED  BY <1>1, <1>2, PTL DEF Spec

-----------------------------------------------------------------------------
(* What follows.                                                           *)

LEMMA AtMostOne ==
  ASSUME NEW S, \A a, b \in S : a = b
  PROVE  Cardinality(S) <= 1
<1>1. CASE S = {}
  <2>1. Cardinality(S) = 0
    BY <1>1, FS_EmptySet
  <2> QED  BY <2>1
<1>2. CASE S # {}
  <2>1. PICK a : S = {a}
    BY <1>2
  <2>2. Cardinality(S) = 1
    BY <2>1, FS_Singleton
  <2> QED  BY <2>2
<1> QED  BY <1>1, <1>2

LEMMA InvTypes ==
  ASSUME Inv
  PROVE  TypeOK
<1>1. runs \in Seq([len : 1..MaxWrites + 2, end : {"open", "continued"} \cup Outcomes,
                    by : Callers \cup {Other}, origin : {"start", "run"}])
      /\ Len(runs) <= MaxRuns
  <2> DEFINE T == [len : 1..MaxWrites + 2, end : {"open", "continued"} \cup Outcomes,
                   by : Callers \cup {Other}, origin : {"start", "run"}]
             n == Len(runs)
  <2>1. RunsOK(runs) /\ MaxWrites \in Nat /\ MaxRuns \in Nat
    BY LongPollAssumption DEF Inv
  <2>2. n \in Nat /\ n <= MaxRuns
    BY <2>1, FewRuns
  <2>3. ASSUME NEW k \in 1 .. n
        PROVE  runs[k] \in T
    <3>1. runs[k] \in RunRecs /\ runs[k].len <= MaxWrites + (IF runs[k].end = "open" THEN 1 ELSE 2)
      BY <2>1 DEF RunsOK
    <3>2. runs[k].len \in 1 .. MaxWrites + 2
      BY <2>1, <3>1 DEF RunRecs
    <3> QED  BY <3>1, <3>2 DEF RunRecs, Ends
  <2> HIDE DEF T
  <2>4. runs \in [1 .. n -> RunRecs]
    BY <2>1 DEF RunsOK
  <2>5. runs \in [1 .. n -> T]
    BY <2>3, <2>4
  <2>6. runs \in Seq(T)
    BY <2>2, <2>5, SeqDef
  <2> QED  BY <2>2, <2>6 DEF T
<1>2. chans \in [Replicas -> [Runs -> 0..Cardinality(Slots)]]
  <2>1. IsFiniteSet(Slots) /\ Cardinality(Slots) \in Nat
    BY LongPollAssumption, FS_CardinalityType
  <2>2. ASSUME NEW r \in Replicas, NEW k \in Runs
        PROVE  chans[r][k] \in 0 .. Cardinality(Slots)
    <3>1. Subscribed(req, r, k) \in SUBSET Slots
      BY DEF Subscribed
    <3>2. Cardinality(Subscribed(req, r, k)) <= Cardinality(Slots)
      BY <2>1, <3>1, FS_Subset
    <3>3. Cardinality(Subscribed(req, r, k)) \in Nat
      BY SubscribedFinite
    <3>4. chans[r][k] = Cardinality(Subscribed(req, r, k))
      BY DEF Inv, Counted
    <3> QED  BY <2>1, <3>2, <3>3, <3>4
  <2>3. chans \in [Replicas -> [Runs -> Nat]]
    BY DEF Inv, Counted
  <2> QED  BY <2>2, <2>3
<1>3. closed \subseteq draining /\ draining \subseteq Restarting /\ faults <= MaxFaults
  BY DEF Inv, Operators
<1>4. \A q \in Slots : /\ req[q].stage \in Stages
                       /\ req[q].w # "none" <=> req[q].stage \in {"reading", "parked"}
                       /\ req[q].live => h[q[1]].phase = "waiting"
  BY DEF Inv, InFlight, Requests, Shape, Matches
<1>5. ASSUME NEW c \in Callers
      PROVE  h[c].attempt <= MaxAttempts /\ Cardinality({q \in Mine(c) : req[q].live}) <= 1
  <2> DEFINE L == {q \in Mine(c) : req[q].live}
  <2>1. \A p, q \in L : p = q
    BY DEF Inv, InFlight, OneLive, Mine
  <2>2. Cardinality(L) <= 1
    <3> HIDE DEF L
    <3> QED  BY <2>1, AtMostOne
  <2> QED  BY <2>2 DEF Inv, Clients, ClientOK
<1> QED  BY <1>1, <1>2, <1>3, <1>4, <1>5 DEF TypeOK, Stages

\* The notifier's books are right whatever polls come, time out, hang up and are waked in
\* whatever order: every count is the number of polls that wait, so an entry is there as long
\* as a write has somebody to wake, and gone after (notifier.subscribe, notify and close).
THEOREM WaitersAreCounted == Spec => []WaitersCounted
<1>1. Inv => WaitersCounted
  <2> SUFFICES ASSUME Inv PROVE WaitersCounted
    OBVIOUS
  <2>1. TypeOK
    BY InvTypes
  <2>2. SubscriptionsCounted
    BY DEF Inv, Counted, SubscriptionsCounted, Subscribed
  <2> QED  BY <2>1, <2>2 DEF WaitersCounted
<1> QED  BY <1>1, InvHolds, PTL

\* However an attempt to start is lost, repeated, overtaken by its own successor or answered
\* late, ExecuteWorkflow starts one run, and the handle it returns is for that run or one that
\* continues it (applyStartDefaults, Engine.StartWorkflow).
THEOREM StartIsMadeOnce == Spec => []StartedOnce
<1>1. Inv => StartedOnce
  <2> SUFFICES ASSUME Inv, NEW c \in Callers
               PROVE  /\ Cardinality(StartedBy(c)) <= 1
                      /\ h[c].op = "execute" /\ h[c].run > 0 =>
                           \E k \in StartedBy(c) : \A j \in k..h[c].run - 1 : runs[j].end = "continued"
    BY DEF StartedOnce
  <2>1. RunsOK(runs) /\ StartedBy(c) = StartedIn(runs, c)
    BY SameSets DEF Inv
  <2>2. \A j, k \in StartedBy(c) : j = k
    BY <2>1 DEF RunsOK
  <2>4. Cardinality(StartedBy(c)) <= 1
    BY <2>2, AtMostOne
  <2>3. h[c].op = "execute" /\ h[c].run > 0 =>
          \E k \in StartedBy(c) : \A j \in k..h[c].run - 1 : runs[j].end = "continued"
    BY <2>1 DEF Inv, Clients, ClientOK, Chain
  <2> QED  BY <2>3, <2>4
<1> QED  BY <1>1, InvHolds, PTL

\* What a caller is told is true of the store, though the answer was put together from two
\* reads with a wait between them: Result reports the outcome of the first run that did not
\* continue as new, of the chain it was called on, whether or not the server retries that run
\* in a successor, and never a corrupt history, and History the events of its run, each once
\* and in order (GetHistory, awaitTerminal, History).
THEOREM TrueIsTold == Spec => []AnswersAreTrue
<1>1. Inv => ResultIsTrue
  <2> SUFFICES ASSUME Inv, NEW c \in Callers, h[c].op \in {"execute", "result"}
               PROVE  /\ h[c].result # "corrupt"
                      /\ h[c].result \in Outcomes =>
                           /\ runs[h[c].run].end = h[c].result
                           /\ LET first == IF h[c].op = "execute" THEN CHOOSE k \in StartedBy(c) : TRUE ELSE 1
                              IN \A k \in first..h[c].run - 1 : runs[k].end = "continued"
    BY Zenon DEF ResultIsTrue
  <2>1. ClientOK(c, h[c], runs) /\ RunsOK(runs) /\ StartedBy(c) = StartedIn(runs, c)
    BY SameSets DEF Inv, Clients
  <2>2. h[c].result # "corrupt"
        /\ (h[c].result \in Outcomes => h[c].run >= 1 /\ runs[h[c].run].end = h[c].result)
    BY <2>1 DEF ClientOK
  <2> DEFINE first == IF h[c].op = "execute" THEN CHOOSE k \in StartedBy(c) : TRUE ELSE 1
  <2>3. ASSUME h[c].result \in Outcomes
        PROVE  Chain(runs, first, h[c].run)
    <3>1. CASE h[c].op = "execute"
      <4>1. h[c].run > 0
        <5>1. h[c] \in ClientRecs
          BY DEF Inv, Clients
        <5> QED  BY <2>2, <2>3, <5>1 DEF ClientRecs
      <4>2. PICK k \in StartedIn(runs, c) : Chain(runs, k, h[c].run)
        BY <2>1, <3>1, <4>1 DEF ClientOK
      <4>3. first \in StartedIn(runs, c)
        BY <2>1, <3>1, <4>2
      <4>4. first = k
        BY <2>1, <4>2, <4>3 DEF RunsOK
      <4> QED  BY <4>2, <4>4
    <3>2. CASE h[c].op # "execute"
      BY <2>1, <3>2 DEF ClientOK
    <3> QED  BY <3>1, <3>2
  <2> HIDE DEF first
  <2>4. h[c].result \in Outcomes => \A k \in first..h[c].run - 1 : runs[k].end = "continued"
    BY <2>3 DEF Chain
  <2> QED  BY <2>2, <2>4 DEF first
<1>2. Inv => HistoryIsPrefix
  <2> SUFFICES ASSUME Inv, NEW c \in Callers, h[c].op = "history", h[c].result = "ok"
               PROVE  /\ h[c].all = [i \in 1..Len(h[c].all) |-> <<h[c].run, i>>]
                      /\ Len(h[c].all) >= h[c].floor
    BY DEF HistoryIsPrefix
  <2>1. ClientOK(c, h[c], runs) /\ h[c] \in ClientRecs
    BY DEF Inv, Clients
  <2>2. FirstOf(h[c].run, h[c].all) /\ Len(h[c].all) >= h[c].floor
    BY <2>1 DEF ClientOK
  <2> DEFINE all == h[c].all
  <2>3. all \in Seq(Nat \X Nat)
    BY <2>1 DEF ClientRecs
  <2> HIDE DEF all
  <2>4. all = [i \in 1 .. Len(all) |-> all[i]]
    BY <2>3
  <2>5. \A i \in 1 .. Len(all) : all[i] = <<h[c].run, i>>
    BY <2>2 DEF FirstOf, all
  <2>6. [i \in 1 .. Len(all) |-> all[i]] = [i \in 1 .. Len(all) |-> <<h[c].run, i>>]
    BY <2>5
  <2> QED  BY <2>2, <2>4, <2>6 DEF all
<1>3. Inv => AnswersAreTrue
  BY <1>1, <1>2 DEF AnswersAreTrue
<1> QED  BY <1>3, InvHolds, PTL
===============================================================================
