------------------------------ MODULE StoreProofs ------------------------------
(***************************************************************************)
(* The timer service and the store, for any constants.                     *)
(*                                                                         *)
(* The loop of Timers.tla stays within its bounds and removes from the     *)
(* index only what it has served.  The delete by key is what makes the     *)
(* second fact delicate: between the callback and the delete the engine    *)
(* may arm another entry under the same key, and the invariant has to      *)
(* follow the entries under the key of the record in hand, not the record. *)
(*                                                                         *)
(* The drivers of Persistence.tla hold and read the same, and pages miss   *)
(* nothing.  The memory driver sifts a heap, keeps a reverse index and     *)
(* walks a frontier where SQLite has sets of rows and sorts; the proof     *)
(* reduces both to the same sets and to the ranks of their members.        *)
(***************************************************************************)
EXTENDS Timers, Persistence, SequenceTheorems, FiniteSetTheorems, TLAPS

Entries == [key : Keys, at : Times, seen : BOOLEAN, raced : BOOLEAN]
Places == {"new", "wait", "dispatch", "calling", "delete", "done"}
Loops == [at : Places, page : Seq(Entries), wait : Nat, failures : Nat]
LongestWait == Jitter + (IF MaxWait > Interval THEN MaxWait ELSE Interval)

OnePerKey(rows) == \A e, f \in rows : e.key = f.key => e = f

\* The index is a finite set of entries, one per key at most.
IndexSound == index \subseteq Entries /\ IsFiniteSet(index) /\ OnePerKey(index)

LoopWithin ==
  /\ loop \in Loops
  /\ Len(loop.page) <= Batch /\ (loop.page = <<>> <=> loop.at \in {"new", "wait", "done"})
  /\ loop.wait <= LongestWait

Others ==
  /\ now \in Times /\ stop \in BOOLEAN /\ hard \in BOOLEAN
  /\ caller \in {"none", "waiting", "hard", "stopped", "expired"}

\* Whatever the index holds under the key about to be deleted was seen by the callback,
\* or was armed while the loop had the key in hand.
InHandIsServed ==
  loop.at = "delete" =>
    \A e \in index : e.key = Head(loop.page).key => e.seen \/ e.raced

Inv == IndexSound /\ LoopWithin /\ Others /\ StopDrains /\ InHandIsServed

-------------------------------------------------------------------------------
\* The order of the due rows.

LEMMA LessOrders ==
  ASSUME NEW a, NEW b, NEW c,
         a.at \in Nat, b.at \in Nat, c.at \in Nat, a.key \in Nat, b.key \in Nat, c.key \in Nat
  PROVE  /\ ~Less(a, a)
         /\ Less(a, b) => ~Less(b, a)
         /\ Less(a, b) /\ Less(b, c) => Less(a, c)
         /\ a.key # b.key => Less(a, b) \/ Less(b, a)
BY DEF Less

\* With one row per key the number of rows before a row is its place, and every place
\* below the number of rows is taken.
LEMMA PlacesTaken ==
  ASSUME NEW due, IsFiniteSet(due), OnePerKey(due),
         \A r \in due : r.at \in Nat /\ r.key \in Nat
  PROVE  /\ Cardinality(due) \in Nat
         /\ \A r \in due : Cardinality(Before(due, r)) \in 0 .. Cardinality(due) - 1
         /\ \A q, r \in due :
              Less(q, r) <=> Cardinality(Before(due, q)) < Cardinality(Before(due, r))
         /\ \A i \in 1 .. Cardinality(due) : \E r \in due : Cardinality(Before(due, r)) = i - 1
<1> DEFINE n == Cardinality(due)
           Rank(r) == Cardinality(Before(due, r))
<1>1. n \in Nat
  BY FS_CardinalityType
<1>2. ASSUME NEW r \in due
      PROVE  IsFiniteSet(Before(due, r)) /\ Rank(r) \in Nat /\ Rank(r) \in 0 .. n - 1
  <2>1. Before(due, r) \in SUBSET (due \ {r})
    BY LessOrders DEF Before
  <2>2. IsFiniteSet(due \ {r}) /\ Cardinality(due \ {r}) = n - 1
    BY FS_RemoveElement
  <2>3. IsFiniteSet(Before(due, r)) /\ Rank(r) <= n - 1
    BY <2>1, <2>2, FS_Subset
  <2>4. Rank(r) \in Nat
    BY <2>3, FS_CardinalityType
  <2> QED BY <1>1, <2>3, <2>4
<1>3. ASSUME NEW q \in due, NEW r \in due, Less(q, r)
      PROVE  Rank(q) < Rank(r)
  <2>1. Before(due, q) \in SUBSET Before(due, r)
    BY <1>3, LessOrders DEF Before
  <2>2. q \in Before(due, r) /\ q \notin Before(due, q)
    BY <1>3, LessOrders DEF Before
  <2>3. Rank(q) <= Rank(r) /\ (Rank(r) = Rank(q) => Before(due, r) = Before(due, q))
    BY <1>2, <2>1, FS_Subset
  <2> QED BY <1>2, <2>2, <2>3
<1>4. ASSUME NEW q \in due, NEW r \in due, Rank(q) < Rank(r)
      PROVE  Less(q, r)
  <2>1. q # r
    BY <1>2, <1>4
  <2>2. q.key # r.key
    BY <2>1 DEF OnePerKey
  <2>3. ~Less(r, q)
    BY <1>2, <1>3, <1>4
  <2> QED BY <2>2, <2>3, LessOrders
<1>5. ASSUME NEW q \in due, NEW r \in due, Rank(q) = Rank(r)
      PROVE  q = r
  <2>1. ~Less(q, r) /\ ~Less(r, q)
    BY <1>2, <1>3, <1>5
  <2>2. q.key = r.key
    BY <2>1, LessOrders
  <2> QED BY <2>2 DEF OnePerKey
<1>6. \A i \in 1 .. n : \E r \in due : Rank(r) = i - 1
  <2> DEFINE f == [r \in due |-> Rank(r)]
             T == 0 .. n - 1
  <2>1. f \in [due -> T]
    BY <1>2
  <2>2. f \in Injection(due, T)
    BY <1>5, <2>1 DEF Injection, IsInjective
  <2>3. IsFiniteSet(T) /\ Cardinality(T) = n
    BY <1>1, FS_Interval
  <2>4. f \in Surjection(due, T)
    BY <2>2, <2>3, FS_Injection
  <2>5. \A t \in T : \E r \in due : f[r] = t
    BY <2>4 DEF Surjection
  <2> QED BY <1>1, <2>5
<1> QED BY <1>1, <1>2, <1>3, <1>4, <1>6

\* DueRows returns the earliest due rows in order, each once, as many as there are or as
\* the limit allows: a row it leaves out comes after every row it returns, and is left
\* out only by a full page (DueTimers, ORDER BY ... LIMIT).
THEOREM PageIsEarliest ==
  ASSUME NEW rows, IsFiniteSet(rows), OnePerKey(rows),
         \A r \in rows : r.at \in Nat /\ r.key \in Nat,
         NEW t \in Nat, NEW limit \in Nat
  PROVE  LET p == DueRows(rows, t, limit) IN
         /\ p \in Seq(rows) /\ Len(p) <= limit
         /\ \A i \in 1 .. Len(p) : p[i].at <= t
         /\ \A i, j \in 1 .. Len(p) : i < j => Less(p[i], p[j])
         /\ \A r \in rows :
              r.at <= t /\ (\A i \in 1 .. Len(p) : p[i] # r) =>
                Len(p) = limit /\ \A i \in 1 .. Len(p) : Less(p[i], r)
<1> DEFINE due == {r \in rows : r.at <= t}
           n == Cardinality(due)
           Rank(r) == Cardinality(Before(due, r))
           m == IF n < limit THEN n ELSE limit
           p == DueRows(rows, t, limit)
<1>1. due \in SUBSET rows
  OBVIOUS
<1>2. IsFiniteSet(due) /\ OnePerKey(due) /\ \A r \in due : r.at \in Nat /\ r.key \in Nat
  BY <1>1, FS_Subset DEF OnePerKey
<1>3. p = [i \in 1 .. m |-> CHOOSE r \in due : Rank(r) = i - 1]
  BY DEF DueRows
<1>4. \A r \in due : r \in rows /\ r.at <= t
  OBVIOUS
<1>5. \A r \in rows : r.at <= t => r \in due
  OBVIOUS
<1> HIDE DEF due, p
<1>6. /\ n \in Nat
      /\ \A r \in due : Rank(r) \in 0 .. n - 1
      /\ \A q, r \in due : Less(q, r) <=> Rank(q) < Rank(r)
      /\ \A i \in 1 .. n : \E r \in due : Rank(r) = i - 1
  BY <1>2, PlacesTaken
<1> HIDE DEF n, Rank
<1>7. m \in Nat /\ m <= limit /\ m <= n /\ (m = limit \/ m = n)
  BY <1>6
<1> HIDE DEF m
<1>8. ASSUME NEW i \in 1 .. m PROVE p[i] \in due /\ Rank(p[i]) = i - 1
  <2>1. \E r \in due : Rank(r) = i - 1
    BY <1>6, <1>7
  <2>2. p[i] = CHOOSE r \in due : Rank(r) = i - 1
    BY <1>3
  <2> QED BY <2>1, <2>2
<1>9. p \in Seq(rows) /\ Len(p) = m
  <2>1. p \in [1 .. m -> rows]
    BY <1>3, <1>4, <1>8
  <2> QED BY <1>7, <2>1
<1>10. \A i \in 1 .. m : p[i].at <= t
  BY <1>4, <1>8
<1>11. \A i, j \in 1 .. m : i < j => Less(p[i], p[j])
  <2> SUFFICES ASSUME NEW i \in 1 .. m, NEW j \in 1 .. m, i < j PROVE Less(p[i], p[j])
    OBVIOUS
  <2>1. Rank(p[i]) < Rank(p[j])
    BY <1>7, <1>8
  <2> QED BY <1>6, <1>8, <2>1
<1>12. ASSUME NEW r \in rows, r.at <= t, \A i \in 1 .. m : p[i] # r
       PROVE  m = limit /\ \A i \in 1 .. m : Less(p[i], r)
  <2>1. r \in due /\ Rank(r) \in 0 .. n - 1
    BY <1>5, <1>6, <1>12
  <2>2. Rank(r) >= m
    <3> SUFFICES ASSUME Rank(r) < m PROVE FALSE
      BY <1>6, <1>7, <2>1
    <3>1. Rank(r) + 1 \in 1 .. m /\ (Rank(r) + 1) - 1 = Rank(r)
      BY <1>7, <2>1
    <3>2. p[Rank(r) + 1] \in due /\ Rank(p[Rank(r) + 1]) = Rank(r)
      BY <1>8, <3>1
    <3>3. ~Less(p[Rank(r) + 1], r) /\ ~Less(r, p[Rank(r) + 1])
      BY <1>6, <2>1, <3>2
    <3>4. p[Rank(r) + 1].key = r.key
      BY <1>2, <2>1, <3>2, <3>3, LessOrders
    <3> QED BY <1>2, <1>12, <2>1, <3>1, <3>2, <3>4 DEF OnePerKey
  <2>3. m = limit
    BY <1>6, <1>7, <2>1, <2>2
  <2>4. ASSUME NEW i \in 1 .. m PROVE Less(p[i], r)
    <3>1. p[i] \in due /\ Rank(p[i]) < Rank(r)
      BY <1>7, <1>8, <2>1, <2>2
    <3> QED BY <1>6, <2>1, <3>1
  <2> QED BY <2>3, <2>4
<1> QED BY <1>7, <1>9, <1>10, <1>11, <1>12 DEF p

-------------------------------------------------------------------------------
\* The delays.

LEMMA PowerIsNatural == \A n \in Nat : 2 ^ n \in Nat
<1> TAKE n \in Nat
<1>1. IsFiniteSet(1 .. n) /\ Cardinality(1 .. n) = n
  BY FS_Interval
<1>2. IsFiniteSet(SUBSET (1 .. n)) /\ Cardinality(SUBSET (1 .. n)) = 2 ^ Cardinality(1 .. n)
  BY <1>1, FS_SUBSET
<1>3. Cardinality(SUBSET (1 .. n)) \in Nat
  BY <1>2, FS_CardinalityType
<1> QED BY <1>1, <1>2, <1>3

LEMMA WaitIsBounded ==
  ASSUME NEW f \in Nat, NEW d \in Wait(f)
  PROVE  d \in Nat /\ d <= LongestWait
<1> DEFINE b == Interval * 2 ^ f
           base == IF f > 0 /\ (IF f = 0 THEN Interval ELSE b) > MaxWait
                     THEN MaxWait ELSE (IF f = 0 THEN Interval ELSE b)
<1>1. /\ Interval \in Nat /\ MaxWait \in Nat /\ Jitter \in Nat
  BY TimersAssumption
<1>2. b \in Nat
  <2>1. 2 ^ f \in Nat
    BY PowerIsNatural
  <2> DEFINE q == 2 ^ f
  <2> HIDE DEF q
  <2>2. q \in Nat
    BY <2>1 DEF q
  <2>3. Interval * q \in Nat
    BY <1>1, <2>2
  <2> QED BY <2>3 DEF q
<1> HIDE DEF b
<1>3. Wait(f) = base .. base + Jitter
  BY DEF Wait, b
<1>4. base \in Nat /\ base <= IF MaxWait > Interval THEN MaxWait ELSE Interval
  BY <1>1, <1>2
<1> HIDE DEF base
<1> QED BY <1>1, <1>3, <1>4 DEF LongestWait

\* The end of a scan.
LEMMA ScanEnds ==
  ASSUME LoopWithin, NEW failed \in BOOLEAN, EndScan(failed)
  PROVE  LoopWithin' /\ loop'.at = "wait"
<1> DEFINE f == IF failed THEN (IF loop.failures < MaxFailures THEN loop.failures + 1 ELSE MaxFailures)
                ELSE 0
<1>1. f \in Nat
  BY TimersAssumption DEF LoopWithin, Loops
<1>2. PICK d \in Wait(f) :
        loop' = [at |-> "wait", page |-> <<>>, wait |-> d, failures |-> f]
  BY DEF EndScan
<1> HIDE DEF f
<1>3. d \in Nat /\ d <= LongestWait
  BY <1>1, WaitIsBounded
<1>4. loop' \in Loops /\ loop'.at = "wait" /\ loop'.page = <<>> /\ loop'.wait = d
  BY <1>1, <1>2, <1>3 DEF Loops, Places
<1>5. Len(<<>>) <= Batch
  BY TimersAssumption
<1> QED BY <1>3, <1>4, <1>5 DEF LoopWithin

\* The next record of the page, or the end of the scan.
LEMMA RecordEnds ==
  ASSUME LoopWithin, loop.at \in {"calling", "delete"}, NextRecord
  PROVE  LoopWithin' /\ loop'.at \in {"wait", "dispatch"}
<1>1. CASE Len(loop.page) > 1
  <2> DEFINE t == Tail(loop.page)
  <2>1. loop.page \in Seq(Entries) /\ loop.page # <<>> /\ Len(loop.page) <= Batch
    BY DEF LoopWithin, Loops
  <2>2. t \in Seq(Entries) /\ Len(t) = Len(loop.page) - 1
    BY <2>1, HeadTailProperties
  <2>3. t # <<>> /\ Len(t) <= Batch
    <3>1. Len(loop.page) \in Nat /\ Batch \in Nat
      BY <2>1, TimersAssumption
    <3>2. Len(t) >= 1 /\ Len(t) <= Batch
      BY <1>1, <2>1, <2>2, <3>1
    <3> HIDE DEF t
    <3> QED BY <3>2
  <2>4. loop' = [loop EXCEPT !.at = "dispatch", !.page = t]
    BY <1>1 DEF NextRecord
  <2> HIDE DEF t
  <2>5. loop' \in Loops /\ loop'.at = "dispatch" /\ loop'.page = t /\ loop'.wait = loop.wait
    BY <2>2, <2>4 DEF LoopWithin, Loops, Places
  <2> QED BY <2>3, <2>5 DEF LoopWithin
<1>2. CASE ~(Len(loop.page) > 1)
  BY <1>2, ScanEnds DEF NextRecord
<1> QED BY <1>1, <1>2

-------------------------------------------------------------------------------
\* The index.

LEMMA RemoveEntry ==
  ASSUME IndexSound, NEW k
  PROVE  /\ Without(k) \subseteq Entries /\ IsFiniteSet(Without(k)) /\ OnePerKey(Without(k))
         /\ \A e \in index : e.key # k => e \in Without(k)
         /\ \A e \in Without(k) : e \in index /\ e.key # k
<1>1. Without(k) \in SUBSET index
  BY DEF Without
<1>2. IsFiniteSet(Without(k))
  BY <1>1, FS_Subset DEF IndexSound
<1> QED BY <1>1, <1>2 DEF IndexSound, OnePerKey, Without

\* Rewriting entries without changing their keys.
LEMMA RewriteEntries ==
  ASSUME IndexSound, NEW f \in [index -> Entries],
         \A e \in index : f[e].key = e.key, index' = {f[e] : e \in index}
  PROVE  IndexSound'
<1>1. f \in Surjection(index, index')
  BY DEF Surjection
<1>2. IsFiniteSet(index')
  BY <1>1, FS_Surjection DEF IndexSound
<1>3. OnePerKey(index')
  BY DEF IndexSound, OnePerKey
<1> QED BY <1>2, <1>3 DEF IndexSound

LEMMA InitInv == Init => Inv
<1> SUFFICES ASSUME Init PROVE Inv
  OBVIOUS
<1>1. index = {} /\ now = 0 /\ loop = Idle /\ stop = FALSE /\ hard = FALSE /\ caller = "none"
  BY DEF Init
<1>2. Idle \in Loops /\ Idle.page = <<>> /\ Idle.at = "new" /\ Idle.wait = 0
  BY DEF Idle, Loops, Places
<1>3. IndexSound
  BY <1>1, FS_EmptySet DEF IndexSound, OnePerKey
<1>4. Len(<<>>) <= Batch /\ 0 <= LongestWait
  BY TimersAssumption DEF LongestWait
<1>5. LoopWithin
  BY <1>1, <1>2, <1>4 DEF LoopWithin
<1>6. Others
  <2>1. 0 \in Times
    BY TimersAssumption DEF Times
  <2> QED BY <1>1, <2>1 DEF Others
<1>7. StopDrains /\ InHandIsServed
  BY <1>1, <1>2 DEF StopDrains, InHandIsServed
<1> HIDE DEF Init
<1> QED BY <1>3, <1>5, <1>6, <1>7 DEF Inv

LEMMA IdleFields ==
  Idle \in Loops /\ Idle.page = <<>> /\ Idle.at = "new" /\ Idle.wait = 0
BY DEF Idle, Loops, Places

\* A loop that is new again, or done.
LEMMA IdleWithin ==
  ASSUME NEW a \in {"new", "wait", "done"}, NEW d \in Nat, d <= LongestWait,
         loop' = [Idle EXCEPT !.at = a, !.wait = d]
  PROVE  LoopWithin' /\ loop'.at = a
<1>1. loop' \in Loops /\ loop'.page = <<>> /\ loop'.at = a /\ loop'.wait = d
  BY IdleFields DEF Loops, Places
<1>2. Len(<<>>) <= Batch
  BY TimersAssumption
<1> QED BY <1>1, <1>2 DEF LoopWithin

\* A step that moves the loop and leaves the index alone, and ends anywhere but in front
\* of a delete.
LEMMA LoopMoves ==
  ASSUME Inv, LoopWithin', loop'.at # "delete", loop.at # "done",
         UNCHANGED <<index, now, stop, hard, caller>>
  PROVE  Inv'
<1>1. IndexSound' /\ Others'
  BY DEF Inv, IndexSound, Others
<1>2. StopDrains' /\ InHandIsServed'
  BY DEF Inv, StopDrains, InHandIsServed
<1> QED BY <1>1, <1>2 DEF Inv

LEMMA LoopStepKeepsInv ==
  ASSUME Inv, LoopStep
  PROVE  Inv'
<1>0. IndexSound /\ LoopWithin /\ Others /\ StopDrains /\ InHandIsServed
  BY DEF Inv
<1>a. /\ loop \in Loops /\ loop.page \in Seq(Entries) /\ loop.wait \in Nat /\ Len(loop.page) <= Batch
      /\ (loop.page = <<>> <=> loop.at \in {"new", "wait", "done"})
      /\ loop.wait <= LongestWait
  BY <1>0 DEF LoopWithin, Loops
<1>1. CASE Start
  <2>1. PICK d \in Wait(0) : loop' = [Idle EXCEPT !.at = "wait", !.wait = d]
    BY <1>1 DEF Start
  <2>2. d \in Nat /\ d <= LongestWait
    BY WaitIsBounded
  <2>3. LoopWithin' /\ loop'.at = "wait"
    BY <2>1, <2>2, IdleWithin
  <2>4. loop.at # "done" /\ UNCHANGED <<index, now, stop, hard, caller>>
    BY <1>1 DEF Start
  <2> QED BY <2>3, <2>4, LoopMoves
<1>2. CASE LoopEnds
  <2>1. loop' = [Idle EXCEPT !.at = "done", !.wait = 0]
    <3>1. loop' = [Idle EXCEPT !.at = "done"]
      BY <1>2 DEF LoopEnds
    <3> QED BY <3>1, IdleFields DEF Loops
  <2>2. 0 \in Nat /\ 0 <= LongestWait
    BY TimersAssumption DEF LongestWait
  <2>3. LoopWithin' /\ loop'.at = "done"
    BY <2>1, <2>2, IdleWithin
  <2>4. loop.at # "done" /\ UNCHANGED <<index, now, stop, hard, caller>>
    BY <1>2 DEF LoopEnds
  <2> QED BY <2>3, <2>4, LoopMoves
<1>3. CASE ReadPage
  <2> DEFINE p == DueRows(index, now, Batch)
             f == [e \in index |-> [e EXCEPT !.raced = FALSE]]
  <2>1. /\ loop.at = "wait" /\ UNCHANGED <<now, stop, hard, caller>>
        /\ index' = {[e EXCEPT !.raced = FALSE] : e \in index}
        /\ IF p = <<>> THEN EndScan(FALSE)
           ELSE loop' = [loop EXCEPT !.at = "dispatch", !.page = p]
    BY <1>3 DEF ReadPage
  <2>2. /\ f \in [index -> Entries] /\ \A e \in index : f[e].key = e.key
        /\ index' = {f[e] : e \in index}
    BY ZenonT(60), <1>0, <2>1 DEF IndexSound, Entries
  <2>3. IndexSound'
    <3> HIDE DEF f
    <3> QED BY <1>0, <2>2, RewriteEntries
  <2>4. p \in Seq(Entries) /\ Len(p) <= Batch
    <3>1. /\ IsFiniteSet(index) /\ OnePerKey(index) /\ now \in Nat /\ Batch \in Nat
          /\ \A r \in index : r.at \in Nat /\ r.key \in Nat
      <4>1. Keys \subseteq Nat /\ MaxTime \in Nat /\ Batch \in Nat
        BY TimersAssumption
      <4>2. IsFiniteSet(index) /\ OnePerKey(index) /\ index \subseteq Entries
        BY <1>0 DEF IndexSound
      <4>3. \A r \in index : r.at \in Times /\ r.key \in Keys
        BY <4>2 DEF Entries
      <4>4. now \in Times
        BY <1>0 DEF Others
      <4>5. Times \subseteq Nat
        BY <4>1 DEF Times
      <4> QED BY <4>1, <4>2, <4>3, <4>4, <4>5
    <3>2. p \in Seq(index) /\ Len(p) <= Batch
      BY <3>1, PageIsEarliest
    <3>3. index \subseteq Entries
      BY <1>0 DEF IndexSound
    <3> HIDE DEF p
    <3> QED BY <3>2, <3>3, SeqMonotonic
  <2> HIDE DEF p
  <2>5. LoopWithin' /\ loop'.at \in {"wait", "dispatch"}
    <3>1. CASE p = <<>>
      BY <1>0, <2>1, <3>1, ScanEnds
    <3>2. CASE p # <<>>
      <4>1. loop' = [loop EXCEPT !.at = "dispatch", !.page = p]
        BY <2>1, <3>2
      <4>2. loop' \in Loops /\ loop'.at = "dispatch" /\ loop'.page = p /\ loop'.wait = loop.wait
        BY <1>a, <2>4, <4>1 DEF Loops, Places
      <4> QED BY <1>a, <2>4, <3>2, <4>2 DEF LoopWithin
    <3> QED BY <3>1, <3>2
  <2>6. Others' /\ StopDrains' /\ InHandIsServed'
    BY <1>0, <2>1, <2>5 DEF Others, StopDrains, InHandIsServed
  <2> QED BY <2>3, <2>5, <2>6 DEF Inv
<1>4. CASE ReadPageFails
  <2>1. loop.at # "done" /\ EndScan(TRUE) /\ UNCHANGED <<index, now, stop, hard, caller>>
    BY <1>4 DEF ReadPageFails
  <2>2. LoopWithin' /\ loop'.at = "wait"
    BY <1>0, <2>1, ScanEnds
  <2> QED BY <2>1, <2>2, LoopMoves
<1>5. CASE Abandon
  <2>1. loop.at # "done" /\ EndScan(TRUE) /\ UNCHANGED <<index, now, stop, hard, caller>>
    BY <1>5 DEF Abandon
  <2>2. LoopWithin' /\ loop'.at = "wait"
    BY <1>0, <2>1, ScanEnds
  <2> QED BY <2>1, <2>2, LoopMoves
<1>6. CASE Dispatch
  <2>1. loop.at = "dispatch" /\ loop' = [loop EXCEPT !.at = "calling"]
        /\ UNCHANGED <<index, now, stop, hard, caller>>
    BY <1>6 DEF Dispatch
  <2>2. loop' \in Loops /\ loop'.at = "calling" /\ loop'.page = loop.page /\ loop'.wait = loop.wait
    BY <1>a, <2>1 DEF Loops, Places
  <2>3. LoopWithin'
    BY <1>a, <2>1, <2>2 DEF LoopWithin
  <2> QED BY <2>1, <2>2, <2>3, LoopMoves
<1>7. ASSUME NEW k \in Keys, Absorb(k) PROVE Inv'
  <2> DEFINE f == [e \in index |-> [e EXCEPT !.seen = @ \/ (e.key = k /\ ~e.raced)]]
  <2>1. /\ loop.at = "calling" /\ k = Head(loop.page).key
        /\ loop' = [loop EXCEPT !.at = "delete"]
        /\ index' = {[e EXCEPT !.seen = @ \/ (e.key = k /\ ~e.raced)] : e \in index}
        /\ UNCHANGED <<now, stop, hard, caller>>
    BY <1>7 DEF Absorb
  <2>2. ASSUME NEW e \in index
        PROVE  f[e] \in Entries /\ f[e].key = e.key /\ (e.key = k => f[e].seen \/ f[e].raced)
    <3>1. e \in Entries
      BY <1>0 DEF IndexSound
    <3>2. e.seen \in BOOLEAN /\ e.raced \in BOOLEAN
      BY <3>1 DEF Entries
    <3>3. (e.seen \/ (e.key = k /\ ~e.raced)) \in BOOLEAN
      BY Zenon
    <3> DEFINE b == e.seen \/ (e.key = k /\ ~e.raced)
    <3>4. f[e] = [e EXCEPT !.seen = b] /\ b \in BOOLEAN
      BY <3>3
    <3>5. e.key = k => b \/ e.raced
      BY <3>2
    <3> HIDE DEF b, f
    <3>6. /\ f[e] \in Entries /\ f[e].key = e.key /\ f[e].seen = b /\ f[e].raced = e.raced
      BY <3>1, <3>4 DEF Entries
    <3> QED BY <3>5, <3>6
  <2>3. f \in [index -> Entries] /\ index' = {f[e] : e \in index}
    BY <2>1, <2>2
  <2> HIDE DEF f
  <2>4. IndexSound'
    BY <1>0, <2>2, <2>3, RewriteEntries
  <2>5. loop' \in Loops /\ loop'.at = "delete" /\ loop'.page = loop.page /\ loop'.wait = loop.wait
    BY <1>a, <2>1 DEF Loops, Places
  <2>6. LoopWithin'
    BY <1>a, <2>1, <2>5 DEF LoopWithin
  <2>7. InHandIsServed'
    BY <2>1, <2>2, <2>3, <2>5 DEF InHandIsServed
  <2>8. Others' /\ StopDrains'
    BY <1>0, <2>1 DEF Others, StopDrains
  <2> QED BY <2>4, <2>6, <2>7, <2>8 DEF Inv
<1>8. ASSUME NEW k \in Keys, DeleteEntry(k) PROVE Inv'
  <2>1. /\ loop.at = "delete" /\ index' = Without(k) /\ NextRecord
        /\ UNCHANGED <<now, stop, hard, caller>>
    BY <1>8 DEF DeleteEntry
  <2>2. IndexSound'
    <3>1. Without(k) \subseteq Entries /\ IsFiniteSet(Without(k)) /\ OnePerKey(Without(k))
      BY <1>0, RemoveEntry
    <3> QED BY <2>1, <3>1 DEF IndexSound
  <2>3. LoopWithin' /\ loop'.at \in {"wait", "dispatch"}
    BY <1>0, <2>1, RecordEnds
  <2>4. Others' /\ StopDrains' /\ InHandIsServed'
    BY <1>0, <2>1, <2>3 DEF Others, StopDrains, InHandIsServed
  <2> QED BY <2>2, <2>3, <2>4 DEF Inv
<1>9. CASE Refused
  <2>1. loop.at = "calling" /\ NextRecord /\ UNCHANGED <<index, now, stop, hard, caller>>
    BY <1>9 DEF Refused
  <2>2. LoopWithin' /\ loop'.at \in {"wait", "dispatch"}
    BY <1>0, <2>1, RecordEnds
  <2> QED BY <2>1, <2>2, LoopMoves
<1>10. CASE DeleteFails
  <2>1. loop.at = "delete" /\ NextRecord /\ UNCHANGED <<index, now, stop, hard, caller>>
    BY <1>10 DEF DeleteFails
  <2>2. LoopWithin' /\ loop'.at \in {"wait", "dispatch"}
    BY <1>0, <2>1, RecordEnds
  <2> QED BY <2>1, <2>2, LoopMoves
<1> QED BY <1>1, <1>2, <1>3, <1>4, <1>5, <1>6, <1>7, <1>8, <1>9, <1>10 DEF LoopStep

LEMMA NextInv == Inv /\ [Next]_vars => Inv'
<1> SUFFICES ASSUME Inv, [Next]_vars PROVE Inv'
  OBVIOUS
<1>0. IndexSound /\ LoopWithin /\ Others /\ StopDrains /\ InHandIsServed
  BY DEF Inv
<1>a. /\ loop \in Loops /\ loop.page \in Seq(Entries) /\ loop.wait \in Nat /\ Len(loop.page) <= Batch
      /\ (loop.page = <<>> <=> loop.at \in {"new", "wait", "done"})
      /\ loop.wait <= LongestWait
  BY <1>0 DEF LoopWithin, Loops
<1>b. 0 \in Nat /\ 0 <= LongestWait /\ LongestWait \in Nat
  BY TimersAssumption DEF LongestWait
<1>1. CASE LoopStep
  BY <1>1, LoopStepKeepsInv
<1>2. CASE StopBegins
  <2>1. /\ caller = "none" /\ caller' = "waiting" /\ stop' = TRUE
        /\ loop' = (IF loop.at = "new" THEN [Idle EXCEPT !.at = "done"] ELSE loop)
        /\ UNCHANGED <<index, now, hard>>
    BY <1>2 DEF StopBegins
  <2>2. LoopWithin' /\ (loop'.at = "done" \/ loop' = loop)
    <3>1. CASE loop.at = "new"
      <4>1. loop' = [Idle EXCEPT !.at = "done", !.wait = 0]
        BY <2>1, <3>1, IdleFields DEF Loops
      <4> QED BY <1>b, <4>1, IdleWithin
    <3>2. CASE loop.at # "new"
      <4>1. loop' = loop
        BY <2>1, <3>2
      <4> QED BY <1>0, <4>1 DEF LoopWithin
    <3> QED BY <3>1, <3>2
  <2>3. IndexSound' /\ Others' /\ StopDrains' /\ InHandIsServed'
    BY <1>0, <2>1, <2>2 DEF IndexSound, Others, StopDrains, InHandIsServed
  <2> QED BY <2>2, <2>3 DEF Inv
<1>3. CASE StopExpires
  BY <1>0, <1>3 DEF StopExpires, Inv, IndexSound, LoopWithin, Others, StopDrains, InHandIsServed
<1>4. CASE StopReturns
  <2>1. /\ loop.at = "done" /\ caller' \in {"stopped", "expired"}
        /\ UNCHANGED <<index, now, loop, stop, hard>>
    BY <1>4 DEF StopReturns
  <2> QED BY <1>0, <2>1 DEF Inv, IndexSound, LoopWithin, Others, StopDrains, InHandIsServed
<1>5. ASSUME NEW k \in Keys, Disarm(k) PROVE Inv'
  <2>1. index' = Without(k) /\ UNCHANGED <<now, loop, stop, hard, caller>>
    BY <1>5 DEF Disarm
  <2>2. /\ Without(k) \subseteq Entries /\ IsFiniteSet(Without(k)) /\ OnePerKey(Without(k))
        /\ \A e \in Without(k) : e \in index
    BY <1>0, RemoveEntry
  <2>3. IndexSound' /\ InHandIsServed'
    BY <1>0, <2>1, <2>2 DEF IndexSound, InHandIsServed
  <2>4. LoopWithin' /\ Others' /\ StopDrains'
    BY <1>0, <2>1 DEF LoopWithin, Others, StopDrains
  <2> QED BY <2>3, <2>4 DEF Inv
<1>6. ASSUME NEW k \in Keys, NEW at \in Times, Arm(k, at) PROVE Inv'
  <2> DEFINE e == [key |-> k, at |-> at, seen |-> FALSE, raced |-> Busy(k)]
             R == Without(k)
  <2>1. index' = R \cup {e} /\ UNCHANGED <<now, loop, stop, hard, caller>>
    BY <1>6 DEF Arm
  <2>2. /\ R \subseteq Entries /\ IsFiniteSet(R) /\ OnePerKey(R)
        /\ \A g \in R : g \in index /\ g.key # k
    BY <1>0, RemoveEntry
  <2>3. Busy(k) \in BOOLEAN
    BY DEF Busy
  <2>4. e \in Entries /\ e.key = k /\ e.raced = Busy(k)
    BY <2>3 DEF Entries
  <2> HIDE DEF e, R
  <2>5. IndexSound'
    <3>1. IsFiniteSet(index')
      BY <2>1, <2>2, FS_AddElement
    <3>2. OnePerKey(index') /\ index' \subseteq Entries
      BY <2>1, <2>2, <2>4 DEF OnePerKey
    <3> QED BY <3>1, <3>2 DEF IndexSound
  <2>6. InHandIsServed'
    <3>1. loop.at = "delete" /\ Head(loop.page).key = k => Busy(k)
      <4> SUFFICES ASSUME loop.at = "delete", Head(loop.page).key = k PROVE Busy(k)
        OBVIOUS
      <4>1. loop.page # <<>>
        BY <1>a
      <4>2. 1 \in DOMAIN loop.page /\ Head(loop.page) = loop.page[1]
        BY <1>a, <4>1
      <4> QED BY <4>2 DEF Busy
    <3>2. loop.at = "delete" /\ Head(loop.page).key = k => e.raced
      BY <2>4, <3>1
    <3> QED BY <1>0, <2>1, <2>2, <2>4, <3>2 DEF InHandIsServed
  <2>7. LoopWithin' /\ Others' /\ StopDrains'
    BY <1>0, <2>1 DEF LoopWithin, Others, StopDrains
  <2> QED BY <2>5, <2>6, <2>7 DEF Inv
<1>7. CASE Tick
  <2>1. /\ now' = (IF now < MaxTime THEN now + 1 ELSE now)
        /\ loop' = (IF loop.wait > 0 THEN [loop EXCEPT !.wait = @ - 1] ELSE loop)
        /\ UNCHANGED <<index, stop, hard, caller>>
    BY <1>7 DEF Tick
  <2>2. now' \in Times
    <3>1. now \in Times /\ MaxTime \in Nat
      BY <1>0, TimersAssumption DEF Others
    <3> QED BY <2>1, <3>1 DEF Times
  <2>3. loop' \in Loops /\ loop'.at = loop.at /\ loop'.page = loop.page /\ loop'.wait <= LongestWait
    <3>1. CASE loop.wait > 0
      <4>1. loop.wait - 1 \in Nat /\ loop.wait - 1 <= LongestWait
        BY <1>a, <1>b, <3>1
      <4>2. loop' = [loop EXCEPT !.wait = loop.wait - 1]
        BY <2>1, <3>1
      <4> QED BY <1>a, <4>1, <4>2 DEF Loops
    <3>2. CASE ~(loop.wait > 0)
      BY <1>a, <2>1, <3>2
    <3> QED BY <3>1, <3>2
  <2>4. LoopWithin'
    BY <1>a, <2>3 DEF LoopWithin
  <2>5. IndexSound' /\ Others' /\ StopDrains' /\ InHandIsServed'
    BY <1>0, <2>1, <2>2, <2>3 DEF IndexSound, Others, StopDrains, InHandIsServed
  <2> QED BY <2>4, <2>5 DEF Inv
<1>8. CASE Crash
  <2>1. loop' = Idle /\ stop' = FALSE /\ hard' = FALSE /\ caller' = "none" /\ UNCHANGED <<index, now>>
    BY <1>8 DEF Crash
  <2>2. LoopWithin' /\ loop'.at = "new"
    <3>1. Len(<<>>) <= Batch
      BY TimersAssumption
    <3> QED BY <1>b, <2>1, <3>1, IdleFields DEF LoopWithin
  <2>3. IndexSound' /\ Others' /\ StopDrains' /\ InHandIsServed'
    BY <1>0, <2>1, <2>2 DEF IndexSound, Others, StopDrains, InHandIsServed
  <2> QED BY <2>2, <2>3 DEF Inv
<1>9. CASE UNCHANGED vars
  BY <1>0, <1>9 DEF vars, Inv, IndexSound, LoopWithin, Others, StopDrains, InHandIsServed
<1> QED BY <1>1, <1>2, <1>3, <1>4, <1>5, <1>6, <1>7, <1>8, <1>9 DEF Next

LEMMA InvHolds == Spec => []Inv
BY InitInv, NextInv, PTL DEF Spec

\* The loop never holds more than a page, never waits longer than its longest backoff
\* and jitter however many scans have failed, and is gone when Stop has returned, on
\* either path (loop, wait, Stop).
THEOREM LoopIsSound == Spec => []LoopSound
<1>1. Inv => LoopSound
  BY DEF Inv, IndexSound, LoopWithin, Loops, Places, Others, LongestWait, Entries, LoopSound, TypeOK
<1> QED BY <1>1, InvHolds, PTL

\* The loop removes an entry only when the callback has been given it, or when the engine
\* armed it while the loop had an older one of its key in hand: no crash, failure, stop
\* or interleaved write loses a timer (scan).
THEOREM ServedBeforeRemoved == Spec => OnlyServedAreRemoved
<1> DEFINE Served == \A e \in index :
             (loop' # loop /\ ~\E f \in index' : f.key = e.key) => e.seen \/ e.raced
<1>1. Inv /\ [Next]_vars => [Served]_vars
  <2> SUFFICES ASSUME Inv, Next, NEW e \in index, loop' # loop, ~\E f \in index' : f.key = e.key
               PROVE  e.seen \/ e.raced
    OBVIOUS
  <2>1. index' # index
    OBVIOUS
  <2>2. e \in Entries
    BY DEF Inv, IndexSound
  <2>3. CASE ReadPage
    <3>1. [e EXCEPT !.raced = FALSE] \in index' /\ [e EXCEPT !.raced = FALSE].key = e.key
      BY <2>2, <2>3 DEF ReadPage, Entries
    <3> QED BY <3>1
  <2>4. ASSUME NEW k \in Keys, Absorb(k) PROVE FALSE
    <3> DEFINE g == [e EXCEPT !.seen = @ \/ (e.key = k /\ ~e.raced)]
    <3>1. g \in index' /\ g.key = e.key
      BY <2>2, <2>4 DEF Absorb, Entries
    <3> QED BY <3>1
  <2>5. ASSUME NEW k \in Keys, DeleteEntry(k) PROVE e.seen \/ e.raced
    <3>1. loop.at = "delete" /\ k = Head(loop.page).key /\ index' = Without(k)
      BY <2>5 DEF DeleteEntry
    <3>2. e.key = k
      BY <3>1 DEF Without
    <3> QED BY <3>1, <3>2 DEF Inv, InHandIsServed
  <2>6. CASE LoopStep
    BY <2>1, <2>3, <2>4, <2>5, <2>6
       DEF LoopStep, Start, LoopEnds, ReadPageFails, Abandon, Dispatch, Refused, DeleteFails
  <2>7. ~(StopBegins \/ StopExpires \/ StopReturns \/ Tick \/ Crash)
    BY <2>1 DEF StopBegins, StopExpires, StopReturns, Tick, Crash
  <2>8. ~\E k \in Keys : Disarm(k) \/ \E at \in Times : Arm(k, at)
    BY DEF Disarm, Arm
  <2> QED BY <2>6, <2>7, <2>8 DEF Next
<1> QED BY <1>1, InvHolds, PTL DEF Spec, OnlyServedAreRemoved

-------------------------------------------------------------------------------
\* Induction and order.

\* A set of naturals that has 0 and every successor has them all, since its members
\* below a missing one could be mapped one to one to those above 0.
LEMMA Induction ==
  ASSUME NEW S \in SUBSET Nat, 0 \in S, \A n \in S : n + 1 \in S
  PROVE  S = Nat
<1> SUFFICES ASSUME NEW n \in Nat, n \notin S PROVE FALSE
  OBVIOUS
<1> DEFINE T == {i \in S : i < n}
           f == [i \in T |-> i + 1]
<1>1. IsFiniteSet(T)
  <2>1. IsFiniteSet(0 .. n)
    BY FS_Interval
  <2>2. \A i \in T : i \in 0 .. n
    OBVIOUS
  <2> HIDE DEF T
  <2> QED BY <2>1, <2>2, FS_Subset
<1>2. 0 \in T
  OBVIOUS
<1>3. IsFiniteSet(T \ {0}) /\ Cardinality(T \ {0}) = Cardinality(T) - 1 /\ Cardinality(T) \in Nat
  BY <1>1, <1>2, FS_RemoveElement, FS_CardinalityType
<1>4. f \in Injection(T, T \ {0})
  <2>1. \A i \in T : i + 1 \in T \ {0}
    OBVIOUS
  <2>2. f \in [T -> T \ {0}]
    BY <2>1
  <2>3. \A a, b \in T : f[a] = f[b] => a = b
    OBVIOUS
  <2> QED BY <2>2, <2>3 DEF Injection, IsInjective
<1> HIDE DEF T, f
<1>5. Cardinality(T) <= Cardinality(T \ {0})
  BY <1>1, <1>3, <1>4, FS_Injection
<1> QED BY <1>3, <1>5

\* B, a set of pairs of members of S, is a strict total order.
Orders(B, S) ==
  /\ \A a \in S : <<a, a>> \notin B
  /\ \A a, b, c \in S : <<a, b>> \in B /\ <<b, c>> \in B => <<a, c>> \in B
  /\ \A a, b \in S : a # b => <<a, b>> \in B \/ <<b, a>> \in B

Ahead(B, S, r) == {q \in S : <<q, r>> \in B}

\* In a finite set the number of members before one is its place, and every place below
\* the number of members is taken.
LEMMA RanksTaken ==
  ASSUME NEW S, IsFiniteSet(S), NEW B, Orders(B, S)
  PROVE  /\ Cardinality(S) \in Nat
         /\ \A r \in S : Cardinality(Ahead(B, S, r)) \in 0 .. Cardinality(S) - 1
         /\ \A q, r \in S :
              <<q, r>> \in B <=> Cardinality(Ahead(B, S, q)) < Cardinality(Ahead(B, S, r))
         /\ \A i \in 1 .. Cardinality(S) : \E r \in S : Cardinality(Ahead(B, S, r)) = i - 1
<1> DEFINE n == Cardinality(S)
           Rank(r) == Cardinality(Ahead(B, S, r))
<1>1. n \in Nat
  BY FS_CardinalityType
<1>2. ASSUME NEW r \in S
      PROVE  IsFiniteSet(Ahead(B, S, r)) /\ Rank(r) \in Nat /\ Rank(r) \in 0 .. n - 1
  <2>1. Ahead(B, S, r) \in SUBSET (S \ {r})
    BY DEF Ahead, Orders
  <2>2. IsFiniteSet(S \ {r}) /\ Cardinality(S \ {r}) = n - 1
    BY FS_RemoveElement
  <2>3. IsFiniteSet(Ahead(B, S, r)) /\ Rank(r) <= n - 1
    BY <2>1, <2>2, FS_Subset
  <2>4. Rank(r) \in Nat
    BY <2>3, FS_CardinalityType
  <2> QED BY <1>1, <2>3, <2>4
<1>3. ASSUME NEW q \in S, NEW r \in S, <<q, r>> \in B
      PROVE  Rank(q) < Rank(r)
  <2>1. Ahead(B, S, q) \in SUBSET Ahead(B, S, r)
    BY <1>3 DEF Ahead, Orders
  <2>2. q \in Ahead(B, S, r) /\ q \notin Ahead(B, S, q)
    BY <1>3 DEF Ahead, Orders
  <2>3. Rank(q) <= Rank(r) /\ (Rank(r) = Rank(q) => Ahead(B, S, r) = Ahead(B, S, q))
    BY <1>2, <2>1, FS_Subset
  <2> QED BY <1>2, <2>2, <2>3
<1> HIDE DEF Rank
<1>4. ASSUME NEW q \in S, NEW r \in S, Rank(q) < Rank(r)
      PROVE  <<q, r>> \in B
  <2>1. q # r
    BY <1>2, <1>4
  <2>2. <<r, q>> \notin B
    BY <1>2, <1>3, <1>4
  <2> QED BY <2>1, <2>2 DEF Orders
<1>5. ASSUME NEW q \in S, NEW r \in S, Rank(q) = Rank(r)
      PROVE  q = r
  <2>1. <<q, r>> \notin B /\ <<r, q>> \notin B
    BY <1>2, <1>3, <1>5
  <2> QED BY <2>1 DEF Orders
<1>6. \A i \in 1 .. n : \E r \in S : Rank(r) = i - 1
  <2> DEFINE f == [r \in S |-> Rank(r)]
             T == 0 .. n - 1
  <2>1. f \in [S -> T]
    BY <1>2
  <2>2. f \in Injection(S, T)
    BY <1>5, <2>1 DEF Injection, IsInjective
  <2>3. IsFiniteSet(T) /\ Cardinality(T) = n
    BY <1>1, FS_Interval
  <2>4. f \in Surjection(S, T)
    BY <2>2, <2>3, FS_Injection
  <2>5. \A t \in T : \E r \in S : f[r] = t
    BY <2>4 DEF Surjection
  <2> QED BY <1>1, <2>5
<1> QED BY <1>1, <1>2, <1>3, <1>4, <1>6 DEF Rank

\* Every member of S in the place of its rank.
Ranked(B, S) ==
  [i \in 1 .. Cardinality(S) |-> CHOOSE r \in S : Cardinality(Ahead(B, S, r)) = i - 1]

\* s lists S in the order B.
Lists(s, B, S) ==
  /\ s \in Seq(S)
  /\ \A i, j \in 1 .. Len(s) : i < j => <<s[i], s[j]>> \in B
  /\ \A r \in S : \E i \in 1 .. Len(s) : s[i] = r

\* Placing every member by its rank lists the set.
LEMMA RanksList ==
  ASSUME NEW S, IsFiniteSet(S), NEW B, Orders(B, S)
  PROVE  Lists(Ranked(B, S), B, S) /\ Len(Ranked(B, S)) = Cardinality(S)
<1> DEFINE s == Ranked(B, S)
           n == Cardinality(S)
           Rank(r) == Cardinality(Ahead(B, S, r))
<1>1. /\ n \in Nat
      /\ \A r \in S : Rank(r) \in 0 .. n - 1
      /\ \A q, r \in S : <<q, r>> \in B <=> Rank(q) < Rank(r)
      /\ \A i \in 1 .. n : \E r \in S : Rank(r) = i - 1
  BY RanksTaken
<1>2. s = [i \in 1 .. n |-> CHOOSE r \in S : Rank(r) = i - 1]
  BY DEF Ranked
<1> HIDE DEF n, Rank, s
<1>3. ASSUME NEW i \in 1 .. n PROVE s[i] \in S /\ Rank(s[i]) = i - 1
  <2>1. s[i] = CHOOSE r \in S : Rank(r) = i - 1
    BY <1>2
  <2> QED BY <1>1, <2>1
<1>4. s \in Seq(S) /\ Len(s) = n
  <2>1. s \in [1 .. n -> S]
    BY <1>2, <1>3
  <2> QED BY <1>1, <2>1
<1>5. \A i, j \in 1 .. n : i < j => <<s[i], s[j]>> \in B
  BY <1>1, <1>3
<1>6. ASSUME NEW r \in S PROVE \E i \in 1 .. n : s[i] = r
  <2>1. Rank(r) + 1 \in 1 .. n /\ (Rank(r) + 1) - 1 = Rank(r)
    BY <1>1
  <2>2. s[Rank(r) + 1] \in S /\ Rank(s[Rank(r) + 1]) = Rank(r)
    BY <1>3, <2>1
  <2>3. s[Rank(r) + 1] = r
    BY ZenonT(60), <1>1, <2>2 DEF Orders
  <2> QED BY <2>1, <2>3
<1> QED BY <1>4, <1>5, <1>6 DEF Lists, n, s

\* There is only one way to list a set.
LEMMA ListIsRanks ==
  ASSUME NEW S, NEW B, Orders(B, S), NEW s, Lists(s, B, S)
  PROVE  /\ IsFiniteSet(S) /\ Cardinality(S) = Len(s)
         /\ s = Ranked(B, S)
<1> DEFINE n == Len(s)
           Rank(r) == Cardinality(Ahead(B, S, r))
<1>1. n \in Nat /\ s \in [1 .. n -> S] /\ DOMAIN s = 1 .. n
  BY DEF Lists
<1>2. \A i, j \in 1 .. n : i < j => <<s[i], s[j]>> \in B
  BY DEF Lists
<1>3. \A r \in S : \E i \in 1 .. n : s[i] = r
  BY DEF Lists
<1> HIDE DEF n
<1>4. \A i, j \in 1 .. n : i # j => s[i] # s[j]
  <2> SUFFICES ASSUME NEW i \in 1 .. n, NEW j \in 1 .. n, i < j PROVE s[i] # s[j]
    BY <1>1
  <2> QED BY <1>1, <1>2 DEF Orders
<1>5. \A i, j \in 1 .. n : <<s[i], s[j]>> \in B => i < j
  <2> SUFFICES ASSUME NEW i \in 1 .. n, NEW j \in 1 .. n, <<s[i], s[j]>> \in B PROVE i < j
    OBVIOUS
  <2>1. i # j
    BY <1>1 DEF Orders
  <2>2. ASSUME j < i PROVE FALSE
    <3>1. <<s[j], s[i]>> \in B
      BY <1>2, <2>2
    <3> QED BY <1>1, <3>1 DEF Orders
  <2> QED BY <1>1, <2>1, <2>2
<1>6. IsFiniteSet(S) /\ Cardinality(S) = n
  <2>1. s \in Bijection(1 .. n, S)
    BY <1>1, <1>3, <1>4 DEF Bijection, Injection, Surjection, IsInjective
  <2>2. ExistsBijection(1 .. n, S)
    BY <2>1 DEF ExistsBijection
  <2>3. IsFiniteSet(1 .. n) /\ Cardinality(1 .. n) = n
    BY <1>1, FS_Interval
  <2> QED BY <2>2, <2>3, FS_Bijection
<1>7. ASSUME NEW i \in 1 .. n PROVE Rank(s[i]) = i - 1
  <2> DEFINE t == [k \in 1 .. i - 1 |-> s[k]]
  <2>1. t \in [1 .. i - 1 -> Ahead(B, S, s[i])]
    BY <1>1, <1>2 DEF Ahead
  <2>2. \A q \in Ahead(B, S, s[i]) : \E k \in 1 .. i - 1 : t[k] = q
    <3> SUFFICES ASSUME NEW q \in S, <<q, s[i]>> \in B PROVE \E k \in 1 .. i - 1 : s[k] = q
      BY DEF Ahead
    <3>1. PICK k \in 1 .. n : s[k] = q
      BY <1>3
    <3>2. k < i
      BY <1>5, <3>1
    <3> QED BY <1>1, <3>1, <3>2
  <2>3. \A j, k \in 1 .. i - 1 : t[j] = t[k] => j = k
    BY <1>1, <1>4
  <2>4. t \in Bijection(1 .. i - 1, Ahead(B, S, s[i]))
    BY <2>1, <2>2, <2>3 DEF Bijection, Injection, Surjection, IsInjective
  <2>5. ExistsBijection(1 .. i - 1, Ahead(B, S, s[i]))
    BY <2>4 DEF ExistsBijection
  <2>6. i - 1 \in Nat
    BY <1>1
  <2> QED BY <2>5, <2>6, FS_CountingElements
<1>8. \A q, r \in S : Rank(q) = Rank(r) => q = r
  BY <1>6, RanksTaken DEF Orders
<1>9. ASSUME NEW i \in 1 .. n PROVE s[i] = CHOOSE r \in S : Rank(r) = i - 1
  <2>1. s[i] \in S /\ Rank(s[i]) = i - 1
    BY <1>1, <1>7
  <2>2. \A r \in S : Rank(r) = i - 1 => r = s[i]
    BY <1>8, <2>1
  <2> HIDE DEF Rank
  <2> QED BY <2>1, <2>2
<1>10. s = [i \in 1 .. n |-> CHOOSE r \in S : Rank(r) = i - 1]
  BY <1>1, <1>9
<1> QED BY <1>6, <1>10 DEF n, Ranked

-------------------------------------------------------------------------------
\* The orders of the rows.

RecencyOn(rows) == {p \in rows \X rows : Recency(p[1], p[2])}

\* Rows that differ have different runs.
OnePerRun(rows) ==
  /\ \A c \in rows : c.started \in Nat /\ c.run \in Nat
  /\ \A c, d \in rows : c.run = d.run => c = d

\* Rows of different runs are ordered by recency, whatever times they share (byRecency).
LEMMA RecencyOrders ==
  ASSUME NEW rows, OnePerRun(rows)
  PROVE  Orders(RecencyOn(rows), rows)
<1>1. \A a, b \in rows : <<a, b>> \in RecencyOn(rows) <=> Recency(a, b)
  BY DEF RecencyOn
<1>2. \A a \in rows : ~Recency(a, a)
  BY DEF Recency, OnePerRun
<1>3. \A a, b, c \in rows : Recency(a, b) /\ Recency(b, c) => Recency(a, c)
  BY DEF Recency, OnePerRun
<1>4. \A a, b \in rows : a # b => Recency(a, b) \/ Recency(b, a)
  BY DEF Recency, OnePerRun
<1> QED BY <1>1, <1>2, <1>3, <1>4 DEF Orders

\* A listing is the ranking of its rows by recency.
LEMMA NewestIsRanked ==
  ASSUME NEW rows
  PROVE  Newest(rows) = Ranked(RecencyOn(rows), rows)
<1>1. \A c \in rows : {d \in rows : Recency(d, c)} = Ahead(RecencyOn(rows), rows, c)
  BY DEF Ahead, RecencyOn
<1>2. \A i : \A c : c \in rows /\ Cardinality({d \in rows : Recency(d, c)}) = i - 1
                    <=> c \in rows /\ Cardinality(Ahead(RecencyOn(rows), rows, c)) = i - 1
  BY <1>1
<1> DEFINE N(i) == CHOOSE c \in rows : Cardinality({d \in rows : Recency(d, c)}) = i - 1
           R(i) == CHOOSE c \in rows : Cardinality(Ahead(RecencyOn(rows), rows, c)) = i - 1
<1>3. \A i : N(i) = R(i)
  BY <1>2, Zenon
<1>4. Newest(rows) = [i \in 1 .. Cardinality(rows) |-> N(i)]
  BY DEF Newest, Ordered
<1>5. Ranked(RecencyOn(rows), rows) = [i \in 1 .. Cardinality(rows) |-> R(i)]
  BY DEF Ranked
<1> HIDE DEF N, R
<1> QED BY <1>3, <1>4, <1>5

-------------------------------------------------------------------------------
\* The paths of the heap.  A path goes from a position of D to next[i], until it is at a
\* position of `ends`; m falls on the way, so that it ends and never meets itself.

Goes(D, next, ends, m, K) ==
  /\ m \in [D -> Nat] /\ K \in Nat /\ \A i \in D : m[i] < K
  /\ \A i \in D : i \notin ends => next[i] \in D /\ m[next[i]] < m[i]

\* g gives the path from every position, as a recursive definition does.
Paths(g, D, next, ends) ==
  g = [i \in D |-> IF i \in ends THEN <<i>> ELSE <<i>> \o g[next[i]]]

Path(p, D, next, ends, m, i) ==
  /\ p \in Seq(D) /\ Len(p) >= 1 /\ p[1] = i /\ p[Len(p)] \in ends
  /\ \A k \in 1 .. Len(p) - 1 : p[k] \notin ends /\ p[k + 1] = next[p[k]]
  /\ \A k, l \in 1 .. Len(p) : k < l => m[p[l]] < m[p[k]]

\* A walk that goes strictly up or down has a path from every place: the recursive
\* definitions of UpPath and DownPath have a solution.
LEMMA PathsExist ==
  ASSUME NEW D, NEW next, NEW ends, NEW m, NEW K, Goes(D, next, ends, m, K)
  PROVE  \E g : Paths(g, D, next, ends)
<1> DEFINE Below(k) == {i \in D : m[i] < k}
           S == {k \in Nat : \E g : Paths(g, Below(k), next, ends)}
<1>1. 0 \in S
  <2>1. Below(0) = {}
    BY DEF Goes
  <2>2. Paths([i \in {} |-> <<i>>], {}, next, ends)
    BY DEF Paths
  <2> QED BY <2>1, <2>2
<1>2. ASSUME NEW k \in S PROVE k + 1 \in S
  <2>1. k \in Nat
    OBVIOUS
  <2>2. PICK g : Paths(g, Below(k), next, ends)
    OBVIOUS
  <2> DEFINE f == [i \in Below(k + 1) |-> IF i \in ends THEN <<i>> ELSE <<i>> \o g[next[i]]]
  <2>3. Below(k) \subseteq Below(k + 1)
    BY <2>1 DEF Goes
  <2>4. \A i \in Below(k + 1) : i \notin ends => next[i] \in Below(k)
    BY <2>1 DEF Goes
  <2> HIDE DEF Below
  <2>5. \A i \in Below(k) : f[i] = g[i]
    BY <2>2, <2>3 DEF Paths
  <2>6. \A i \in Below(k + 1) : i \notin ends => f[next[i]] = g[next[i]]
    BY <2>4, <2>5
  <2>7. \A i \in Below(k + 1) :
          f[i] = IF i \in ends THEN <<i>> ELSE <<i>> \o f[next[i]]
    BY <2>6
  <2>8. Paths(f, Below(k + 1), next, ends)
    <3>1. DOMAIN f = Below(k + 1) /\ f = [i \in Below(k + 1) |-> f[i]]
      OBVIOUS
    <3> HIDE DEF f
    <3> QED BY <2>7, <3>1 DEF Paths
  <2> QED BY <2>1, <2>8
<1>3. S = Nat
  <2> HIDE DEF S
  <2>1. S \in SUBSET Nat
    BY DEF S
  <2> QED BY <1>1, <1>2, <2>1, Induction
<1>4. Below(K) = D
  BY DEF Goes
<1>5. K \in S
  BY <1>3 DEF Goes
<1>6. \E g : Paths(g, Below(K), next, ends)
  BY <1>5
<1> HIDE DEF Below
<1> QED BY <1>4, <1>6

\* What solves the recursion is a path: it starts where it should, follows the steps,
\* and ends where the walk does.
LEMMA PathsArePaths ==
  ASSUME NEW D, NEW next, NEW ends, NEW m, NEW K, Goes(D, next, ends, m, K),
         NEW g, Paths(g, D, next, ends)
  PROVE  \A i \in D : Path(g[i], D, next, ends, m, i)
<1> DEFINE S == {k \in Nat : \A i \in D : m[i] < k => Path(g[i], D, next, ends, m, i)}
<1>1. 0 \in S
  BY DEF Goes
<1>2. ASSUME NEW k \in S PROVE k + 1 \in S
  <2>1. k \in Nat
    OBVIOUS
  <2> SUFFICES ASSUME NEW i \in D, m[i] < k + 1 PROVE Path(g[i], D, next, ends, m, i)
    BY <2>1
  <2>2. CASE i \in ends
    <3>1. g[i] = <<i>>
      BY <2>2 DEF Paths
    <3> QED BY <2>2, <3>1 DEF Path
  <2>3. CASE i \notin ends
    <3> DEFINE q == g[next[i]]
               p == <<i>> \o q
    <3>1. g[i] = p
      BY <2>3 DEF Paths
    <3>2. next[i] \in D /\ m[next[i]] < m[i] /\ m[i] \in Nat /\ m[next[i]] \in Nat
      BY <2>3 DEF Goes
    <3>3. Path(q, D, next, ends, m, next[i])
      BY <2>1, <3>2
    <3>4. /\ q \in Seq(D) /\ Len(q) \in Nat /\ Len(q) >= 1 /\ q[1] = next[i]
          /\ q[Len(q)] \in ends
      BY <3>3 DEF Path
    <3>5. \A l \in 1 .. Len(q) - 1 : q[l] \notin ends /\ q[l + 1] = next[q[l]]
      BY <3>3 DEF Path
    <3>6. \A a, b \in 1 .. Len(q) : a < b => m[q[b]] < m[q[a]]
      BY <3>3 DEF Path
    <3> HIDE DEF q
    <3>7. /\ p \in Seq(D) /\ Len(p) = Len(q) + 1 /\ p[1] = i
          /\ \A l \in 2 .. Len(q) + 1 : p[l] = q[l - 1]
      <4>1. <<i>> \in Seq(D) /\ Len(<<i>>) = 1 /\ <<i>>[1] = i
        OBVIOUS
      <4> QED BY <3>4, <4>1, ConcatProperties
    <3> HIDE DEF p
    <3>8. \A l \in 1 .. Len(q) : q[l] \in D /\ m[q[l]] \in Nat /\ m[q[l]] < m[i]
      <4> SUFFICES ASSUME NEW l \in 1 .. Len(q)
                   PROVE  q[l] \in D /\ m[q[l]] \in Nat /\ m[q[l]] < m[i]
        OBVIOUS
      <4>1. q[l] \in D /\ m[q[l]] \in Nat
        BY <3>4 DEF Goes
      <4>2. l = 1 \/ (1 < l /\ 1 \in 1 .. Len(q))
        BY <3>4
      <4>3. l = 1 \/ m[q[l]] < m[q[1]]
        BY <3>6, <4>2
      <4> QED BY <3>2, <3>4, <4>1, <4>3
    <3>9. p[Len(p)] \in ends
      BY <3>4, <3>7
    <3>10. ASSUME NEW l \in 1 .. Len(p) - 1 PROVE p[l] \notin ends /\ p[l + 1] = next[p[l]]
      <4>1. CASE l = 1
        BY <2>3, <3>4, <3>7, <4>1
      <4>2. CASE l # 1
        <5>1. l - 1 \in 1 .. Len(q) - 1 /\ l \in 2 .. Len(q) + 1 /\ l + 1 \in 2 .. Len(q) + 1
              /\ (l + 1) - 1 = (l - 1) + 1
          BY <3>4, <3>7, <4>2
        <5>2. p[l] = q[l - 1] /\ p[l + 1] = q[(l - 1) + 1]
          BY <3>7, <5>1
        <5> QED BY <3>5, <5>1, <5>2
      <4> QED BY <4>1, <4>2
    <3>11. ASSUME NEW a \in 1 .. Len(p), NEW b \in 1 .. Len(p), a < b PROVE m[p[b]] < m[p[a]]
      <4>1. b \in 2 .. Len(q) + 1 /\ b - 1 \in 1 .. Len(q) /\ p[b] = q[b - 1]
        BY <3>4, <3>7, <3>11
      <4>2. CASE a = 1
        BY <3>7, <3>8, <4>1, <4>2
      <4>3. CASE a # 1
        <5>1. a \in 2 .. Len(q) + 1 /\ a - 1 \in 1 .. Len(q) /\ a - 1 < b - 1
          BY <3>4, <3>7, <3>11, <4>3
        <5>2. p[a] = q[a - 1]
          BY <3>7, <5>1
        <5> QED BY <3>6, <4>1, <5>1, <5>2
      <4> QED BY <4>2, <4>3
    <3>12. Len(p) >= 1
      BY <3>4, <3>7
    <3> QED BY <3>1, <3>7, <3>9, <3>10, <3>11, <3>12 DEF Path
  <2> QED BY <2>2, <2>3
<1>3. S = Nat
  <2>1. S \in SUBSET Nat
    OBVIOUS
  <2> HIDE DEF S
  <2> QED BY <1>1, <1>2, <2>1, Induction
<1>4. K \in S
  BY <1>3 DEF Goes
<1>5. \A i \in D : m[i] < K
  BY DEF Goes
<1> QED BY <1>4, <1>5

-------------------------------------------------------------------------------
\* The heap.

Cells == [key : Nat, at : Nat]
KeysDiffer(h) == \A i, j \in 1 .. Len(h) : h[i].key = h[j].key => i = j
IsHeap(h) == \A i \in 2 .. Len(h) : Less(h[i \div 2], h[i])

\* The parent of a heap position, and the positions it is the parent of.
LEMMA Halves ==
  /\ \A i \in Nat : i > 1 => i \div 2 \in Nat /\ i \div 2 >= 1 /\ i \div 2 < i
  /\ \A i, c \in Nat : c \div 2 = i <=> c = 2 * i \/ c = 2 * i + 1
OBVIOUS

\* Cells are ordered by time and key, strictly, and totally when their keys differ.
LEMMA LessIsOrder ==
  /\ \A a \in Cells : ~Less(a, a)
  /\ \A a, b \in Cells : Less(a, b) => ~Less(b, a)
  /\ \A a, b, c \in Cells : Less(a, b) /\ Less(b, c) => Less(a, c)
  /\ \A a, b \in Cells : a.key # b.key => Less(a, b) \/ Less(b, a)
BY DEF Less, Cells

\* The way up: from j to the first position whose parent is not greater than the entry.
LEMMA UpPathIs ==
  ASSUME NEW h, NEW j \in Nat, j >= 1
  PROVE  LET p == UpPath(h, j) IN
         /\ p \in Seq(1 .. j) /\ Len(p) >= 1 /\ p[1] = j
         /\ p[Len(p)] = 1 \/ ~Less(h[j], h[p[Len(p)] \div 2])
         /\ \A k \in 1 .. Len(p) - 1 :
              p[k] > 1 /\ Less(h[j], h[p[k] \div 2]) /\ p[k + 1] = p[k] \div 2
         /\ \A k, l \in 1 .. Len(p) : k < l => p[l] < p[k]
<1> DEFINE D == 1 .. j
           next == [i \in D |-> i \div 2]
           ends == {i \in D : i = 1 \/ ~Less(h[j], h[i \div 2])}
           m == [i \in D |-> i]
           IsPath(g) == g = [i \in D |-> IF i = 1 \/ ~Less(h[j], h[i \div 2])
                                           THEN <<i>> ELSE <<i>> \o g[i \div 2]]
           path == CHOOSE g : IsPath(g)
           p == UpPath(h, j)
<1>1. p = path[j]
  BY DEF UpPath
<1>2. \A i \in D : i \notin ends => i > 1 /\ Less(h[j], h[i \div 2])
  OBVIOUS
<1>3. Goes(D, next, ends, m, j + 1)
  <2>1. \A i \in D : i > 1 => i \div 2 \in D /\ i \div 2 < i
    BY Halves
  <2>2. m \in [D -> Nat] /\ j + 1 \in Nat /\ \A i \in D : m[i] < j + 1
    OBVIOUS
  <2>3. \A i \in D : i \notin ends => next[i] \in D /\ m[next[i]] < m[i]
    BY <1>2, <2>1
  <2> QED BY <2>2, <2>3 DEF Goes
<1>4. ASSUME NEW g PROVE Paths(g, D, next, ends) <=> IsPath(g)
  <2>1. \A i \in D : (IF i \in ends THEN <<i>> ELSE <<i>> \o g[next[i]])
                   = (IF i = 1 \/ ~Less(h[j], h[i \div 2]) THEN <<i>> ELSE <<i>> \o g[i \div 2])
    OBVIOUS
  <2>2. [i \in D |-> IF i \in ends THEN <<i>> ELSE <<i>> \o g[next[i]]]
      = [i \in D |-> IF i = 1 \/ ~Less(h[j], h[i \div 2]) THEN <<i>> ELSE <<i>> \o g[i \div 2]]
    BY <2>1, Zenon
  <2> QED BY <2>2, Zenon DEF Paths
<1>5. IsPath(path)
  <2>1. PICK g : Paths(g, D, next, ends)
    BY <1>3, PathsExist
  <2>2. IsPath(g)
    BY <1>4, <2>1
  <2> HIDE DEF IsPath
  <2> QED BY <2>2
<1> HIDE DEF path
<1>6. Paths(path, D, next, ends)
  BY <1>4, <1>5
<1> HIDE DEF IsPath, p
<1>7. j \in D /\ Path(p, D, next, ends, m, j)
  BY <1>1, <1>3, <1>6, PathsArePaths
<1>8. p \in Seq(D) /\ Len(p) \in Nat /\ Len(p) >= 1 /\ p[1] = j /\ p[Len(p)] \in ends
  BY <1>7 DEF Path
<1>9. \A k \in 1 .. Len(p) : p[k] \in D
  BY <1>8
<1>10. ASSUME NEW k \in 1 .. Len(p) - 1
       PROVE  p[k] > 1 /\ Less(h[j], h[p[k] \div 2]) /\ p[k + 1] = p[k] \div 2
  <2>1. k \in 1 .. Len(p)
    BY <1>8
  <2>2. p[k] \in D /\ p[k] \notin ends /\ p[k + 1] = next[p[k]]
    BY <1>7, <1>9, <2>1 DEF Path
  <2> QED BY <1>2, <2>2
<1>11. ASSUME NEW k \in 1 .. Len(p), NEW l \in 1 .. Len(p), k < l PROVE p[l] < p[k]
  <2>1. m[p[l]] < m[p[k]]
    BY <1>7, <1>11 DEF Path
  <2> QED BY <1>9, <2>1
<1> QED BY <1>8, <1>10, <1>11 DEF p

\* The smaller child of a position that has one.
SmallerChild(h, i) ==
  IF 2 * i < Len(h) /\ Less(h[2 * i + 1], h[2 * i]) THEN 2 * i + 1 ELSE 2 * i

\* The way down: from j to the first position none of whose children is smaller than the
\* entry, always to the smaller child.
LEMMA DownPathIs ==
  ASSUME NEW h, Len(h) \in Nat, NEW j \in 1 .. Len(h)
  PROVE  LET p == DownPath(h, j) IN
         /\ p \in Seq(j .. Len(h)) /\ Len(p) >= 1 /\ p[1] = j
         /\ 2 * p[Len(p)] > Len(h) \/ ~Less(h[SmallerChild(h, p[Len(p)])], h[j])
         /\ \A k \in 1 .. Len(p) - 1 :
              /\ 2 * p[k] <= Len(h) /\ Less(h[SmallerChild(h, p[k])], h[j])
              /\ p[k + 1] = SmallerChild(h, p[k])
         /\ \A k, l \in 1 .. Len(p) : k < l => p[k] < p[l]
<1> DEFINE n == Len(h)
           D == j .. n
           Down(i) == SmallerChild(h, i)
           next == [i \in D |-> Down(i)]
           ends == {i \in D : 2 * i > n \/ ~Less(h[Down(i)], h[j])}
           m == [i \in D |-> n - i]
           IsPath(g) == g = [i \in D |-> IF 2 * i > n \/ ~Less(h[Down(i)], h[j])
                                           THEN <<i>> ELSE <<i>> \o g[Down(i)]]
           path == CHOOSE g : IsPath(g)
           p == DownPath(h, j)
<1>1. p = path[j]
  BY DEF DownPath, SmallerChild
<1>2. \A i \in D : i \notin ends => 2 * i <= n /\ Less(h[Down(i)], h[j])
  OBVIOUS
<1>3. \A i \in D : 2 * i <= n => Down(i) \in D /\ i < Down(i)
  BY DEF SmallerChild
<1>4. n \in Nat /\ j \in Nat /\ j >= 1 /\ j <= n
  OBVIOUS
<1> HIDE DEF Down, n
<1>5. Goes(D, next, ends, m, n + 1)
  <2>1. m \in [D -> Nat] /\ n + 1 \in Nat /\ \A i \in D : m[i] < n + 1
    BY <1>4
  <2>2. ASSUME NEW i \in D, i \notin ends PROVE next[i] \in D /\ m[next[i]] < m[i]
    <3>1. next[i] = Down(i) /\ Down(i) \in D /\ i < Down(i)
      BY <1>2, <1>3, <2>2
    <3> QED BY <1>4, <3>1
  <2> QED BY <2>1, <2>2 DEF Goes
<1>6. ASSUME NEW g PROVE Paths(g, D, next, ends) <=> IsPath(g)
  <2>1. \A i \in D : (IF i \in ends THEN <<i>> ELSE <<i>> \o g[next[i]])
                   = (IF 2 * i > n \/ ~Less(h[Down(i)], h[j]) THEN <<i>> ELSE <<i>> \o g[Down(i)])
    OBVIOUS
  <2>2. [i \in D |-> IF i \in ends THEN <<i>> ELSE <<i>> \o g[next[i]]]
      = [i \in D |-> IF 2 * i > n \/ ~Less(h[Down(i)], h[j]) THEN <<i>> ELSE <<i>> \o g[Down(i)]]
    BY <2>1, Zenon
  <2> QED BY <2>2, Zenon DEF Paths
<1>7. IsPath(path)
  <2>1. PICK g : Paths(g, D, next, ends)
    BY <1>5, PathsExist
  <2>2. IsPath(g)
    BY <1>6, <2>1
  <2> HIDE DEF IsPath
  <2> QED BY <2>2
<1> HIDE DEF path
<1>8. Paths(path, D, next, ends)
  BY <1>6, <1>7
<1> HIDE DEF IsPath, p
<1>9. j \in D /\ Path(p, D, next, ends, m, j)
  BY <1>1, <1>4, <1>5, <1>8, PathsArePaths
<1>10. p \in Seq(D) /\ Len(p) \in Nat /\ Len(p) >= 1 /\ p[1] = j /\ p[Len(p)] \in ends
  BY <1>9 DEF Path
<1>11. \A k \in 1 .. Len(p) : p[k] \in D
  BY <1>10, ElementOfSeq
<1>12. ASSUME NEW k \in 1 .. Len(p) - 1
       PROVE  2 * p[k] <= n /\ Less(h[Down(p[k])], h[j]) /\ p[k + 1] = Down(p[k])
  <2>1. k \in 1 .. Len(p)
    BY <1>10
  <2>2. p[k] \in D /\ p[k] \notin ends /\ p[k + 1] = next[p[k]]
    BY <1>9, <1>11, <2>1 DEF Path
  <2> QED BY <1>2, <2>2
<1>13. ASSUME NEW k \in 1 .. Len(p), NEW l \in 1 .. Len(p), k < l PROVE p[k] < p[l]
  <2>1. m[p[l]] < m[p[k]]
    BY <1>9, <1>13 DEF Path
  <2> QED BY <1>4, <1>11, <2>1
<1>14. 2 * p[Len(p)] > n \/ ~Less(h[Down(p[Len(p)])], h[j])
  BY <1>10
<1> QED BY <1>10, <1>12, <1>13, <1>14 DEF p, Down, n

\* Moving the first entry of a path to its end, and the others one place along it.
LEMMA AlongMoves ==
  ASSUME NEW h \in Seq(Cells), NEW p \in Seq(1 .. Len(h)), Len(p) >= 1,
         \A k, l \in 1 .. Len(p) : p[k] = p[l] => k = l
  PROVE  LET a == Along(h, p) IN
         /\ a \in Seq(Cells) /\ Len(a) = Len(h)
         /\ a[p[Len(p)]] = h[p[1]]
         /\ \A k \in 1 .. Len(p) - 1 : a[p[k]] = h[p[k + 1]]
         /\ \A i \in 1 .. Len(h) : (\A k \in 1 .. Len(p) : p[k] # i) => a[i] = h[i]
<1> DEFINE n == Len(p)
           a == Along(h, p)
           K(i) == CHOOSE k \in 1 .. n - 1 : p[k] = i
<1>1. n \in Nat /\ n >= 1 /\ \A k \in 1 .. n : p[k] \in 1 .. Len(h)
  OBVIOUS
<1>2. Len(h) \in Nat /\ DOMAIN h = 1 .. Len(h) /\ \A i \in 1 .. Len(h) : h[i] \in Cells
  OBVIOUS
<1>3. a = [i \in 1 .. Len(h) |->
             IF i = p[n] THEN h[p[1]]
             ELSE IF \E k \in 1 .. n - 1 : p[k] = i THEN h[p[K(i) + 1]] ELSE h[i]]
  BY <1>2 DEF Along, Last
<1> HIDE DEF n, a
<1>4. ASSUME NEW i \in 1 .. Len(h), NEW k \in 1 .. n - 1, p[k] = i PROVE K(i) = k
  <2>1. \A l \in 1 .. n - 1 : p[l] = i => l = k
    BY <1>1, <1>4 DEF n
  <2> QED BY <1>4, <2>1
<1>5. ASSUME NEW k \in 1 .. n - 1
      PROVE  a[p[k]] = h[p[k + 1]] /\ p[k] \in 1 .. Len(h) /\ k \in 1 .. n
  <2>1. k \in 1 .. n /\ n \in 1 .. n /\ k # n
    BY <1>1
  <2>2. p[k] \in 1 .. Len(h) /\ p[k] # p[n]
    BY <1>1, <2>1 DEF n
  <2>3. K(p[k]) = k
    BY <1>4, <2>2
  <2> HIDE DEF K
  <2> QED BY <1>3, <2>1, <2>2, <2>3
<1>6. a[p[n]] = h[p[1]] /\ p[n] \in 1 .. Len(h) /\ p[1] \in 1 .. Len(h)
  BY <1>1, <1>3
<1>7. ASSUME NEW i \in 1 .. Len(h), \A k \in 1 .. n : p[k] # i PROVE a[i] = h[i]
  <2>1. i # p[n] /\ ~\E k \in 1 .. n - 1 : p[k] = i
    BY <1>1, <1>7
  <2> HIDE DEF K
  <2> QED BY <1>3, <2>1
<1>8. \A i \in 1 .. Len(h) : a[i] \in Cells
  <2> SUFFICES ASSUME NEW i \in 1 .. Len(h) PROVE a[i] \in Cells
    OBVIOUS
  <2>1. CASE \A k \in 1 .. n : p[k] # i
    BY <1>2, <1>7, <2>1
  <2>2. CASE \E k \in 1 .. n : p[k] = i
    <3>1. PICK k \in 1 .. n : p[k] = i
      BY <2>2
    <3>2. CASE k = n
      BY <1>2, <1>6, <3>1, <3>2
    <3>3. CASE k # n
      <4>1. k \in 1 .. n - 1 /\ k + 1 \in 1 .. n
        BY <1>1, <3>3
      <4>2. p[k + 1] \in 1 .. Len(h)
        BY <1>1, <4>1
      <4> QED BY <1>2, <1>5, <3>1, <4>1, <4>2
    <3> QED BY <3>2, <3>3
  <2> QED BY <2>1, <2>2
<1>9. a \in Seq(Cells) /\ Len(a) = Len(h)
  <2>1. a \in [1 .. Len(h) -> Cells]
    BY <1>3, <1>8
  <2> QED BY <1>2, <2>1
<1> QED BY <1>5, <1>6, <1>7, <1>9 DEF a, n

\* The entries stay the same, and so do the keys.
LEMMA AlongKeeps ==
  ASSUME NEW h \in Seq(Cells), NEW p \in Seq(1 .. Len(h)), Len(p) >= 1,
         \A k, l \in 1 .. Len(p) : p[k] = p[l] => k = l, KeysDiffer(h)
  PROVE  LET a == Along(h, p) IN
         /\ KeysDiffer(a)
         /\ \A c : (\E i \in 1 .. Len(a) : a[i] = c) <=> (\E i \in 1 .. Len(h) : h[i] = c)
<1> DEFINE n == Len(p)
           a == Along(h, p)
           On(i) == \E k \in 1 .. n : p[k] = i
<1>1. n \in Nat /\ n >= 1 /\ \A k \in 1 .. n : p[k] \in 1 .. Len(h)
  OBVIOUS
<1>2. /\ a \in Seq(Cells) /\ Len(a) = Len(h)
      /\ a[p[n]] = h[p[1]]
      /\ \A k \in 1 .. n - 1 : a[p[k]] = h[p[k + 1]]
      /\ \A i \in 1 .. Len(h) : ~On(i) => a[i] = h[i]
  <2>1. /\ a \in Seq(Cells) /\ Len(a) = Len(h)
        /\ a[p[n]] = h[p[1]]
        /\ \A k \in 1 .. n - 1 : a[p[k]] = h[p[k + 1]]
        /\ \A i \in 1 .. Len(h) : (\A k \in 1 .. n : p[k] # i) => a[i] = h[i]
    BY AlongMoves
  <2> QED BY <2>1, Zenon
<1>3. \A k, l \in 1 .. n : p[k] = p[l] => k = l
  OBVIOUS
<1> HIDE DEF n, a
<1>4. ASSUME NEW i \in 1 .. Len(h)
      PROVE  \E j \in 1 .. Len(h) : /\ a[i] = h[j]
                                    /\ IF On(i) THEN \E k \in 1 .. n : p[k] = i /\ j = p[IF k = n THEN 1 ELSE k + 1]
                                       ELSE j = i
  <2>1. CASE ~On(i)
    BY <1>2, <2>1
  <2>2. CASE On(i)
    <3>1. PICK k \in 1 .. n : p[k] = i
      BY <2>2
    <3>2. CASE k = n
      <4>1. 1 \in 1 .. n
        BY <1>1
      <4> QED BY <1>1, <1>2, <2>2, <3>1, <3>2, <4>1
    <3>3. CASE k # n
      <4>1. k \in 1 .. n - 1 /\ k + 1 \in 1 .. n
        BY <1>1, <3>3
      <4> QED BY <1>1, <1>2, <2>2, <3>1, <3>3, <4>1
    <3> QED BY <3>2, <3>3
  <2> QED BY <2>1, <2>2
<1>5. KeysDiffer(a)
  <2> SUFFICES ASSUME NEW x \in 1 .. Len(h), NEW y \in 1 .. Len(h), a[x].key = a[y].key
               PROVE  x = y
    BY <1>2 DEF KeysDiffer
  <2>1. PICK u \in 1 .. Len(h) :
          /\ a[x] = h[u]
          /\ IF On(x) THEN \E k \in 1 .. n : p[k] = x /\ u = p[IF k = n THEN 1 ELSE k + 1] ELSE u = x
    BY <1>4
  <2>2. PICK v \in 1 .. Len(h) :
          /\ a[y] = h[v]
          /\ IF On(y) THEN \E k \in 1 .. n : p[k] = y /\ v = p[IF k = n THEN 1 ELSE k + 1] ELSE v = y
    BY <1>4
  <2>3. u = v
    BY <2>1, <2>2 DEF KeysDiffer
  <2>4. \A k \in 1 .. n : (IF k = n THEN 1 ELSE k + 1) \in 1 .. n
    BY <1>1
  <2>5. On(x) <=> On(u)
    BY <2>1, <2>4
  <2>6. On(y) <=> On(v)
    BY <2>2, <2>4
  <2>7. CASE ~On(x)
    BY <2>1, <2>2, <2>3, <2>5, <2>6, <2>7
  <2>8. CASE On(x)
    <3>1. PICK k \in 1 .. n : p[k] = x /\ u = p[IF k = n THEN 1 ELSE k + 1]
      BY <2>1, <2>8
    <3>2. PICK l \in 1 .. n : p[l] = y /\ v = p[IF l = n THEN 1 ELSE l + 1]
      BY <2>2, <2>3, <2>5, <2>6, <2>8
    <3>3. (IF k = n THEN 1 ELSE k + 1) = (IF l = n THEN 1 ELSE l + 1)
      BY <1>3, <2>3, <2>4, <3>1, <3>2
    <3>4. k = l
      BY <1>1, <3>3
    <3> QED BY <3>1, <3>2, <3>4
  <2> QED BY <2>7, <2>8
<1>6. \A i \in 1 .. Len(h) : \E j \in 1 .. Len(h) : a[i] = h[j]
  BY <1>4
<1>7. ASSUME NEW j \in 1 .. Len(h) PROVE \E i \in 1 .. Len(h) : a[i] = h[j]
  <2>1. CASE ~On(j)
    BY <1>2, <2>1
  <2>2. CASE On(j)
    <3>1. PICK k \in 1 .. n : p[k] = j
      BY <2>2
    <3>2. CASE k = 1
      <4>1. n \in 1 .. n
        BY <1>1
      <4> QED BY <1>1, <1>2, <3>1, <3>2, <4>1
    <3>3. CASE k # 1
      <4>1. k - 1 \in 1 .. n - 1 /\ k - 1 \in 1 .. n /\ (k - 1) + 1 = k
        BY <1>1, <3>3
      <4>2. a[p[k - 1]] = h[p[k]] /\ p[k - 1] \in 1 .. Len(h)
        BY <1>1, <1>2, <4>1
      <4> QED BY <3>1, <4>2
    <3> QED BY <3>2, <3>3
  <2> QED BY <2>1, <2>2
<1>8. Len(a) = Len(h)
  BY <1>2
<1> QED BY ZenonT(60), <1>5, <1>6, <1>7, <1>8 DEF a

Holds(h, c) == \E i \in 1 .. Len(h) : h[i] = c

\* A heap of entries, one per key.
Heap(h) == h \in Seq(Cells) /\ KeysDiffer(h) /\ IsHeap(h)

\* Only the entry at j may be out of order, with its parent.
UpReady(h, j) ==
  /\ \A i \in 2 .. Len(h) : i # j => Less(h[i \div 2], h[i])
  /\ \A i \in 2 .. Len(h) : i \div 2 = j /\ j > 1 => Less(h[j \div 2], h[i])

\* Only the entry at j may be out of order, with its parent or its children.
FixReady(h, j) ==
  /\ \A i \in 2 .. Len(h) : i # j /\ i \div 2 # j => Less(h[i \div 2], h[i])
  /\ \A i \in 2 .. Len(h) : i \div 2 = j /\ j > 1 => Less(h[j \div 2], h[i])

\* Sifting up mends a heap that is broken only above j and loses no entry (heap.up).
LEMMA UpSifts ==
  ASSUME NEW h \in Seq(Cells), KeysDiffer(h), NEW j \in 1 .. Len(h), UpReady(h, j)
  PROVE  Heap(Up(h, j)) /\ Len(Up(h, j)) = Len(h) /\ \A c : Holds(Up(h, j), c) <=> Holds(h, c)
<1> DEFINE p == UpPath(h, j)
           n == Len(p)
           a == Along(h, p)
           On(i) == \E k \in 1 .. n : p[k] = i
<1>1. Len(h) \in Nat /\ j \in Nat /\ j >= 1 /\ \A i \in 1 .. Len(h) : h[i] \in Cells
  OBVIOUS
<1>2. /\ p \in Seq(1 .. j) /\ n >= 1 /\ p[1] = j
      /\ p[n] = 1 \/ ~Less(h[j], h[p[n] \div 2])
      /\ \A k \in 1 .. n - 1 : p[k] > 1 /\ Less(h[j], h[p[k] \div 2]) /\ p[k + 1] = p[k] \div 2
      /\ \A k, l \in 1 .. n : k < l => p[l] < p[k]
  BY <1>1, UpPathIs
<1> HIDE DEF p
<1>3. n \in Nat /\ \A k \in 1 .. n : p[k] \in 1 .. j /\ p[k] \in 1 .. Len(h)
  BY <1>1, <1>2
<1>4. p \in Seq(1 .. Len(h)) /\ \A k, l \in 1 .. n : p[k] = p[l] => k = l
  <2>1. 1 .. j \subseteq 1 .. Len(h)
    BY <1>1
  <2>2. p \in Seq(1 .. Len(h))
    BY <1>2, <2>1, SeqMonotonic
  <2>3. ASSUME NEW k \in 1 .. n, NEW l \in 1 .. n, p[k] = p[l] PROVE k = l
    <3>1. ~(p[k] < p[l]) /\ ~(p[l] < p[k])
      BY <1>3, <2>3
    <3>2. ~(k < l) /\ ~(l < k)
      BY <1>2, <3>1
    <3> QED BY <1>3, <3>2
  <2> QED BY <2>2, <2>3
<1>5. /\ a \in Seq(Cells) /\ Len(a) = Len(h)
      /\ a[p[n]] = h[p[1]]
      /\ \A k \in 1 .. n - 1 : a[p[k]] = h[p[k + 1]]
      /\ \A i \in 1 .. Len(h) : (\A k \in 1 .. n : p[k] # i) => a[i] = h[i]
  BY <1>2, <1>4, AlongMoves
<1>6. KeysDiffer(a) /\ \A c : Holds(a, c) <=> Holds(h, c)
  BY <1>2, <1>4, AlongKeeps DEF Holds
<1>7. \A i \in 1 .. Len(h) : ~On(i) => a[i] = h[i]
  BY <1>5, Zenon
<1>8. \A i \in 2 .. Len(h) : i \in 1 .. Len(h) /\ i > 1 /\ i \div 2 \in 1 .. Len(h) /\ i \div 2 < i
  BY <1>1, Halves
<1> HIDE DEF n, a
<1>9. ASSUME NEW i \in 2 .. Len(h) PROVE Less(a[i \div 2], a[i])
  <2> DEFINE u == i \div 2
  <2>1. i \in 1 .. Len(h) /\ i > 1 /\ u \in 1 .. Len(h) /\ u < i
    BY <1>8
  <2>2. h[i] \in Cells /\ h[u] \in Cells /\ h[j] \in Cells
    BY <1>1, <2>1
  <2> HIDE DEF u
  <2>3. ASSUME NEW k \in 1 .. n - 1, p[k] = i PROVE p[k + 1] = u /\ Less(h[j], h[u])
    BY <1>2, <2>3 DEF u
  <2>4. CASE On(i)
    <3>1. PICK k \in 1 .. n : p[k] = i
      BY <2>4
    <3>2. CASE k = n
      <4>1. ~On(u)
        <5> SUFFICES ASSUME NEW l \in 1 .. n, p[l] = u PROVE FALSE
          OBVIOUS
        <5>1. l = n \/ (l < n /\ n \in 1 .. n)
          BY <1>3
        <5>2. l = n \/ p[n] < p[l]
          BY <1>2, <5>1
        <5> QED BY <1>3, <2>1, <3>1, <3>2, <5>2
      <4>2. a[u] = h[u] /\ a[i] = h[j]
        BY <1>2, <1>5, <1>7, <2>1, <3>1, <3>2, <4>1
      <4>3. ~Less(h[j], h[u])
        BY <1>2, <2>1, <3>1, <3>2 DEF u
      <4>4. h[j].key # h[u].key
        <5>1. u # j
          <6>1. 1 \in 1 .. n
            BY <1>2, <1>3
          <6> QED BY <1>2, <4>1, <6>1
        <5> QED BY <1>1, <2>1, <5>1 DEF KeysDiffer
      <4> QED BY <2>2, <4>2, <4>3, <4>4, LessIsOrder DEF u
    <3>3. CASE k # n
      <4>1. k \in 1 .. n - 1 /\ k + 1 \in 1 .. n
        BY <1>3, <3>3
      <4>2. p[k + 1] = u /\ Less(h[j], h[u]) /\ a[i] = h[u]
        BY <1>5, <2>3, <3>1, <4>1
      <4>3. CASE k + 1 = n
        <5>1. a[u] = h[j]
          BY <1>2, <1>5, <4>2, <4>3
        <5> QED BY <4>2, <5>1 DEF u
      <4>4. CASE k + 1 # n
        <5>1. k + 1 \in 1 .. n - 1 /\ 1 \in 1 .. n /\ 1 < k + 1
          BY <1>3, <4>1, <4>4
        <5>2. a[u] = h[u \div 2] /\ u > 1
          BY <1>2, <1>5, <4>2, <5>1
        <5>3. u # j
          BY <1>2, <1>3, <4>1, <4>2, <5>1
        <5>4. Less(h[u \div 2], h[u])
          BY <2>1, <5>2, <5>3 DEF UpReady
        <5> QED BY <4>2, <5>2, <5>4 DEF u
      <4> QED BY <4>3, <4>4
    <3> QED BY <3>2, <3>3
  <2>5. CASE ~On(i)
    <3>1. a[i] = h[i] /\ i # j
      <4>1. 1 \in 1 .. n
        BY <1>2, <1>3
      <4> QED BY <1>2, <1>7, <2>1, <2>5, <4>1
    <3>2. Less(h[u], h[i])
      BY <3>1 DEF UpReady, u
    <3>3. CASE ~On(u)
      BY <1>7, <2>1, <3>1, <3>2, <3>3 DEF u
    <3>4. CASE On(u)
      <4>1. PICK k \in 1 .. n : p[k] = u
        BY <3>4
      <4>2. CASE k = n
        <5>1. a[u] = h[j]
          BY <1>2, <1>5, <4>1, <4>2
        <5>2. CASE n = 1
          <6>1. u = j
            BY <1>2, <4>1, <4>2, <5>2
          <6> QED BY <3>1, <3>2, <5>1, <6>1 DEF u
        <5>3. CASE n # 1
          <6>1. n - 1 \in 1 .. n - 1 /\ (n - 1) + 1 = n
            BY <1>2, <1>3, <5>3
          <6>2. Less(h[j], h[u])
            BY <1>2, <4>1, <4>2, <6>1
          <6>3. Less(h[j], h[i])
            BY <2>2, <3>2, <6>2, LessIsOrder
          <6> QED BY <3>1, <5>1, <6>3 DEF u
        <5> QED BY <5>2, <5>3
      <4>3. CASE k # n
        <5>1. k \in 1 .. n - 1
          BY <1>3, <4>3
        <5>2. a[u] = h[u \div 2] /\ u > 1 /\ u \in 2 .. Len(h)
          <6>1. p[k] > 1 /\ p[k + 1] = p[k] \div 2
            BY <1>2, <5>1
          <6>2. a[p[k]] = h[p[k + 1]]
            BY <1>5, <5>1
          <6>3. u \in 2 .. Len(h)
            BY <1>1, <2>1, <4>1, <6>1
          <6> QED BY <4>1, <6>1, <6>2, <6>3
        <5>3. CASE u = j
          <6>1. Less(h[j \div 2], h[i])
            BY <5>2, <5>3 DEF UpReady, u
          <6> QED BY <3>1, <5>2, <5>3, <6>1 DEF u
        <5>4. CASE u # j
          <6>1. Less(h[u \div 2], h[u])
            BY <5>2, <5>4 DEF UpReady
          <6>2. h[u \div 2] \in Cells
            BY <1>1, <1>8, <5>2
          <6>3. Less(h[u \div 2], h[i])
            BY <2>2, <3>2, <6>1, <6>2, LessIsOrder
          <6> QED BY <3>1, <5>2, <6>3 DEF u
        <5> QED BY <5>3, <5>4
      <4> QED BY <4>2, <4>3
    <3> QED BY <3>3, <3>4
  <2> QED BY <2>4, <2>5
<1>10. Up(h, j) = a
  BY DEF Up, a, p
<1> QED BY <1>5, <1>6, <1>9, <1>10 DEF Heap, IsHeap

\* The child that down compares with comes before its sibling.
LEMMA SmallerChildIs ==
  ASSUME NEW h \in Seq(Cells), KeysDiffer(h), NEW i \in 1 .. Len(h), 2 * i <= Len(h)
  PROVE  /\ SmallerChild(h, i) \in 2 .. Len(h) /\ SmallerChild(h, i) \div 2 = i
         /\ \A c \in 2 .. Len(h) : c \div 2 = i /\ c # SmallerChild(h, i) =>
              Less(h[SmallerChild(h, i)], h[c])
<1> DEFINE s == SmallerChild(h, i)
<1>1. Len(h) \in Nat /\ i \in Nat /\ i >= 1 /\ \A x \in 1 .. Len(h) : h[x] \in Cells
  OBVIOUS
<1>2. s = 2 * i \/ (s = 2 * i + 1 /\ 2 * i < Len(h) /\ Less(h[2 * i + 1], h[2 * i]))
  BY DEF SmallerChild
<1>3. s = 2 * i => ~(2 * i < Len(h) /\ Less(h[2 * i + 1], h[2 * i]))
  BY <1>1 DEF SmallerChild
<1> HIDE DEF s
<1>4. s \in 2 .. Len(h) /\ s \div 2 = i
  BY <1>1, <1>2, Halves
<1>5. ASSUME NEW c \in 2 .. Len(h), c \div 2 = i, c # s PROVE Less(h[s], h[c])
  <2>1. c = 2 * i \/ c = 2 * i + 1
    BY <1>1, <1>5, Halves
  <2>2. CASE s = 2 * i
    <3>1. c = 2 * i + 1 /\ 2 * i < Len(h) /\ ~Less(h[c], h[s])
      BY <1>1, <1>3, <1>5, <2>1, <2>2
    <3>2. h[s] \in Cells /\ h[c] \in Cells /\ h[s].key # h[c].key
      <4>1. s \in 1 .. Len(h) /\ c \in 1 .. Len(h)
        BY <1>1, <1>4
      <4> QED BY <1>1, <1>5, <4>1 DEF KeysDiffer
    <3> QED BY <3>1, <3>2, LessIsOrder
  <2>3. CASE s # 2 * i
    BY <1>1, <1>2, <1>5, <2>1, <2>3
  <2> QED BY <2>2, <2>3
<1> QED BY <1>4, <1>5 DEF s

\* Down moves an entry that is greater than one of its children; its parent is then in
\* order as well.
LEMMA DownSifts ==
  ASSUME NEW h \in Seq(Cells), KeysDiffer(h), NEW j \in 1 .. Len(h), FixReady(h, j),
         Len(DownPath(h, j)) > 1
  PROVE  LET a == Along(h, DownPath(h, j)) IN
         Heap(a) /\ Len(a) = Len(h) /\ \A c : Holds(a, c) <=> Holds(h, c)
<1> DEFINE p == DownPath(h, j)
           n == Len(p)
           a == Along(h, p)
           On(i) == \E k \in 1 .. n : p[k] = i
           Down(i) == SmallerChild(h, i)
<1>1. Len(h) \in Nat /\ j \in Nat /\ j >= 1 /\ \A i \in 1 .. Len(h) : h[i] \in Cells
  OBVIOUS
<1>2. /\ p \in Seq(j .. Len(h)) /\ n >= 1 /\ p[1] = j
      /\ 2 * p[n] > Len(h) \/ ~Less(h[Down(p[n])], h[j])
      /\ \A k \in 1 .. n - 1 :
           2 * p[k] <= Len(h) /\ Less(h[Down(p[k])], h[j]) /\ p[k + 1] = Down(p[k])
      /\ \A k, l \in 1 .. n : k < l => p[k] < p[l]
  BY <1>1, DownPathIs
<1> HIDE DEF p
<1>3. n \in Nat /\ n > 1 /\ \A k \in 1 .. n : p[k] \in j .. Len(h) /\ p[k] \in 1 .. Len(h)
  <2>1. \A k \in 1 .. n : p[k] \in j .. Len(h)
    BY <1>2, ElementOfSeq
  <2> QED BY <1>1, <1>2, <2>1 DEF p
<1>4. p \in Seq(1 .. Len(h)) /\ \A k, l \in 1 .. n : p[k] = p[l] => k = l
  <2>1. j .. Len(h) \subseteq 1 .. Len(h)
    BY <1>1
  <2>2. p \in Seq(1 .. Len(h))
    BY <1>2, <2>1, SeqMonotonic
  <2>3. ASSUME NEW k \in 1 .. n, NEW l \in 1 .. n, p[k] = p[l] PROVE k = l
    <3>1. ~(p[k] < p[l]) /\ ~(p[l] < p[k])
      BY <1>3, <2>3
    <3>2. ~(k < l) /\ ~(l < k)
      BY <1>2, <3>1
    <3> QED BY <1>3, <3>2
  <2> QED BY <2>2, <2>3
<1>5. /\ a \in Seq(Cells) /\ Len(a) = Len(h)
      /\ a[p[n]] = h[p[1]]
      /\ \A k \in 1 .. n - 1 : a[p[k]] = h[p[k + 1]]
      /\ \A i \in 1 .. Len(h) : (\A k \in 1 .. n : p[k] # i) => a[i] = h[i]
  BY <1>2, <1>4, AlongMoves
<1>6. KeysDiffer(a) /\ \A c : Holds(a, c) <=> Holds(h, c)
  BY <1>2, <1>4, AlongKeeps DEF Holds
<1>7. \A i \in 1 .. Len(h) : ~On(i) => a[i] = h[i]
  BY <1>5, Zenon
<1>8. \A i \in 2 .. Len(h) : i \in 1 .. Len(h) /\ i > 1 /\ i \div 2 \in 1 .. Len(h) /\ i \div 2 < i
  BY <1>1, Halves
<1> HIDE DEF n, a, Down
<1>9. \A k \in 1 .. n - 1 :
        k \in 1 .. n /\ k + 1 \in 1 .. n /\ p[k + 1] \in 2 .. Len(h) /\ p[k + 1] \div 2 = p[k]
  <2> SUFFICES ASSUME NEW k \in 1 .. n - 1
               PROVE  k \in 1 .. n /\ k + 1 \in 1 .. n /\ p[k + 1] \in 2 .. Len(h)
                      /\ p[k + 1] \div 2 = p[k]
    OBVIOUS
  <2>1. k \in 1 .. n /\ k + 1 \in 1 .. n
    BY <1>3
  <2>2. p[k] \in 1 .. Len(h) /\ 2 * p[k] <= Len(h) /\ p[k + 1] = Down(p[k])
    BY <1>2, <1>3, <2>1
  <2> QED BY <2>1, <2>2, SmallerChildIs DEF Down
<1>10. ASSUME NEW i \in 2 .. Len(h) PROVE Less(a[i \div 2], a[i])
  <2> DEFINE u == i \div 2
  <2>1. i \in 1 .. Len(h) /\ i > 1 /\ u \in 1 .. Len(h) /\ u < i
    BY <1>8
  <2>2. h[i] \in Cells /\ h[u] \in Cells /\ h[j] \in Cells
    BY <1>1, <2>1
  <2> HIDE DEF u
  <2>3. CASE On(i)
    <3>1. PICK k \in 1 .. n : p[k] = i
      BY <2>3
    <3>2. CASE k = 1
      <4>1. i = j /\ 1 \in 1 .. n - 1
        BY <1>2, <1>3, <3>1, <3>2
      <4>2. ~On(u)
        BY <1>1, <1>3, <2>1, <4>1
      <4>3. a[u] = h[u] /\ a[i] = h[p[2]] /\ p[2] \in 2 .. Len(h) /\ p[2] \div 2 = j
        <5>1. a[u] = h[u]
          BY <1>7, <2>1, <4>2
        <5>2. p[1 + 1] \in 2 .. Len(h) /\ p[1 + 1] \div 2 = p[1]
          BY <1>9, <4>1
        <5>3. a[p[1]] = h[p[1 + 1]]
          BY <1>5, <4>1
        <5>4. 1 + 1 = 2
          OBVIOUS
        <5> QED BY <1>2, <4>1, <5>1, <5>2, <5>3, <5>4
      <4>4. Less(h[j \div 2], h[p[2]])
        BY <2>1, <4>1, <4>3 DEF FixReady
      <4> QED BY <4>1, <4>3, <4>4 DEF u
    <3>3. CASE k # 1
      <4>1. k - 1 \in 1 .. n - 1 /\ (k - 1) + 1 = k
        BY <1>3, <3>3
      <4>2. p[k - 1] = u /\ a[u] = h[i]
        <5>1. p[(k - 1) + 1] \div 2 = p[k - 1]
          BY <1>9, <4>1
        <5>2. p[k - 1] = u
          BY <3>1, <4>1, <5>1 DEF u
        <5>3. a[p[k - 1]] = h[p[(k - 1) + 1]]
          BY <1>5, <4>1
        <5> QED BY <3>1, <4>1, <5>2, <5>3
      <4>3. CASE k = n
        <5>1. a[i] = h[j]
          BY <1>2, <1>5, <3>1, <4>3
        <5>2. Less(h[i], h[j])
          BY <1>2, <3>1, <4>1
        <5> QED BY <4>2, <5>1, <5>2 DEF u
      <4>4. CASE k # n
        <5>1. k \in 1 .. n - 1 /\ 1 \in 1 .. n /\ 1 < k
          BY <1>3, <3>3, <4>4
        <5>2. a[i] = h[p[k + 1]] /\ p[k + 1] \in 2 .. Len(h) /\ p[k + 1] \div 2 = i
          BY <1>5, <1>9, <3>1, <5>1
        <5>3. p[1] < p[k] /\ i # j
          BY SMTT(30), <1>2, <1>3, <3>1, <5>1
        <5>4. p[k + 1] # j
          <6>1. p[k + 1] \in 1 .. Len(h) /\ i < p[k + 1]
            BY <1>8, <5>2
          <6> QED BY <1>1, <1>2, <3>1, <5>3, <6>1
        <5>5. Less(h[i], h[p[k + 1]])
          BY <5>2, <5>3, <5>4 DEF FixReady
        <5> QED BY <4>2, <5>2, <5>5 DEF u
      <4> QED BY <4>3, <4>4
    <3> QED BY <3>2, <3>3
  <2>4. CASE ~On(i)
    <3>1. a[i] = h[i] /\ i # j
      <4>1. 1 \in 1 .. n
        BY <1>3
      <4> QED BY <1>2, <1>7, <2>1, <2>4, <4>1
    <3>2. CASE ~On(u)
      <4>1. u # j
        <5>1. 1 \in 1 .. n
          BY <1>3
        <5> QED BY <1>2, <3>2, <5>1
      <4>2. Less(h[u], h[i])
        BY <3>1, <4>1 DEF FixReady, u
      <4> QED BY <1>7, <2>1, <3>1, <3>2, <4>2 DEF u
    <3>3. CASE On(u)
      <4>1. PICK k \in 1 .. n : p[k] = u
        BY <3>3
      <4>2. 2 * u <= Len(h)
        <5>1. i = 2 * u \/ i = 2 * u + 1
          BY <2>1, Halves DEF u
        <5> QED BY <1>1, <2>1, <5>1
      <4>3. Down(u) \in 2 .. Len(h) /\ (i # Down(u) => Less(h[Down(u)], h[i]))
        BY <2>1, <4>2, SmallerChildIs DEF Down, u
      <4>4. CASE k = n
        <5>1. a[u] = h[j] /\ ~Less(h[Down(u)], h[j])
          BY <1>2, <1>1, <1>5, <2>1, <4>1, <4>2, <4>4
        <5>2. Down(u) # j
          <6>1. Down(u) > u /\ u >= j
            <7>1. u \in j .. Len(h)
              BY <1>3, <4>1
            <7>2. Down(u) \div 2 = u
              BY <2>1, <4>2, SmallerChildIs DEF Down
            <7> QED BY <1>1, <1>8, <4>3, <7>1, <7>2
          <6> QED BY <1>1, <2>1, <4>3, <6>1
        <5>3. Down(u) \in 1 .. Len(h)
          BY <1>1, <4>3
        <5>4. h[Down(u)] \in Cells /\ h[Down(u)].key # h[j].key
          BY <1>1, <5>2, <5>3 DEF KeysDiffer
        <5>5. Less(h[j], h[Down(u)])
          BY <2>2, <5>1, <5>4, LessIsOrder
        <5>6. Less(h[j], h[i])
          BY <2>2, <4>3, <5>4, <5>5, LessIsOrder
        <5> QED BY <3>1, <5>1, <5>6 DEF u
      <4>5. CASE k # n
        <5>1. k \in 1 .. n - 1
          BY <1>3, <4>5
        <5>2. k + 1 \in 1 .. n /\ p[k + 1] = Down(u) /\ a[u] = h[Down(u)]
          BY ZenonT(60), <1>2, <1>5, <1>9, <4>1, <5>1
        <5>3. i # Down(u)
          BY <2>4, <5>2
        <5> QED BY <3>1, <4>3, <5>2, <5>3 DEF u
      <4> QED BY <4>4, <4>5
    <3> QED BY <3>2, <3>3
  <2> QED BY <2>3, <2>4
<1> QED BY <1>5, <1>6, <1>10 DEF Heap, IsHeap, a, p

\* heap.Fix mends a heap that is broken only around j and loses no entry.
LEMMA FixSifts ==
  ASSUME NEW h \in Seq(Cells), KeysDiffer(h), NEW j \in 1 .. Len(h), FixReady(h, j)
  PROVE  Heap(Fix(h, j)) /\ Len(Fix(h, j)) = Len(h) /\ \A c : Holds(Fix(h, j), c) <=> Holds(h, c)
<1>1. CASE Len(DownPath(h, j)) > 1
  BY <1>1, DownSifts DEF Fix
<1>2. CASE ~(Len(DownPath(h, j)) > 1)
  <2> DEFINE p == DownPath(h, j)
  <2>1. Len(h) \in Nat /\ j \in Nat /\ j >= 1 /\ \A i \in 1 .. Len(h) : h[i] \in Cells
    OBVIOUS
  <2>2. /\ p \in Seq(j .. Len(h)) /\ Len(p) >= 1 /\ p[1] = j
        /\ 2 * p[Len(p)] > Len(h) \/ ~Less(h[SmallerChild(h, p[Len(p)])], h[j])
    BY <2>1, DownPathIs
  <2>3. Len(p) = 1
    <3>1. ~(Len(p) > 1)
      BY <1>2
    <3> HIDE DEF p
    <3>2. Len(p) \in Nat
      BY <2>2, LenProperties
    <3> DEFINE l == Len(p)
    <3>3. l \in Nat /\ l >= 1 /\ ~(l > 1)
      BY <2>2, <3>1, <3>2
    <3> HIDE DEF l
    <3>4. l = 1
      BY <3>3
    <3> QED BY <3>4 DEF l
  <2> HIDE DEF p
  <2>4. 2 * j > Len(h) \/ ~Less(h[SmallerChild(h, j)], h[j])
    BY <2>2, <2>3
  <2>5. ASSUME NEW i \in 2 .. Len(h), i \div 2 = j PROVE Less(h[j], h[i])
    <3> DEFINE s == SmallerChild(h, j)
    <3>1. i = 2 * j \/ i = 2 * j + 1
      BY <2>1, <2>5, Halves
    <3>2. 2 * j <= Len(h)
      BY <2>1, <3>1
    <3>3. s \in 2 .. Len(h) /\ s \div 2 = j /\ (i # s => Less(h[s], h[i]))
      BY <2>5, <3>2, SmallerChildIs
    <3>4. ~Less(h[s], h[j])
      BY <2>1, <2>4, <3>2
    <3> HIDE DEF s
    <3>5. s # j /\ s \in 1 .. Len(h)
      BY <2>1, <3>3, Halves
    <3>6. h[s] \in Cells /\ h[j] \in Cells /\ h[i] \in Cells /\ h[s].key # h[j].key
      BY <2>1, <3>5 DEF KeysDiffer
    <3>7. Less(h[j], h[s])
      BY <3>4, <3>6, LessIsOrder
    <3> QED BY <3>3, <3>6, <3>7, LessIsOrder
  <2>6. UpReady(h, j)
    BY <2>5 DEF UpReady, FixReady
  <2>7. Fix(h, j) = Up(h, j)
    BY <1>2 DEF Fix
  <2> QED BY <2>6, <2>7, UpSifts
<1> QED BY <1>1, <1>2

\* The position of a key.
LEMMA AtIs ==
  ASSUME NEW h \in Seq(Cells), NEW k
  PROVE  /\ k \in KeysIn(h) <=> \E i \in 1 .. Len(h) : h[i].key = k
         /\ k \in KeysIn(h) => At(h, k) \in 1 .. Len(h) /\ h[At(h, k)].key = k
<1>1. DOMAIN h = 1 .. Len(h)
  OBVIOUS
<1>2. k \in KeysIn(h) <=> \E i \in 1 .. Len(h) : h[i].key = k
  BY <1>1 DEF KeysIn
<1>3. At(h, k) = CHOOSE i \in 1 .. Len(h) : h[i].key = k
  BY <1>1 DEF At
<1> QED BY <1>2, <1>3

\* An entry written over another under its key, before it is sifted.
LEMMA ReplaceReady ==
  ASSUME NEW h, Heap(h), NEW j \in 1 .. Len(h), NEW e \in Cells,
         \A i \in 1 .. Len(h) : i # j => h[i].key # e.key
  PROVE  LET w == [h EXCEPT ![j] = e] IN
         /\ w \in Seq(Cells) /\ Len(w) = Len(h) /\ KeysDiffer(w) /\ FixReady(w, j)
         /\ \A i \in 1 .. Len(h) : w[i] = IF i = j THEN e ELSE h[i]
<1> DEFINE w == [h EXCEPT ![j] = e]
<1>1. h \in Seq(Cells) /\ Len(h) \in Nat /\ j \in Nat /\ \A i \in 1 .. Len(h) : h[i] \in Cells
  BY DEF Heap
<1>2. w \in Seq(Cells) /\ Len(w) = Len(h) /\ \A i \in 1 .. Len(h) : w[i] = IF i = j THEN e ELSE h[i]
  BY <1>1, ExceptSeq
<1> HIDE DEF w
<1>3. KeysDiffer(w)
  BY <1>2 DEF KeysDiffer, Heap
<1>4. \A i \in 2 .. Len(h) : i \in 1 .. Len(h) /\ i > 1 /\ i \div 2 \in 1 .. Len(h) /\ i \div 2 < i
  BY <1>1, Halves
<1>5. \A i \in 2 .. Len(h) : Less(h[i \div 2], h[i])
  BY DEF Heap, IsHeap
<1>6. \A i \in 2 .. Len(h) : i # j /\ i \div 2 # j => Less(w[i \div 2], w[i])
  BY <1>2, <1>4, <1>5
<1>7. ASSUME NEW i \in 2 .. Len(h), i \div 2 = j, j > 1 PROVE Less(w[j \div 2], w[i])
  <2>1. j \in 2 .. Len(h) /\ i # j /\ j \div 2 # j /\ j \div 2 \in 1 .. Len(h) /\ i \in 1 .. Len(h)
    BY <1>1, <1>4, <1>7
  <2>2. w[j \div 2] = h[j \div 2] /\ w[i] = h[i]
    BY <1>2, <2>1
  <2>3. Less(h[j \div 2], h[j]) /\ Less(h[j], h[i])
    BY <1>5, <1>7, <2>1
  <2>4. h[j \div 2] \in Cells /\ h[j] \in Cells /\ h[i] \in Cells
    BY <1>1, <2>1
  <2> QED BY <2>2, <2>3, <2>4, LessIsOrder
<1> QED BY <1>2, <1>3, <1>6, <1>7 DEF FixReady, w

\* upsert leaves a heap with the entry in place of the one that had its key.
LEMMA UpsertIs ==
  ASSUME NEW h, Heap(h), NEW e \in Cells
  PROVE  /\ Heap(Upsert(h, e))
         /\ \A c : Holds(Upsert(h, e), c) <=> c = e \/ (Holds(h, c) /\ c.key # e.key)
<1>1. h \in Seq(Cells) /\ Len(h) \in Nat /\ \A i \in 1 .. Len(h) : h[i] \in Cells
  BY DEF Heap
<1>2. CASE e.key \in KeysIn(h)
  <2> DEFINE j == At(h, e.key)
             w == [h EXCEPT ![j] = e]
  <2>1. j \in 1 .. Len(h) /\ h[j].key = e.key
    BY <1>1, <1>2, AtIs
  <2> HIDE DEF j
  <2>2. \A i \in 1 .. Len(h) : i # j => h[i].key # e.key
    BY <2>1 DEF Heap, KeysDiffer
  <2>3. /\ w \in Seq(Cells) /\ Len(w) = Len(h) /\ KeysDiffer(w) /\ FixReady(w, j)
        /\ \A i \in 1 .. Len(h) : w[i] = IF i = j THEN e ELSE h[i]
    BY <2>1, <2>2, ReplaceReady
  <2>4. Upsert(h, e) = Fix(w, j)
    BY <1>2 DEF Upsert, j
  <2> HIDE DEF w
  <2>5. Heap(Fix(w, j)) /\ \A c : Holds(Fix(w, j), c) <=> Holds(w, c)
    BY <2>1, <2>3, FixSifts
  <2>6. ASSUME NEW c PROVE Holds(w, c) <=> c = e \/ (Holds(h, c) /\ c.key # e.key)
    <3>1. ASSUME Holds(w, c) PROVE c = e \/ (Holds(h, c) /\ c.key # e.key)
      BY <2>2, <2>3, <3>1 DEF Holds
    <3>2. ASSUME c = e PROVE Holds(w, c)
      BY <2>1, <2>3, <3>2 DEF Holds
    <3>3. ASSUME Holds(h, c), c.key # e.key PROVE Holds(w, c)
      <4>1. PICK i \in 1 .. Len(h) : h[i] = c
        BY <3>3 DEF Holds
      <4>2. w[i] = c
        BY <2>1, <2>3, <3>3, <4>1
      <4> QED BY <2>3, <4>2 DEF Holds
    <3> QED BY <3>1, <3>2, <3>3
  <2> QED BY <2>4, <2>5, <2>6
<1>3. CASE e.key \notin KeysIn(h)
  <2> DEFINE w == Append(h, e)
             j == Len(h) + 1
  <2>1. w \in Seq(Cells) /\ Len(w) = j /\ (\A i \in 1 .. Len(h) : w[i] = h[i]) /\ w[j] = e
    BY <1>1, AppendProperties
  <2>2. Upsert(h, e) = Up(w, j)
    BY <1>3 DEF Upsert
  <2> HIDE DEF w
  <2>3. \A i \in 1 .. Len(h) : h[i].key # e.key
    BY <1>1, <1>3, AtIs
  <2>4. \A i \in 1 .. j : i = j \/ i \in 1 .. Len(h)
    BY <1>1
  <2>5. KeysDiffer(w)
    <3>1. \A x, y \in 1 .. Len(h) : h[x].key = h[y].key => x = y
      BY DEF Heap, KeysDiffer
    <3> QED BY <2>1, <2>3, <2>4, <3>1 DEF KeysDiffer
  <2>6. j \in 1 .. Len(w) /\ j \in Nat
    BY <1>1, <2>1
  <2>7. ASSUME NEW i \in 2 .. Len(w), i # j PROVE Less(w[i \div 2], w[i])
    <3>1. i \in 2 .. Len(h) /\ i \in 1 .. Len(h) /\ i \div 2 \in 1 .. Len(h)
      BY <1>1, <2>1, <2>7, Halves
    <3>2. Less(h[i \div 2], h[i])
      BY <3>1 DEF Heap, IsHeap
    <3> QED BY <2>1, <3>1, <3>2
  <2>8. \A i \in 2 .. Len(w) : i \div 2 # j
    BY <1>1, <2>1, Halves
  <2>9. UpReady(w, j)
    BY <2>7, <2>8 DEF UpReady
  <2>10. Heap(Up(w, j)) /\ \A c : Holds(Up(w, j), c) <=> Holds(w, c)
    BY <2>1, <2>5, <2>6, <2>9, UpSifts
  <2>11. ASSUME NEW c PROVE Holds(w, c) <=> c = e \/ (Holds(h, c) /\ c.key # e.key)
    <3>1. ASSUME Holds(w, c) PROVE c = e \/ (Holds(h, c) /\ c.key # e.key)
      BY <2>1, <2>3, <2>4, <3>1 DEF Holds
    <3>2. ASSUME c = e PROVE Holds(w, c)
      BY <2>1, <2>6, <3>2 DEF Holds
    <3>3. ASSUME Holds(h, c) PROVE Holds(w, c)
      <4>1. PICK i \in 1 .. Len(h) : h[i] = c
        BY <3>3 DEF Holds
      <4>2. i \in 1 .. Len(w) /\ w[i] = c
        BY <1>1, <2>1, <4>1
      <4> QED BY <4>2 DEF Holds
    <3> QED BY <3>1, <3>2, <3>3
  <2> QED BY <2>2, <2>10, <2>11
<1> QED BY <1>2, <1>3

\* remove leaves a heap without the entry of the key, and with all the others.
LEMMA DeleteIs ==
  ASSUME NEW h, Heap(h), NEW k
  PROVE  /\ Heap(Delete(h, k))
         /\ \A c : Holds(Delete(h, k), c) <=> Holds(h, c) /\ c.key # k
<1>1. h \in Seq(Cells) /\ Len(h) \in Nat /\ \A i \in 1 .. Len(h) : h[i] \in Cells
  BY DEF Heap
<1>2. CASE k \notin KeysIn(h)
  <2>1. Delete(h, k) = h
    BY <1>2 DEF Delete
  <2>2. \A i \in 1 .. Len(h) : h[i].key # k
    BY <1>1, <1>2, AtIs
  <2> QED BY <2>1, <2>2 DEF Holds
<1>3. CASE k \in KeysIn(h)
  <2> DEFINE j == At(h, k)
             n == Len(h)
             w == [h EXCEPT ![j] = h[n]]
             s == SubSeq(w, 1, n - 1)
  <2>1. j \in 1 .. n /\ h[j].key = k
    BY <1>1, <1>3, AtIs
  <2> HIDE DEF j
  <2>2. n \in Nat /\ n >= 1 /\ n \in 1 .. n
    BY <1>1, <2>1
  <2>3. Delete(h, k) = IF j = n THEN s ELSE Fix(s, j)
    BY <1>3 DEF Delete, HeapRemove, Last, j
  <2>4. w \in Seq(Cells) /\ Len(w) = n /\ \A i \in 1 .. n : w[i] = IF i = j THEN h[n] ELSE h[i]
    BY <1>1, <2>1, <2>2, ExceptSeq
  <2> HIDE DEF w
  <2>5. s \in Seq(Cells) /\ Len(s) = n - 1 /\ \A i \in 1 .. n - 1 : s[i] = IF i = j THEN h[n] ELSE h[i]
    <3>1. \A i \in 1 .. n - 1 : i \in 1 .. n
      BY <2>2
    <3>2. \A i \in 1 .. n - 1 : w[i] \in Cells
      BY <2>4, <3>1
    <3>3. s \in Seq(Cells) /\ Len(s) = (IF 1 <= n - 1 THEN (n - 1) - 1 + 1 ELSE 0)
          /\ \A i \in 1 .. (n - 1) - 1 + 1 : s[i] = w[1 + i - 1]
      <4> DEFINE q == n - 1
      <4>1. q \in Int /\ 1 \in Int /\ \A i \in 1 .. q : w[i] \in Cells
        BY <2>2, <3>2
      <4> HIDE DEF q
      <4>2. /\ SubSeq(w, 1, q) \in Seq(Cells) /\ Len(SubSeq(w, 1, q)) = (IF 1 <= q THEN q - 1 + 1 ELSE 0)
            /\ \A i \in 1 .. q - 1 + 1 : SubSeq(w, 1, q)[i] = w[1 + i - 1]
        BY <4>1, SubSeqProperties
      <4> QED BY <4>2 DEF q
    <3> HIDE DEF s, n
    <3>4. Len(s) = n - 1 /\ \A i \in 1 .. n - 1 : s[i] = w[i]
      <4>1. (n - 1) - 1 + 1 = n - 1 /\ (IF 1 <= n - 1 THEN (n - 1) - 1 + 1 ELSE 0) = n - 1
        BY <2>2
      <4>2. \A i \in 1 .. n - 1 : 1 + i - 1 = i
        BY <2>2
      <4> QED BY <3>3, <4>1, <4>2
    <3> QED BY <2>4, <3>1, <3>3, <3>4
  <2> HIDE DEF s
  <2>6. \A x, y \in 1 .. n : h[x].key = h[y].key => x = y
    BY DEF Heap, KeysDiffer
  <2>7. \A i \in 2 .. n : i \in 1 .. n /\ i > 1 /\ i \div 2 \in 1 .. n /\ i \div 2 < i
    BY <2>2, Halves
  <2>8. \A i \in 2 .. n : Less(h[i \div 2], h[i])
    BY DEF Heap, IsHeap
  <2>9. \A i \in 1 .. n - 1 : i \in 1 .. n /\ i # n
    BY <2>2
  <2> HIDE DEF n
  <2>10. KeysDiffer(s)
    BY <2>2, <2>5, <2>6, <2>9 DEF KeysDiffer
  <2>11. ASSUME NEW c PROVE Holds(s, c) <=> Holds(h, c) /\ c.key # k
    <3>1. ASSUME NEW i \in 1 .. n - 1 PROVE Holds(h, s[i]) /\ s[i].key # k
      <4>1. CASE i = j
        <5>1. s[i] = h[n] /\ j # n
          BY <2>5, <2>9, <4>1
        <5> QED BY <2>1, <2>2, <2>6, <5>1 DEF Holds, n
      <4>2. CASE i # j
        <5>1. s[i] = h[i]
          BY <2>5, <4>2
        <5> QED BY <2>1, <2>6, <2>9, <4>2, <5>1 DEF Holds, n
      <4> QED BY <4>1, <4>2
    <3>2. ASSUME NEW i \in 1 .. n, h[i].key # k PROVE Holds(s, h[i])
      <4>1. i # j
        BY <2>1, <3>2
      <4>2. CASE i = n
        <5>1. j \in 1 .. n - 1
          BY <2>1, <2>2, <4>1, <4>2
        <5>2. s[j] = h[i]
          BY <2>5, <4>2, <5>1
        <5> QED BY <2>5, <5>1, <5>2 DEF Holds
      <4>3. CASE i # n
        <5>1. i \in 1 .. n - 1
          BY <2>2, <4>3
        <5>2. s[i] = h[i]
          BY <2>5, <4>1, <5>1
        <5> QED BY <2>5, <5>1, <5>2 DEF Holds
      <4> QED BY <4>2, <4>3
    <3>3. Holds(s, c) => Holds(h, c) /\ c.key # k
      BY <2>5, <3>1 DEF Holds
    <3>4. Holds(h, c) /\ c.key # k => Holds(s, c)
      BY <3>2 DEF Holds, n
    <3> QED BY <3>3, <3>4
  <2>12. \A i \in 2 .. n - 1 : i \in 2 .. n /\ i \in 1 .. n - 1 /\ i \div 2 \in 1 .. n - 1
    BY <2>2, Halves
  <2>13. CASE j = n
    <3>1. \A i \in 1 .. n - 1 : s[i] = h[i]
      BY <2>5, <2>9, <2>13
    <3>2. IsHeap(s)
      BY <2>5, <2>8, <2>12, <3>1 DEF IsHeap
    <3> QED BY <2>3, <2>5, <2>10, <2>11, <2>13, <3>2 DEF Heap
  <2>14. CASE j # n
    <3>1. j \in 1 .. n - 1 /\ j \in Nat
      BY <2>1, <2>2, <2>14
    <3>2. ASSUME NEW i \in 2 .. n - 1, i # j, i \div 2 # j PROVE Less(s[i \div 2], s[i])
      BY <2>5, <2>8, <2>12, <3>2
    <3>3. ASSUME NEW i \in 2 .. n - 1, i \div 2 = j, j > 1 PROVE Less(s[j \div 2], s[i])
      <4>1. j \in 2 .. n - 1 /\ i # j /\ i \in 2 .. n /\ i \in 1 .. n - 1
        BY <2>2, <2>7, <2>12, <3>1, <3>3
      <4>2. j \in 2 .. n /\ j \div 2 \in 1 .. n - 1 /\ j \div 2 \in 1 .. n /\ j \div 2 # j
        BY <2>2, <2>7, <2>12, <4>1
      <4>3. s[j \div 2] = h[j \div 2] /\ s[i] = h[i]
        BY <2>5, <4>1, <4>2
      <4>4. Less(h[j \div 2], h[j]) /\ Less(h[j], h[i])
        BY <2>8, <3>3, <4>1, <4>2
      <4>5. h[j \div 2] \in Cells /\ h[j] \in Cells /\ h[i] \in Cells
        BY <1>1, <2>1, <2>7, <4>1, <4>2 DEF n
      <4> QED BY <4>3, <4>4, <4>5, LessIsOrder
    <3>4. FixReady(s, j)
      BY <2>5, <3>2, <3>3 DEF FixReady
    <3>5. Heap(Fix(s, j)) /\ \A c : Holds(Fix(s, j), c) <=> Holds(s, c)
      BY <2>5, <2>10, <3>1, <3>4, FixSifts
    <3> QED BY <2>3, <2>11, <2>14, <3>5
  <2> QED BY <2>13, <2>14
<1> QED BY <1>2, <1>3

-------------------------------------------------------------------------------
\* Several entries, one after the other.

\* The maximum of a set of places.
LEMMA MaxIs ==
  ASSUME NEW n \in Nat, NEW s \in SUBSET (1 .. n), s # {}
  PROVE  Max(s) \in s /\ \A i \in s : Max(s) >= i
<1> DEFINE S == {k \in Nat : (\E i \in s : i <= k) => \E m \in s : \A i \in s : i <= k => m >= i}
<1>1. 0 \in S
  OBVIOUS
<1>2. ASSUME NEW k \in S PROVE k + 1 \in S
  <2>1. k \in Nat
    OBVIOUS
  <2>2. \A i \in s : i <= k + 1 <=> i <= k \/ i = k + 1
    BY <2>1
  <2>3. CASE k + 1 \in s
    BY <2>1, <2>3
  <2>4. CASE k + 1 \notin s
    <3>1. \A i \in s : i <= k + 1 <=> i <= k
      BY <2>2, <2>4
    <3> QED BY <2>1, <3>1
  <2> QED BY <2>3, <2>4
<1>3. S = Nat
  <2>1. S \in SUBSET Nat
    OBVIOUS
  <2> HIDE DEF S
  <2> QED BY <1>1, <1>2, <2>1, Induction
<1>4. n \in S
  BY <1>3
<1>5. \A i \in s : i \in Nat /\ i <= n
  OBVIOUS
<1>6. \E m \in s : \A i \in s : m >= i
  BY <1>4, <1>5
<1> QED BY <1>6 DEF Max

\* The maximum of an interval, which the fold takes first.
LEMMA MaxOfInterval ==
  ASSUME NEW k \in Nat, k >= 1
  PROVE  Max(1 .. k) = k /\ (1 .. k) \ {k} = 1 .. k - 1
<1>1. (1 .. k) \in SUBSET (1 .. k) /\ 1 .. k # {} /\ k \in 1 .. k
  OBVIOUS
<1>2. Max(1 .. k) \in 1 .. k /\ Max(1 .. k) >= k
  BY <1>1, MaxIs
<1>3. (1 .. k) \ {k} = 1 .. k - 1
  OBVIOUS
<1> QED BY <1>2, <1>3

\* g has the values of a fold of F over the first k entries of a sequence, for every set
\* of places.
FoldTo(g, Y, F, base, seq, k) ==
  /\ g \in [SUBSET (1 .. k) -> Y]
  /\ \A s \in SUBSET (1 .. k) :
       g[s] = IF s = {} THEN base ELSE F[<<g[s \ {Max(s)}], seq[Max(s)]>>]

\* A fold over the first n elements of a sequence exists.
LEMMA FoldExists ==
  ASSUME NEW Y, NEW X, NEW F \in [Y \X X -> Y], NEW base \in Y, NEW n \in Nat,
         NEW seq \in [1 .. n -> X]
  PROVE  \E g : FoldTo(g, Y, F, base, seq, n)
<1> DEFINE Good(g, k) == FoldTo(g, Y, F, base, seq, k)
           S == {k \in Nat : k <= n => \E g : Good(g, k)}
<1>1. 0 \in S
  <2> DEFINE g == [s \in SUBSET (1 .. 0) |-> base]
  <2>1. \A s \in SUBSET (1 .. 0) : s = {}
    OBVIOUS
  <2>2. Good(g, 0)
    BY <2>1 DEF FoldTo
  <2> QED BY <2>2
<1>2. ASSUME NEW k \in S PROVE k + 1 \in S
  <2>1. k \in Nat
    OBVIOUS
  <2> SUFFICES ASSUME k + 1 <= n PROVE \E g : Good(g, k + 1)
    BY <2>1
  <2>2. PICK f : Good(f, k)
    BY <2>1
  <2> DEFINE T == SUBSET (1 .. k)
             U == SUBSET (1 .. k + 1)
             Last1(s) == F[<<f[s \ {k + 1}], seq[k + 1]>>]
             g == [s \in U |-> IF k + 1 \in s THEN Last1(s) ELSE f[s]]
  <2>3. \A s \in U : s \ {k + 1} \in T /\ (k + 1 \notin s => s \in T)
    BY <2>1
  <2>4. \A s \in T : s \in U /\ k + 1 \notin s
    BY <2>1
  <2>5. \A s \in U : k + 1 \in s => Max(s) = k + 1
    <3> SUFFICES ASSUME NEW s \in U, k + 1 \in s PROVE Max(s) = k + 1
      OBVIOUS
    <3>1. k + 1 \in Nat /\ s \in SUBSET (1 .. k + 1) /\ s # {}
      BY <2>1
    <3>2. Max(s) \in s /\ Max(s) >= k + 1
      BY <3>1, MaxIs
    <3>3. Max(s) \in 1 .. k + 1
      BY <3>1, <3>2
    <3> QED BY <2>1, <3>2, <3>3
  <2>6. seq[k + 1] \in X
    BY <2>1
  <2>7. f \in [T -> Y]
    BY <2>2 DEF FoldTo
  <2>8. \A s \in T : f[s] = IF s = {} THEN base ELSE F[<<f[s \ {Max(s)}], seq[Max(s)]>>]
    BY <2>2 DEF FoldTo
  <2>9. \A s \in T : s # {} => s \ {Max(s)} \in T
    OBVIOUS
  <2> HIDE DEF T, U
  <2>10. \A s \in T : g[s] = f[s]
    BY <2>4
  <2>11. \A s \in U : k + 1 \in s => Last1(s) \in Y
    BY <2>3, <2>6, <2>7
  <2>12. g \in [U -> Y]
    BY <2>3, <2>7, <2>11
  <2>13. ASSUME NEW s \in U
         PROVE  g[s] = IF s = {} THEN base ELSE F[<<g[s \ {Max(s)}], seq[Max(s)]>>]
    <3>1. CASE k + 1 \in s
      <4>1. Max(s) = k + 1 /\ s # {} /\ s \ {k + 1} \in T
        BY <2>3, <2>5, <3>1
      <4>2. g[s] = Last1(s)
        BY <3>1
      <4>3. g[s \ {k + 1}] = f[s \ {k + 1}]
        BY <2>10, <4>1
      <4> HIDE DEF g
      <4> QED BY <4>1, <4>2, <4>3
    <3>2. CASE k + 1 \notin s
      <4>1. s \in T /\ g[s] = f[s]
        BY <2>3, <2>10, <3>2
      <4>2. s # {} => g[s \ {Max(s)}] = f[s \ {Max(s)}]
        BY <2>9, <2>10, <4>1
      <4> HIDE DEF g
      <4> QED BY <2>8, <4>1, <4>2
    <3> QED BY <3>1, <3>2
  <2> HIDE DEF g
  <2>14. Good(g, k + 1)
    BY <2>12, <2>13 DEF U, FoldTo
  <2> QED BY <2>14
<1>3. S = Nat
  <2>1. S \in SUBSET Nat
    OBVIOUS
  <2> HIDE DEF S
  <2> QED BY <1>1, <1>2, <2>1, Induction
<1>4. n \in S
  BY <1>3
<1>5. \E g : Good(g, n)
  BY <1>4
<1> QED BY <1>5

\* A finite set is written out as a sequence with every member once.
LEMMA SetToSeqIs ==
  ASSUME NEW S, IsFiniteSet(S)
  PROVE  /\ SetToSeq(S) \in [1 .. Cardinality(S) -> S] /\ Cardinality(S) \in Nat
         /\ \A i, j \in 1 .. Cardinality(S) : SetToSeq(S)[i] = SetToSeq(S)[j] => i = j
         /\ \A x \in S : \E i \in 1 .. Cardinality(S) : SetToSeq(S)[i] = x
<1> DEFINE n == Cardinality(S)
           s == SetToSeq(S)
<1>1. n \in Nat /\ ExistsBijection(1 .. n, S)
  BY FS_CardinalityType
<1>2. PICK f : f \in Bijection(1 .. n, S)
  BY <1>1 DEF ExistsBijection
<1>3. f \in [1 .. n -> S] /\ IsInjective(f)
  BY <1>2 DEF Bijection, Injection
<1>4. s \in [1 .. n -> S] /\ IsInjective(s)
  BY <1>3 DEF SetToSeq
<1> HIDE DEF n, s
<1>5. s \in Injection(1 .. n, S)
  BY <1>4 DEF Injection
<1>6. IsFiniteSet(1 .. n) /\ Cardinality(1 .. n) = n
  BY <1>1, FS_Interval
<1>7. s \in Surjection(1 .. n, S)
  BY <1>5, <1>6, FS_Injection DEF n
<1>8. \A x \in S : \E i \in 1 .. n : s[i] = x
  BY <1>7 DEF Surjection
<1>9. \A i, j \in 1 .. n : s[i] = s[j] => i = j
  BY <1>4 DEF IsInjective
<1> QED BY <1>1, <1>4, <1>8, <1>9 DEF n, s

Heaps == {h \in Seq(Cells) : KeysDiffer(h) /\ IsHeap(h)}

UpsertSteps(f, h, n, seq) ==
  /\ f \in [0 .. n -> Heaps] /\ f[0] = h /\ f[n] = FoldLeft(Upsert, h, seq)
  /\ \A k \in 1 .. n : f[k] = Upsert(f[k - 1], seq[k])

\* FoldLeft(Upsert, ...) goes through the places in order.
LEMMA UpsertsInTurn ==
  ASSUME NEW h \in Heaps, NEW n \in Nat, NEW seq \in [1 .. n -> Cells]
  PROVE  \E f : UpsertSteps(f, h, n, seq)
<1> DEFINE F == [x \in Heaps \X Cells |-> Upsert(x[1], x[2])]
           D == SUBSET (1 .. n)
           Iter(g) == g = [s \in D |-> IF s = {} THEN h ELSE Upsert(g[s \ {Max(s)}], seq[Max(s)])]
           iter == CHOOSE g : Iter(g)
<1>1. \A g \in Heaps, e \in Cells : Upsert(g, e) \in Heaps
  BY UpsertIs DEF Heap, Heaps
<1>2. F \in [Heaps \X Cells -> Heaps]
  BY <1>1
<1>3. \A g \in Heaps, e \in Cells : F[<<g, e>>] = Upsert(g, e)
  OBVIOUS
<1> HIDE DEF F
<1>4. PICK g : FoldTo(g, Heaps, F, h, seq, n)
  BY <1>2, FoldExists
<1>5. \A s \in D : s # {} => s \ {Max(s)} \in D /\ Max(s) \in 1 .. n
  BY MaxIs
<1>6. \A s \in D : g[s] \in Heaps
  BY <1>4 DEF FoldTo
<1>7. \A s \in D : g[s] = IF s = {} THEN h ELSE Upsert(g[s \ {Max(s)}], seq[Max(s)])
  <2> SUFFICES ASSUME NEW s \in D
               PROVE  g[s] = IF s = {} THEN h ELSE Upsert(g[s \ {Max(s)}], seq[Max(s)])
    OBVIOUS
  <2>1. g[s] = IF s = {} THEN h ELSE F[<<g[s \ {Max(s)}], seq[Max(s)]>>]
    BY <1>4 DEF FoldTo
  <2>2. CASE s = {}
    BY <2>1, <2>2
  <2>3. CASE s # {}
    <3>1. g[s \ {Max(s)}] \in Heaps /\ seq[Max(s)] \in Cells
      BY <1>5, <1>6, <2>3
    <3> QED BY <1>3, <2>1, <2>3, <3>1
  <2> QED BY <2>2, <2>3
<1>8. Iter(g)
  <2>1. g \in [D -> Heaps]
    BY <1>4 DEF FoldTo
  <2> HIDE DEF D
  <2> QED BY <1>7, <2>1
<1>9. Iter(iter)
  <2> HIDE DEF Iter
  <2> QED BY <1>8
<1>10. FoldLeft(Upsert, h, seq) = iter[1 .. n]
  <2>1. DOMAIN seq = 1 .. n
    OBVIOUS
  <2> QED BY <2>1 DEF FoldLeft, MapThenFoldSet
<1> HIDE DEF iter
<1>11. \A s \in D : iter[s] = IF s = {} THEN h ELSE Upsert(iter[s \ {Max(s)}], seq[Max(s)])
  <2> HIDE DEF D
  <2> QED BY <1>9
<1> HIDE DEF Iter
<1>12. \A k \in 1 .. n : iter[1 .. k] = Upsert(iter[1 .. k - 1], seq[k])
  <2> SUFFICES ASSUME NEW k \in 1 .. n PROVE iter[1 .. k] = Upsert(iter[1 .. k - 1], seq[k])
    OBVIOUS
  <2>1. (1 .. k) \in D /\ 1 .. k # {} /\ k \in Nat /\ k >= 1
    OBVIOUS
  <2>2. Max(1 .. k) = k /\ (1 .. k) \ {k} = 1 .. k - 1
    BY <2>1, MaxOfInterval
  <2> QED BY <1>11, <2>1, <2>2
<1>13. iter[1 .. 0] = h
  <2>1. 1 .. 0 = {} /\ {} \in D
    OBVIOUS
  <2> QED BY <1>11, <2>1
<1> DEFINE f == [k \in 0 .. n |-> iter[1 .. k]]
           S == {k \in Nat : k <= n => iter[1 .. k] \in Heaps}
<1>14. 0 \in S
  BY <1>13
<1>15. ASSUME NEW k \in S PROVE k + 1 \in S
  <2> SUFFICES ASSUME k + 1 <= n PROVE iter[1 .. k + 1] \in Heaps
    OBVIOUS
  <2>1. k \in Nat /\ k + 1 \in 1 .. n /\ (k + 1) - 1 = k
    OBVIOUS
  <2>2. iter[1 .. k] \in Heaps /\ seq[k + 1] \in Cells
    BY <2>1
  <2>3. iter[1 .. k + 1] = Upsert(iter[1 .. k], seq[k + 1])
    BY <1>12, <2>1
  <2> QED BY <1>1, <2>2, <2>3
<1>16. S = Nat
  <2>1. S \in SUBSET Nat
    OBVIOUS
  <2> HIDE DEF S
  <2> QED BY <1>14, <1>15, <2>1, Induction
<1>17. f \in [0 .. n -> Heaps]
  BY <1>16
<1>18. f[0] = h /\ f[n] = FoldLeft(Upsert, h, seq)
  BY <1>10, <1>13
<1>19. \A k \in 1 .. n : f[k] = Upsert(f[k - 1], seq[k])
  BY <1>12
<1>20. UpsertSteps(f, h, n, seq)
  BY <1>17, <1>18, <1>19 DEF UpsertSteps
<1> QED BY <1>20

DeleteSteps(f, h, n, seq) ==
  /\ f \in [0 .. n -> Heaps] /\ f[0] = h /\ f[n] = FoldLeft(Delete, h, seq)
  /\ \A k \in 1 .. n : f[k] = Delete(f[k - 1], seq[k])

\* FoldLeft(Delete, ...) does too.
LEMMA DeletesInTurn ==
  ASSUME NEW h \in Heaps, NEW ks, NEW n \in Nat, NEW seq \in [1 .. n -> ks]
  PROVE  \E f : DeleteSteps(f, h, n, seq)
<1> DEFINE F == [x \in Heaps \X ks |-> Delete(x[1], x[2])]
           D == SUBSET (1 .. n)
           Iter(g) == g = [s \in D |-> IF s = {} THEN h ELSE Delete(g[s \ {Max(s)}], seq[Max(s)])]
           iter == CHOOSE g : Iter(g)
<1>1. \A g \in Heaps, e \in ks : Delete(g, e) \in Heaps
  BY DeleteIs DEF Heap, Heaps
<1>2. F \in [Heaps \X ks -> Heaps]
  BY <1>1
<1>3. \A g \in Heaps, e \in ks : F[<<g, e>>] = Delete(g, e)
  OBVIOUS
<1> HIDE DEF F
<1>4. PICK g : FoldTo(g, Heaps, F, h, seq, n)
  BY <1>2, FoldExists
<1>5. \A s \in D : s # {} => s \ {Max(s)} \in D /\ Max(s) \in 1 .. n
  BY MaxIs
<1>6. \A s \in D : g[s] \in Heaps
  BY <1>4 DEF FoldTo
<1>7. \A s \in D : g[s] = IF s = {} THEN h ELSE Delete(g[s \ {Max(s)}], seq[Max(s)])
  <2> SUFFICES ASSUME NEW s \in D
               PROVE  g[s] = IF s = {} THEN h ELSE Delete(g[s \ {Max(s)}], seq[Max(s)])
    OBVIOUS
  <2>1. g[s] = IF s = {} THEN h ELSE F[<<g[s \ {Max(s)}], seq[Max(s)]>>]
    BY <1>4 DEF FoldTo
  <2>2. CASE s = {}
    BY <2>1, <2>2
  <2>3. CASE s # {}
    <3>1. g[s \ {Max(s)}] \in Heaps /\ seq[Max(s)] \in ks
      BY <1>5, <1>6, <2>3
    <3> QED BY <1>3, <2>1, <2>3, <3>1
  <2> QED BY <2>2, <2>3
<1>8. Iter(g)
  <2>1. g \in [D -> Heaps]
    BY <1>4 DEF FoldTo
  <2> HIDE DEF D
  <2> QED BY <1>7, <2>1
<1>9. Iter(iter)
  <2> HIDE DEF Iter
  <2> QED BY <1>8
<1>10. FoldLeft(Delete, h, seq) = iter[1 .. n]
  <2>1. DOMAIN seq = 1 .. n
    OBVIOUS
  <2> QED BY <2>1 DEF FoldLeft, MapThenFoldSet
<1> HIDE DEF iter
<1>11. \A s \in D : iter[s] = IF s = {} THEN h ELSE Delete(iter[s \ {Max(s)}], seq[Max(s)])
  <2> HIDE DEF D
  <2> QED BY <1>9
<1> HIDE DEF Iter
<1>12. \A k \in 1 .. n : iter[1 .. k] = Delete(iter[1 .. k - 1], seq[k])
  <2> SUFFICES ASSUME NEW k \in 1 .. n PROVE iter[1 .. k] = Delete(iter[1 .. k - 1], seq[k])
    OBVIOUS
  <2>1. (1 .. k) \in D /\ 1 .. k # {} /\ k \in Nat /\ k >= 1
    OBVIOUS
  <2>2. Max(1 .. k) = k /\ (1 .. k) \ {k} = 1 .. k - 1
    BY <2>1, MaxOfInterval
  <2> QED BY <1>11, <2>1, <2>2
<1>13. iter[1 .. 0] = h
  <2>1. 1 .. 0 = {} /\ {} \in D
    OBVIOUS
  <2> QED BY <1>11, <2>1
<1> DEFINE f == [k \in 0 .. n |-> iter[1 .. k]]
           S == {k \in Nat : k <= n => iter[1 .. k] \in Heaps}
<1>14. 0 \in S
  BY <1>13
<1>15. ASSUME NEW k \in S PROVE k + 1 \in S
  <2> SUFFICES ASSUME k + 1 <= n PROVE iter[1 .. k + 1] \in Heaps
    OBVIOUS
  <2>1. k \in Nat /\ k + 1 \in 1 .. n /\ (k + 1) - 1 = k
    OBVIOUS
  <2>2. iter[1 .. k] \in Heaps /\ seq[k + 1] \in ks
    BY <2>1
  <2>3. iter[1 .. k + 1] = Delete(iter[1 .. k], seq[k + 1])
    BY <1>12, <2>1
  <2> QED BY <1>1, <2>2, <2>3
<1>16. S = Nat
  <2>1. S \in SUBSET Nat
    OBVIOUS
  <2> HIDE DEF S
  <2> QED BY <1>14, <1>15, <2>1, Induction
<1>17. f \in [0 .. n -> Heaps]
  BY <1>16
<1>18. f[0] = h /\ f[n] = FoldLeft(Delete, h, seq)
  BY <1>10, <1>13
<1>19. \A k \in 1 .. n : f[k] = Delete(f[k - 1], seq[k])
  BY <1>12
<1>20. DeleteSteps(f, h, n, seq)
  BY <1>17, <1>18, <1>19 DEF DeleteSteps
<1> QED BY <1>20

\* A batch of upserts, in any order, is the upsert of SQLite.
LEMMA UpsertAllIs ==
  ASSUME NEW h, Heap(h), NEW es \in SUBSET Cells, IsFiniteSet(es),
         \A d, e \in es : d.key = e.key => d = e
  PROVE  /\ Heap(UpsertAll(h, es))
         /\ \A c : Holds(UpsertAll(h, es), c) <=>
                   c \in es \/ (Holds(h, c) /\ \A e \in es : e.key # c.key)
<1> DEFINE n == Cardinality(es)
           s == SetToSeq(es)
<1>1. /\ s \in [1 .. n -> es] /\ n \in Nat
      /\ \A i, j \in 1 .. n : s[i] = s[j] => i = j
      /\ \A x \in es : \E i \in 1 .. n : s[i] = x
  BY SetToSeqIs
<1>2. UpsertAll(h, es) = FoldLeft(Upsert, h, s)
  BY DEF UpsertAll
<1> HIDE DEF n, s
<1>3. s \in [1 .. n -> Cells] /\ h \in Heaps
  BY <1>1 DEF Heap, Heaps
<1>4. PICK f : UpsertSteps(f, h, n, s)
  BY <1>1, <1>3, UpsertsInTurn
<1>5. f[n] = UpsertAll(h, es)
  BY <1>2, <1>4 DEF UpsertSteps
<1> DEFINE New(k, c) == \E i \in 1 .. k : s[i] = c
           Old(k, c) == Holds(h, c) /\ \A i \in 1 .. k : s[i].key # c.key
           S == {k \in Nat : k <= n => \A c : Holds(f[k], c) <=> New(k, c) \/ Old(k, c)}
<1>6. 0 \in S
  BY <1>4 DEF UpsertSteps
<1>7. ASSUME NEW k \in S PROVE k + 1 \in S
  <2> SUFFICES ASSUME k + 1 <= n, NEW c
               PROVE  Holds(f[k + 1], c) <=> New(k + 1, c) \/ Old(k + 1, c)
    OBVIOUS
  <2>1. k \in Nat /\ k + 1 \in 1 .. n /\ (k + 1) - 1 = k /\ k \in 0 .. n
    BY <1>1
  <2>2. Holds(f[k], c) <=> New(k, c) \/ Old(k, c)
    BY <2>1
  <2> DEFINE e == s[k + 1]
  <2>3. f[k + 1] = Upsert(f[k], e) /\ e \in Cells /\ Heap(f[k])
    BY <1>3, <1>4, <2>1 DEF Heap, Heaps, UpsertSteps
  <2>4. Holds(f[k + 1], c) <=> c = e \/ (Holds(f[k], c) /\ c.key # e.key)
    BY <2>3, UpsertIs
  <2>5. New(k, c) => c.key # e.key
    <3> SUFFICES ASSUME NEW i \in 1 .. k, s[i] = c, c.key = e.key PROVE FALSE
      OBVIOUS
    <3>1. i \in 1 .. n /\ i # k + 1
      BY <1>1, <2>1
    <3>2. s[i] \in es /\ e \in es
      BY <1>1, <2>1, <3>1
    <3>3. s[i] = e
      BY <3>2
    <3> QED BY <1>1, <2>1, <3>1, <3>3
  <2>6. \A i \in 1 .. k + 1 : i \in 1 .. k \/ i = k + 1
    BY <2>1
  <2>7. \A i \in 1 .. k : i \in 1 .. k + 1
    BY <2>1
  <2>8. k + 1 \in 1 .. k + 1
    BY <2>1
  <2> HIDE DEF S
  <2>9. New(k + 1, c) <=> New(k, c) \/ c = e
    BY <2>6, <2>7, <2>8
  <2>10. Old(k + 1, c) <=> Old(k, c) /\ e.key # c.key
    BY <2>6, <2>7, <2>8
  <2> HIDE DEF New, Old, e
  <2> QED BY <2>2, <2>4, <2>5, <2>9, <2>10
<1>8. S = Nat
  <2>1. S \in SUBSET Nat
    OBVIOUS
  <2> HIDE DEF S
  <2> QED BY <1>6, <1>7, <2>1, Induction
<1>9. \A c : Holds(f[n], c) <=> New(n, c) \/ Old(n, c)
  <2>1. n \in S /\ n <= n
    BY <1>1, <1>8
  <2> QED BY <2>1
<1>10. \A c : New(n, c) <=> c \in es
  BY <1>1
<1>11. \A c : Old(n, c) <=> Holds(h, c) /\ \A e \in es : e.key # c.key
  BY <1>1
<1>12. n \in 0 .. n
  BY <1>1
<1>13. Heap(f[n])
  BY <1>4, <1>12 DEF Heap, Heaps, UpsertSteps
<1> HIDE DEF New, Old
<1> QED BY <1>5, <1>9, <1>10, <1>11, <1>13

\* A batch of deletes, in any order, removes exactly the entries of its keys.
LEMMA DeleteAllIs ==
  ASSUME NEW h, Heap(h), NEW ks, IsFiniteSet(ks)
  PROVE  /\ Heap(DeleteAll(h, ks))
         /\ \A c : Holds(DeleteAll(h, ks), c) <=> Holds(h, c) /\ c.key \notin ks
<1> DEFINE n == Cardinality(ks)
           s == SetToSeq(ks)
<1>1. /\ s \in [1 .. n -> ks] /\ n \in Nat
      /\ \A x \in ks : \E i \in 1 .. n : s[i] = x
  BY SetToSeqIs
<1>2. DeleteAll(h, ks) = FoldLeft(Delete, h, s)
  BY DEF DeleteAll
<1> HIDE DEF n, s
<1>3. h \in Heaps
  BY DEF Heap, Heaps
<1>4. PICK f : DeleteSteps(f, h, n, s)
  <2>1. s \in [1 .. n -> ks] /\ n \in Nat
    BY <1>1
  <2> QED BY <1>3, <2>1, DeletesInTurn
<1>5. f[n] = DeleteAll(h, ks)
  BY <1>2, <1>4 DEF DeleteSteps
<1> DEFINE Old(k, c) == Holds(h, c) /\ \A i \in 1 .. k : s[i] # c.key
           S == {k \in Nat : k <= n => \A c : Holds(f[k], c) <=> Old(k, c)}
<1>6. 0 \in S
  BY <1>4 DEF DeleteSteps
<1>7. ASSUME NEW k \in S PROVE k + 1 \in S
  <2> SUFFICES ASSUME k + 1 <= n, NEW c
               PROVE  Holds(f[k + 1], c) <=> Old(k + 1, c)
    OBVIOUS
  <2>1. k \in Nat /\ k + 1 \in 1 .. n /\ (k + 1) - 1 = k /\ k \in 0 .. n
    BY <1>1
  <2>2. Holds(f[k], c) <=> Old(k, c)
    BY <2>1
  <2> DEFINE e == s[k + 1]
  <2>3. f[k + 1] = Delete(f[k], e) /\ Heap(f[k])
    BY <1>4, <2>1 DEF Heap, Heaps, DeleteSteps
  <2>4. Holds(f[k + 1], c) <=> Holds(f[k], c) /\ c.key # e
    BY <2>3, DeleteIs
  <2>5. \A i \in 1 .. k + 1 : i \in 1 .. k \/ i = k + 1
    BY <2>1
  <2>6. \A i \in 1 .. k : i \in 1 .. k + 1
    BY <2>1
  <2>7. k + 1 \in 1 .. k + 1
    BY <2>1
  <2> HIDE DEF S
  <2>8. Old(k + 1, c) <=> Old(k, c) /\ e # c.key
    BY <2>5, <2>6, <2>7
  <2> HIDE DEF Old, e
  <2> QED BY <2>2, <2>4, <2>8
<1>8. S = Nat
  <2>1. S \in SUBSET Nat
    OBVIOUS
  <2> HIDE DEF S
  <2> QED BY <1>6, <1>7, <2>1, Induction
<1>9. \A c : Holds(f[n], c) <=> Old(n, c)
  <2>1. n \in S /\ n <= n
    BY <1>1, <1>8
  <2> QED BY <2>1
<1>10. \A c : Old(n, c) <=> Holds(h, c) /\ c.key \notin ks
  BY <1>1
<1>11. n \in 0 .. n
  BY <1>1
<1>12. Heap(f[n])
  BY <1>4, <1>11 DEF Heap, Heaps, DeleteSteps
<1> HIDE DEF Old
<1> QED BY <1>5, <1>9, <1>10, <1>12

-------------------------------------------------------------------------------
\* The memory driver's timers.

RunRecords ==
  [rec : [started : Stamps, closedAt : Stamps \cup {0}, version : Nat, last : Nat],
   events : Seq(Stamps), lastEvent : Stamps]
RunTables == UNION {[S -> RunRecords] : S \in SUBSET Runs}
Reverses == UNION {[S -> SUBSET Nat] : S \in SUBSET Runs}
Mems == [runs : RunTables, heap : Seq(Cells), byRun : Reverses, closed : BOOLEAN]

\* What the assumptions say of the constants.
LEMMA Constants ==
  /\ Runs \subseteq Nat /\ Stamps \subseteq Nat /\ 0 \notin Stamps /\ Deadline \in Stamps
  /\ PageSize \in Nat /\ PageSize >= 1 /\ ScanPageSize \in Nat /\ ScanPageSize >= 1
  /\ TimersPerRun \in Nat /\ TimersPerRun >= 1
BY PersistenceAssumption

\* A run is the quotient of its keys.
LEMMA Quotient ==
  ASSUME NEW d \in Nat, d >= 1, NEW r \in Nat, NEW n \in Nat, n < d
  PROVE  (r * d + n) \div d = r
OBVIOUS

\* The key of a timer names its run.
LEMMA KeyFacts ==
  ASSUME NEW r \in Runs, NEW n \in 1 .. TimersPerRun
  PROVE  TimerKey(r, n) \in Nat /\ Owner(TimerKey(r, n)) = r
<1> DEFINE d == TimersPerRun + 1
<1>1. d \in Nat /\ d >= 1 /\ r \in Nat /\ n \in Nat /\ n < d
  BY Constants
<1> HIDE DEF d
<1>2. (r * d + n) \div d = r /\ r * d + n \in Nat
  BY <1>1, Quotient
<1> QED BY <1>2 DEF TimerKey, Owner, d

\* and, within the run, the timer.
LEMMA KeysOfOneRun ==
  ASSUME NEW r \in Runs, NEW i \in 1 .. TimersPerRun, NEW j \in 1 .. TimersPerRun,
         TimerKey(r, i) = TimerKey(r, j)
  PROVE  i = j
<1> DEFINE b == r * (TimersPerRun + 1)
<1>1. b \in Nat /\ i \in Nat /\ j \in Nat
  BY Constants
<1>2. b + i = b + j
  BY DEF TimerKey
<1> HIDE DEF b
<1> QED BY <1>1, <1>2

-------------------------------------------------------------------------------
\* The indexes, the tables and the writes.

\* The keys of a run's timers.
KeysOf(T, r) == {c.key : c \in {d \in T : Owner(d.key) = r}}

\* The memory driver's heap holds the timers T, its reverse index the keys of each run.
Indexed(m, T) ==
  /\ m \in Mems /\ T \in SUBSET Cells
  /\ Heap(m.heap) /\ \A c : Holds(m.heap, c) <=> c \in T
  /\ \A r \in Runs : ByRun(m, r) = KeysOf(T, r)
  /\ \A r \in DOMAIN m.byRun : m.byRun[r] # {}
  /\ \A c \in T : Owner(c.key) \in Runs

\* A run's entry is replaced, and removed when nothing is left of it.
LEMMA WithByRunIs ==
  ASSUME NEW m \in Mems, NEW r \in Runs, NEW S \in SUBSET Nat, NEW n,
         n.byRun = WithByRun(m, r, S),
         \A x \in DOMAIN m.byRun : m.byRun[x] # {}
  PROVE  /\ n.byRun \in Reverses
         /\ \A x \in DOMAIN n.byRun : n.byRun[x] # {}
         /\ \A x \in Runs : ByRun(n, x) = IF x = r THEN S ELSE ByRun(m, x)
<1>1. PICK D \in SUBSET Runs : m.byRun \in [D -> SUBSET Nat]
  BY DEF Mems, Reverses
<1>2. CASE S = {}
  <2>1. n.byRun = [x \in D \ {r} |-> m.byRun[x]]
    BY <1>1, <1>2 DEF WithByRun
  <2>2. n.byRun \in [D \ {r} -> SUBSET Nat] /\ D \ {r} \in SUBSET Runs
    BY <1>1, <2>1
  <2>3. n.byRun \in Reverses
    BY <2>2 DEF Reverses
  <2> QED BY <1>1, <1>2, <2>1, <2>3 DEF ByRun
<1>3. CASE S # {}
  <2>1. n.byRun = [x \in D \cup {r} |-> IF x = r THEN S ELSE m.byRun[x]]
    BY <1>1, <1>3 DEF WithByRun
  <2>2. n.byRun \in [D \cup {r} -> SUBSET Nat] /\ D \cup {r} \in SUBSET Runs
    BY <1>1, <2>1
  <2>3. n.byRun \in Reverses
    BY <2>2 DEF Reverses
  <2> QED BY <1>1, <1>3, <2>1, <2>3 DEF ByRun
<1> QED BY <1>2, <1>3

\* The heap becomes h, the entry of r in the reverse index S.
Reindexed(n, m, h, r, S) == n = [m EXCEPT !.heap = h, !.byRun = WithByRun(m, r, S)]

\* An index that changed in its heap and in the entry of one run.
LEMMA IndexedAgain ==
  ASSUME NEW m, NEW T, Indexed(m, T), NEW r \in Runs, NEW S \in SUBSET Nat, NEW n, NEW h,
         Reindexed(n, m, h, r, S),
         Heap(h), NEW U \in SUBSET Cells, \A c : Holds(h, c) <=> c \in U,
         S = KeysOf(U, r), \A x \in Runs : x # r => KeysOf(U, x) = KeysOf(T, x),
         \A c \in U : Owner(c.key) \in Runs
  PROVE  Indexed(n, U) /\ n.runs = m.runs /\ n.closed = m.closed
<1>1. m \in Mems /\ \A x \in DOMAIN m.byRun : m.byRun[x] # {}
  BY DEF Indexed
<1>2. n.heap = h /\ n.byRun = WithByRun(m, r, S) /\ n.runs = m.runs /\ n.closed = m.closed
  BY <1>1 DEF Mems, Reindexed
<1>3. /\ n.byRun \in Reverses
      /\ \A x \in DOMAIN n.byRun : n.byRun[x] # {}
      /\ \A x \in Runs : ByRun(n, x) = IF x = r THEN S ELSE ByRun(m, x)
  BY <1>1, <1>2, WithByRunIs
<1>4. h \in Seq(Cells)
  BY DEF Heap
<1>5. n \in Mems
  BY <1>1, <1>2, <1>3, <1>4 DEF Mems, Reindexed
<1>6. \A x \in Runs : ByRun(n, x) = KeysOf(U, x)
  BY <1>3 DEF Indexed
<1> QED BY <1>2, <1>3, <1>5, <1>6 DEF Indexed

\* upsertTimer keeps heap and reverse index in step with the rows.
LEMMA UpsertTimersIs ==
  ASSUME NEW m, NEW T, Indexed(m, T), NEW r \in Runs, NEW es \in SUBSET Cells,
         IsFiniteSet(es), \A d, e \in es : d.key = e.key => d = e,
         \A e \in es : Owner(e.key) = r
  PROVE  /\ Indexed(UpsertTimers(m, r, es), UpsertRows(T, es))
         /\ UpsertTimers(m, r, es).runs = m.runs /\ UpsertTimers(m, r, es).closed = m.closed
<1> DEFINE n == UpsertTimers(m, r, es)
           U == UpsertRows(T, es)
           h == UpsertAll(m.heap, es)
           S == ByRun(m, r) \cup {e.key : e \in es}
<1>1. m \in Mems /\ T \in SUBSET Cells /\ Heap(m.heap)
  BY DEF Indexed
<1>2. h = UpsertAll(m.heap, es) /\ Reindexed(n, m, h, r, S)
  BY <1>1 DEF Reindexed, UpsertTimers, Mems
<1>3. /\ Heap(h)
      /\ \A c : Holds(h, c) <=> c \in es \/ (Holds(m.heap, c) /\ \A e \in es : e.key # c.key)
  BY <1>1, <1>2, UpsertAllIs
<1> HIDE DEF n, h
<1>4. U \in SUBSET Cells /\ \A c : Holds(h, c) <=> c \in U
  BY <1>1, <1>3 DEF UpsertRows, Indexed
<1>5. S = KeysOf(U, r)
  <2>1. ByRun(m, r) = KeysOf(T, r)
    BY DEF Indexed
  <2>2. \A k : k \in KeysOf(T, r) <=> \E c \in T : Owner(c.key) = r /\ c.key = k
    BY DEF KeysOf
  <2>3. \A k : k \in KeysOf(U, r) <=> \E c \in U : Owner(c.key) = r /\ c.key = k
    BY DEF KeysOf
  <2>4. \A c : c \in U <=> (c \in es \/ (c \in T /\ \A f \in es : f.key # c.key))
    BY DEF UpsertRows
  <2>5. \A k : k \in S <=> (k \in KeysOf(T, r) \/ \E e \in es : e.key = k)
    BY <2>1
  <2> HIDE DEF S, U
  <2>6. \A k : k \in S <=> k \in KeysOf(U, r)
    BY <2>2, <2>3, <2>4, <2>5
  <2> QED BY <2>6
<1>6. \A x \in Runs : x # r => KeysOf(U, x) = KeysOf(T, x)
  BY DEF KeysOf, UpsertRows
<1>7. \A c \in U : Owner(c.key) \in Runs
  BY DEF UpsertRows, Indexed
<1>8. S \in SUBSET Nat
  <2>1. \A c \in U : c.key \in Nat
    BY <1>4 DEF Cells
  <2> QED BY <1>5, <2>1 DEF KeysOf
<1> HIDE DEF S, U
<1>9. Indexed(n, U) /\ n.runs = m.runs /\ n.closed = m.closed
  BY <1>2, <1>3, <1>4, <1>5, <1>6, <1>7, <1>8, IndexedAgain
<1> QED BY <1>9 DEF n, U

\* The timers left when those of the keys ks are gone.
Kept(T, ks) == {c \in T : c.key \notin ks}

\* So does deleting timers of the run.
LEMMA RemoveTimersIs ==
  ASSUME NEW m, NEW T, Indexed(m, T), NEW r \in Runs, NEW ks, IsFiniteSet(ks),
         \A k \in ks : Owner(k) = r
  PROVE  /\ Indexed(RemoveTimers(m, r, ks), Kept(T, ks))
         /\ RemoveTimers(m, r, ks).runs = m.runs /\ RemoveTimers(m, r, ks).closed = m.closed
<1> DEFINE n == RemoveTimers(m, r, ks)
           U == {c \in T : c.key \notin ks}
           h == DeleteAll(m.heap, ks)
           S == ByRun(m, r) \ ks
<1>1. m \in Mems /\ T \in SUBSET Cells /\ Heap(m.heap)
  BY DEF Indexed
<1>2. h = DeleteAll(m.heap, ks) /\ Reindexed(n, m, h, r, S)
  BY <1>1 DEF Reindexed, RemoveTimers, Mems
<1>3. /\ Heap(h)
      /\ \A c : Holds(h, c) <=> Holds(m.heap, c) /\ c.key \notin ks
  BY <1>1, <1>2, DeleteAllIs
<1> HIDE DEF n, h
<1>4. U \in SUBSET Cells /\ \A c : Holds(h, c) <=> c \in U
  BY <1>1, <1>3 DEF Indexed
<1>5. S = KeysOf(U, r)
  <2>1. ByRun(m, r) = KeysOf(T, r)
    BY DEF Indexed
  <2> QED BY <2>1 DEF KeysOf
<1>6. \A x \in Runs : x # r => KeysOf(U, x) = KeysOf(T, x)
  BY DEF KeysOf
<1>7. \A c \in U : Owner(c.key) \in Runs
  BY DEF Indexed
<1>8. S \in SUBSET Nat
  <2>1. \A c \in U : c.key \in Nat
    BY <1>4 DEF Cells
  <2> QED BY <1>5, <2>1 DEF KeysOf
<1> HIDE DEF S, U
<1>9. Indexed(n, U) /\ n.runs = m.runs /\ n.closed = m.closed
  BY <1>2, <1>3, <1>4, <1>5, <1>6, <1>7, <1>8, IndexedAgain
<1> QED BY <1>9 DEF n, U, Kept

\* dropRunTimers, which trusts the reverse index, removes every timer of the run.
LEMMA DropRunTimersIs ==
  ASSUME NEW m, NEW T, Indexed(m, T), NEW r \in Runs
  PROVE  /\ Indexed(DropRunTimers(m, r), DropRunRows(T, r))
         /\ DropRunTimers(m, r).runs = m.runs /\ DropRunTimers(m, r).closed = m.closed
<1> DEFINE n == DropRunTimers(m, r)
           U == DropRunRows(T, r)
           S == {}
           ks == ByRun(m, r)
           h == DeleteAll(m.heap, ks)
<1>1. m \in Mems /\ T \in SUBSET Cells /\ Heap(m.heap) /\ ks = KeysOf(T, r)
  BY DEF Indexed
<1>2. h = DeleteAll(m.heap, ks) /\ Reindexed(n, m, h, r, S)
  BY <1>1 DEF Reindexed, DropRunTimers, Mems
<1>3. IsFiniteSet(ks)
  <2> DEFINE g == m.heap
             I == 1 .. Len(g)
             K == {g[i].key : i \in I}
  <2>1. Len(g) \in Nat
    BY <1>1 DEF Heap
  <2>2. IsFiniteSet(I)
    BY <2>1, FS_Interval
  <2> HIDE DEF I
  <2>3. IsFiniteSet(K)
    <3> DEFINE f == [i \in I |-> g[i].key]
    <3>1. f \in Surjection(I, K)
      BY DEF Surjection
    <3> QED BY <2>2, <3>1, FS_Surjection
  <2>4. \A k \in ks : \E c : c \in T /\ c.key = k
    BY <1>1 DEF KeysOf
  <2>5. \A c \in T : \E i \in I : g[i] = c
    BY DEF Indexed, Holds, I
  <2>6. ks \in SUBSET K
    BY <2>4, <2>5
  <2> QED BY <2>3, <2>6, FS_Subset
<1>4. /\ Heap(h)
      /\ \A c : Holds(h, c) <=> Holds(m.heap, c) /\ c.key \notin ks
  BY <1>1, <1>2, <1>3, DeleteAllIs
<1> HIDE DEF n, h
<1>5. \A c \in T : c.key \in ks <=> Owner(c.key) = r
  BY <1>1 DEF KeysOf
<1> HIDE DEF ks
<1>6. U \in SUBSET Cells /\ \A c : Holds(h, c) <=> c \in U
  BY <1>1, <1>4, <1>5 DEF Indexed, DropRunRows
<1>7. S = KeysOf(U, r)
  BY DEF KeysOf, DropRunRows
<1>8. \A x \in Runs : x # r => KeysOf(U, x) = KeysOf(T, x)
  BY DEF KeysOf, DropRunRows
<1>9. \A c \in U : Owner(c.key) \in Runs
  BY DEF Indexed, DropRunRows
<1>10. S \in SUBSET Nat
  OBVIOUS
<1> HIDE DEF S, U
<1>11. Indexed(n, U) /\ n.runs = m.runs /\ n.closed = m.closed
  BY <1>2, <1>4, <1>6, <1>7, <1>8, <1>9, <1>10, IndexedAgain
<1> QED BY <1>11 DEF n, U

-------------------------------------------------------------------------------
\* The same runs in both drivers.

Rows ==
  [run : Runs, started : Stamps, closedAt : Stamps \cup {0}, version : Nat, last : Nat,
   lastTime : Stamps]
Logs == SUBSET (Runs \X Nat \X Stamps)

\* The row of a run record.
RowOf(r, x) ==
  [run |-> r, started |-> x.rec.started, closedAt |-> x.rec.closedAt,
   version |-> x.rec.version, last |-> x.rec.last, lastTime |-> x.lastEvent]

\* The tables X and E hold the runs R: a row for each, and the events of each by number.
Tables(R, X, E) ==
  /\ R \in RunTables /\ X \in SUBSET Rows /\ E \in Logs
  /\ IsFiniteSet(DOMAIN R)
  /\ X = {RowOf(r, R[r]) : r \in DOMAIN R}
  /\ \A r \in DOMAIN R : Len(R[r].events) = R[r].rec.last
  /\ \A r, i, t : <<r, i, t>> \in E <=>
       r \in DOMAIN R /\ i \in 1 .. Len(R[r].events) /\ t = R[r].events[i]

\* A run in the table.
LEMMA RunIs ==
  ASSUME NEW R \in RunTables, NEW r \in DOMAIN R
  PROVE  r \in Runs /\ R[r] \in RunRecords /\ R[r].events \in Seq(Stamps)
BY DEF RunTables, RunRecords

\* SQLite finds the row of a run, and it says what the memory driver holds.
LEMMA RowIs ==
  ASSUME NEW R, NEW s, Tables(R, s.executions, s.events), NEW r
  PROVE  /\ HasRow(s, r) <=> r \in DOMAIN R
         /\ r \in DOMAIN R => Row(s, r) = RowOf(r, R[r])
<1>1. s.executions = {RowOf(x, R[x]) : x \in DOMAIN R}
  BY DEF Tables
<1>2. \A e \in s.executions : e.run \in DOMAIN R /\ e = RowOf(e.run, R[e.run])
  BY <1>1 DEF RowOf
<1>3. \A x \in DOMAIN R : RowOf(x, R[x]) \in s.executions /\ RowOf(x, R[x]).run = x
  BY <1>1 DEF RowOf
<1>4. HasRow(s, r) <=> r \in DOMAIN R
  BY <1>2, <1>3 DEF HasRow
<1>5. ASSUME r \in DOMAIN R PROVE Row(s, r) = RowOf(r, R[r])
  <2>1. \E e \in s.executions : e.run = r
    BY <1>3, <1>5
  <2>2. Row(s, r) \in s.executions /\ Row(s, r).run = r
    BY <2>1 DEF Row
  <2> QED BY <1>2, <2>2
<1> QED BY <1>4, <1>5

\* The runs R with x for r.
WithRun(R, r, x) == [y \in DOMAIN R \cup {r} |-> IF y = r THEN x ELSE R[y]]

\* The table with one run written.
LEMMA WithRunIs ==
  ASSUME NEW R \in RunTables, NEW r \in Runs, NEW x \in RunRecords
  PROVE  /\ WithRun(R, r, x) \in RunTables
         /\ DOMAIN WithRun(R, r, x) = DOMAIN R \cup {r}
         /\ WithRun(R, r, x)[r] = x
         /\ \A y \in DOMAIN R : y # r => WithRun(R, r, x)[y] = R[y]
<1>1. PICK D \in SUBSET Runs : R \in [D -> RunRecords]
  BY DEF RunTables
<1>2. WithRun(R, r, x) \in [D \cup {r} -> RunRecords] /\ D \cup {r} \in SUBSET Runs
  BY <1>1 DEF WithRun
<1>3. WithRun(R, r, x) \in RunTables
  BY <1>2 DEF RunTables
<1> QED BY <1>1, <1>3 DEF WithRun

RowsWith(X, r, x) == {e \in X : e.run # r} \cup {RowOf(r, x)}

\* The events F are E, but for r those of x.
LogWith(F, E, r, x) ==
  /\ \A y, i, t : y # r => (<<y, i, t>> \in F <=> <<y, i, t>> \in E)
  /\ \A i, t : <<r, i, t>> \in F <=> i \in 1 .. Len(x.events) /\ t = x.events[i]

\* Replacing a run's row, or adding it, and its new events.
LEMMA TablesWith ==
  ASSUME NEW R, NEW X, NEW E, Tables(R, X, E), NEW r \in Runs, NEW x \in RunRecords,
         Len(x.events) = x.rec.last,
         NEW F \in Logs, LogWith(F, E, r, x)
  PROVE  Tables(WithRun(R, r, x), RowsWith(X, r, x), F)
<1> DEFINE Q == WithRun(R, r, x)
           Y == RowsWith(X, r, x)
<1>1. R \in RunTables /\ X \in SUBSET Rows /\ IsFiniteSet(DOMAIN R)
      /\ X = {RowOf(y, R[y]) : y \in DOMAIN R}
  BY DEF Tables
<1>2. /\ Q \in RunTables /\ DOMAIN Q = DOMAIN R \cup {r} /\ Q[r] = x
      /\ \A y \in DOMAIN R : y # r => Q[y] = R[y]
  BY <1>1, WithRunIs
<1> HIDE DEF Q, Y
<1>3. IsFiniteSet(DOMAIN Q)
  BY <1>1, <1>2, FS_AddElement
<1>4. RowOf(r, x) \in Rows
  BY DEF RowOf, Rows, RunRecords
<1>5. \A y, z : RowOf(y, z).run = y
  BY DEF RowOf
<1>6. Y = {RowOf(y, Q[y]) : y \in DOMAIN Q}
  <2>1. \A e : e \in Y <=> (e \in X /\ e.run # r) \/ e = RowOf(r, x)
    BY DEF Y, RowsWith
  <2>2. \A e : e \in X <=> \E y \in DOMAIN R : e = RowOf(y, R[y])
    BY <1>1
  <2>3. \A e : e \in Y <=> \E y \in DOMAIN Q : e = RowOf(y, Q[y])
    BY <1>2, <1>5, <2>1, <2>2
  <2> QED BY <2>3
<1>7. \A y \in DOMAIN Q : Len(Q[y].events) = Q[y].rec.last
  BY <1>2 DEF Tables
<1>8. \A y, i, t : <<y, i, t>> \in F <=>
        y \in DOMAIN Q /\ i \in 1 .. Len(Q[y].events) /\ t = Q[y].events[i]
  <2>1. \A y, i, t : <<y, i, t>> \in E <=>
          y \in DOMAIN R /\ i \in 1 .. Len(R[y].events) /\ t = R[y].events[i]
    BY DEF Tables
  <2> TAKE y, i, t
  <2>2. CASE y = r
    BY <1>2, <2>2 DEF LogWith
  <2>3. CASE y # r
    BY <1>2, <2>1, <2>3 DEF LogWith
  <2> QED BY <2>2, <2>3
<1>9. Y \in SUBSET Rows
  BY <1>1, <1>4 DEF Y, RowsWith
<1> QED BY <1>2, <1>3, <1>6, <1>7, <1>8, <1>9 DEF Tables, Q, Y

\* A new run keeps the tables in step (CreateExecution).
LEMMA TablesCreate ==
  ASSUME NEW R, NEW X, NEW E, Tables(R, X, E), NEW r \in Runs, r \notin DOMAIN R,
         NEW at \in Stamps
  PROVE  Tables(WithRun(R, r, NewRun(at)), X \cup {NewRow(r, at)}, InsertEvents(E, r, 1, <<at>>))
<1> DEFINE x == NewRun(at)
           F == InsertEvents(E, r, 1, <<at>>)
           Y == X \cup {NewRow(r, at)}
<1>1. x \in RunRecords /\ x.events = <<at>> /\ Len(x.events) = 1 /\ x.rec.last = 1
  BY Constants DEF NewRun, RunRecords
<1>2. NewRow(r, at) = RowOf(r, x)
  BY DEF NewRow, RowOf, NewRun
<1>3. X = {e \in X : e.run # r}
  <2>1. \A e \in X : e.run \in DOMAIN R
    BY DEF Tables, RowOf
  <2> QED BY <2>1
<1>4. F = E \cup {<<r, 1, at>>}
  <2> DEFINE s == <<at>>
  <2>1. DOMAIN s = {1} /\ s[1] = at
    OBVIOUS
  <2>2. {<<r, 1 + i - 1, s[i]>> : i \in DOMAIN s} = {<<r, 1, at>>}
    BY <2>1
  <2> QED BY <2>2 DEF InsertEvents
<1>5. \A i, t : <<r, i, t>> \notin E
  BY DEF Tables
<1> HIDE DEF x, F
<1>6. F \in Logs
  BY <1>4 DEF Tables, Logs
<1>7. \A y, i, t : y # r => (<<y, i, t>> \in F <=> <<y, i, t>> \in E)
  BY <1>4
<1>8. \A i, t : <<r, i, t>> \in F <=> i \in 1 .. Len(x.events) /\ t = x.events[i]
  BY <1>1, <1>4, <1>5
<1>9. Y = RowsWith(X, r, x) /\ LogWith(F, E, r, x)
  BY <1>2, <1>3, <1>7, <1>8 DEF RowsWith, LogWith
<1> HIDE DEF Y
<1>10. Len(x.events) = x.rec.last
  BY <1>1
<1>11. Tables(WithRun(R, r, x), Y, F)
  BY <1>1, <1>6, <1>9, <1>10, TablesWith
<1> QED BY <1>11 DEF x, Y, F

\* The calls of AppendHistory.
Calls ==
  [run : Runs, version : Int, first : Int, events : Seq(Stamps), closes : BOOLEAN,
   delete : SUBSET (1 .. TimersPerRun), upsert : SUBSET [n : 1 .. TimersPerRun, at : Stamps],
   timersOf : Nat]

\* The time of the last event and the run record after a call.
LastAfter(x, q) == IF Len(q.events) = 0 THEN x.lastEvent ELSE q.events[Len(q.events)]
RecAfter(x, q) ==
  MutableFields([x.rec EXCEPT !.version = @ + 1,
                              !.last = IF Len(q.events) = 0 THEN @ ELSE q.first + Len(q.events) - 1],
                q.closes, LastAfter(x, q))
RunAfter(x, q) ==
  [rec |-> RecAfter(x, q), events |-> x.events \o q.events, lastEvent |-> LastAfter(x, q)]

Continues(x, q) == Len(q.events) > 0 => q.first = x.rec.last + 1

\* The run after a batch is what SQLite writes into the row (MutableFields, NextRow).
LEMMA RunAfterIs ==
  ASSUME NEW r \in Runs, NEW x \in RunRecords, NEW q \in Calls, Continues(x, q),
         Len(x.events) = x.rec.last
  PROVE  /\ RunAfter(x, q) \in RunRecords
         /\ RowOf(r, RunAfter(x, q)) = NextRow(RowOf(r, x), q)
         /\ Len(RunAfter(x, q).events) = RunAfter(x, q).rec.last
         /\ RunAfter(x, q).rec.started = x.rec.started
         /\ RunAfter(x, q).rec.closedAt = 0 => x.rec.closedAt = 0
         /\ x.rec.closedAt = 0 /\ ~q.closes => RunAfter(x, q).rec.closedAt = 0
<1> DEFINE n == Len(q.events)
           l == LastAfter(x, q)
           v == RecAfter(x, q)
<1>1. /\ q.events \in Seq(Stamps) /\ x.events \in Seq(Stamps) /\ n \in Nat
      /\ q.closes \in BOOLEAN /\ q.first \in Int
  BY DEF Calls, RunRecords
<1>2. l \in Stamps
  <2>1. CASE n = 0
    BY <2>1 DEF LastAfter, RunRecords
  <2>2. CASE n # 0
    <3>1. n \in 1 .. n
      BY <1>1, <2>2
    <3>2. q.events[n] \in Stamps
      BY <1>1, <3>1, ElementOfSeq
    <3> QED BY <2>2, <3>2 DEF LastAfter
  <2> QED BY <2>1, <2>2
<1>3. /\ x.rec \in [started : Stamps, closedAt : Stamps \cup {0}, version : Nat, last : Nat]
      /\ x.lastEvent \in Stamps
  BY DEF RunRecords
<1> DEFINE both == x.events \o q.events
           k == x.rec.last
           last == IF n = 0 THEN k ELSE q.first + n - 1
<1>4. both \in Seq(Stamps) /\ Len(both) = k + n
  <2> DEFINE a == x.events
             b == q.events
  <2>1. a \in Seq(Stamps) /\ b \in Seq(Stamps) /\ Len(a) = k /\ Len(b) = n
    BY <1>1
  <2> HIDE DEF a, b, n, k
  <2>2. a \o b \in Seq(Stamps) /\ Len(a \o b) = Len(a) + Len(b)
    BY <2>1, ConcatProperties
  <2> QED BY <2>1, <2>2 DEF a, b
<1>5. last = k + n /\ last \in Nat
  <2>1. k \in Nat /\ n \in Nat /\ q.first \in Int /\ (n > 0 => q.first = k + 1)
    BY <1>1, <1>3 DEF Continues
  <2> HIDE DEF k, n
  <2> QED BY <2>1
<1>6. v = [started |-> x.rec.started,
           closedAt |-> IF x.rec.closedAt = 0 /\ q.closes THEN l ELSE x.rec.closedAt,
           version |-> x.rec.version + 1, last |-> last]
  BY <1>3 DEF RecAfter, MutableFields
<1> HIDE DEF v, l, last, both, k
<1>7. v \in [started : Stamps, closedAt : Stamps \cup {0}, version : Nat, last : Nat]
  BY <1>2, <1>3, <1>5, <1>6
<1>8. RunAfter(x, q) = [rec |-> v, events |-> both, lastEvent |-> l]
  BY DEF RunAfter, v, l, both
<1>9. RunAfter(x, q) \in RunRecords
  BY <1>2, <1>4, <1>7, <1>8 DEF RunRecords
<1>10. Len(RunAfter(x, q).events) = RunAfter(x, q).rec.last
  BY <1>4, <1>5, <1>6, <1>8
<1>11. /\ RunAfter(x, q).rec.started = x.rec.started
       /\ RunAfter(x, q).rec.closedAt = 0 => x.rec.closedAt = 0
       /\ x.rec.closedAt = 0 /\ ~q.closes => RunAfter(x, q).rec.closedAt = 0
  BY <1>2, <1>6, <1>8, Constants
<1>12. RowOf(r, RunAfter(x, q)) =
         [run |-> r, started |-> x.rec.started,
          closedAt |-> IF x.rec.closedAt = 0 /\ q.closes THEN l ELSE x.rec.closedAt,
          version |-> x.rec.version + 1, last |-> last, lastTime |-> l]
  BY <1>6, <1>8 DEF RowOf
<1>13. NextRow(RowOf(r, x), q) =
         [run |-> r, started |-> x.rec.started,
          closedAt |-> IF x.rec.closedAt = 0 /\ q.closes THEN l ELSE x.rec.closedAt,
          version |-> x.rec.version + 1, last |-> last, lastTime |-> l]
  <2> DEFINE w == RowOf(r, x)
             next == [w EXCEPT !.version = @ + 1, !.last = IF n > 0 THEN q.first + n - 1 ELSE @,
                               !.lastTime = IF n > 0 THEN q.events[n] ELSE @]
  <2>1. n > 0 <=> n # 0
    BY <1>1
  <2>2. /\ w.closedAt = x.rec.closedAt
        /\ w = [run |-> r, started |-> x.rec.started, closedAt |-> x.rec.closedAt,
                version |-> x.rec.version, last |-> x.rec.last, lastTime |-> x.lastEvent]
    BY DEF RowOf
  <2>3. NextRow(w, q) =
          [next EXCEPT !.closedAt = IF w.closedAt = 0 /\ q.closes THEN next.lastTime ELSE @]
    BY DEF NextRow
  <2>4. next = [run |-> r, started |-> x.rec.started, closedAt |-> x.rec.closedAt,
                version |-> x.rec.version + 1, last |-> last, lastTime |-> l]
    <3> HIDE DEF w
    <3>1. (IF n > 0 THEN q.first + n - 1 ELSE x.rec.last) = last
      BY <2>1 DEF last, k
    <3>2. (IF n > 0 THEN q.events[n] ELSE x.lastEvent) = l
      BY <2>1 DEF l, LastAfter
    <3> HIDE DEF n
    <3>3. w.last = x.rec.last /\ w.lastTime = x.lastEvent /\ w.version = x.rec.version
      BY <2>2
    <3>4. next = [w EXCEPT !.version = x.rec.version + 1, !.last = last, !.lastTime = l]
      BY <3>1, <3>2, <3>3
    <3> HIDE DEF next
    <3> QED BY <2>2, <3>4
  <2> HIDE DEF next, w
  <2> QED BY <2>2, <2>3, <2>4 DEF w
<1> QED BY <1>9, <1>10, <1>11, <1>12, <1>13

\* A batch that continues the log keeps the tables in step (AppendHistory).
LEMMA TablesAppend ==
  ASSUME NEW R, NEW X, NEW E, Tables(R, X, E), NEW q \in Calls, q.run \in DOMAIN R,
         Continues(R[q.run], q)
  PROVE  Tables(WithRun(R, q.run, RunAfter(R[q.run], q)),
                (X \ {RowOf(q.run, R[q.run])}) \cup {NextRow(RowOf(q.run, R[q.run]), q)},
                InsertEvents(E, q.run, q.first, q.events))
<1> DEFINE r == q.run
           x == R[r]
           y == RunAfter(x, q)
           F == InsertEvents(E, r, q.first, q.events)
           n == Len(q.events)
           k == Len(x.events)
<1>1. R \in RunTables /\ Len(x.events) = x.rec.last
  BY DEF Tables
<1>2. r \in Runs /\ x \in RunRecords /\ x.events \in Seq(Stamps)
  BY <1>1, RunIs
<1>3. /\ y \in RunRecords /\ RowOf(r, y) = NextRow(RowOf(r, x), q)
      /\ Len(y.events) = y.rec.last
  BY <1>1, <1>2, RunAfterIs
<1>4. y.events = x.events \o q.events
  BY DEF RunAfter
<1>5. q.events \in Seq(Stamps) /\ n \in Nat /\ k \in Nat /\ DOMAIN q.events = 1 .. n
  BY <1>2 DEF Calls
<1>6. /\ Len(y.events) = k + n
      /\ \A i \in 1 .. k + n : y.events[i] = IF i <= k THEN x.events[i] ELSE q.events[i - k]
  <2> DEFINE a == x.events
             b == q.events
  <2>1. a \in Seq(Stamps) /\ b \in Seq(Stamps) /\ Len(a) = k /\ Len(b) = n
    BY <1>2, <1>5
  <2> HIDE DEF a, b, n, k
  <2>2. /\ Len(a \o b) = Len(a) + Len(b)
        /\ \A i \in 1 .. Len(a) + Len(b) : (a \o b)[i] = IF i <= Len(a) THEN a[i] ELSE b[i - Len(a)]
    BY <2>1, ConcatProperties
  <2> QED BY <1>4, <2>1, <2>2 DEF a, b
<1>7. X \ {RowOf(r, x)} = {e \in X : e.run # r}
  <2>1. \A e \in X : e.run \in DOMAIN R /\ e = RowOf(e.run, R[e.run])
    BY DEF Tables, RowOf
  <2>2. RowOf(r, x).run = r
    BY DEF RowOf
  <2> QED BY <2>1, <2>2
<1>8. \A i \in 1 .. n : q.first + i - 1 = k + i
  BY <1>1, <1>2, <1>5 DEF Continues, RunRecords
<1>9. \A z, i, t : <<z, i, t>> \in F <=>
        (<<z, i, t>> \in E \/ \E j \in 1 .. n : z = r /\ i = k + j /\ t = q.events[j])
  <2>1. \A z, i, t : <<z, i, t>> \in F <=>
          (<<z, i, t>> \in E \/
            \E j \in 1 .. n : z = r /\ i = q.first + j - 1 /\ t = q.events[j])
    BY <1>5 DEF InsertEvents
  <2> HIDE DEF n, k, F
  <2> TAKE z, i, t
  <2>2. (\E j \in 1 .. n : z = r /\ i = q.first + j - 1 /\ t = q.events[j])
        <=> (\E j \in 1 .. n : z = r /\ i = k + j /\ t = q.events[j])
    BY <1>8
  <2>3. <<z, i, t>> \in F <=>
          (<<z, i, t>> \in E \/
            \E j \in 1 .. n : z = r /\ i = q.first + j - 1 /\ t = q.events[j])
    BY <2>1
  <2> QED BY <2>2, <2>3
<1>10. F \in Logs
  <2>1. \A j \in 1 .. n : q.events[j] \in Stamps
    BY <1>5, ElementOfSeq
  <2>2. \A j \in 1 .. n : <<r, q.first + j - 1, q.events[j]>> \in Runs \X Nat \X Stamps
    BY <1>2, <1>5, <1>8, <2>1
  <2>3. E \in Logs
    BY DEF Tables
  <2> QED BY <1>5, <2>2, <2>3 DEF InsertEvents, Logs
<1>11. \A i, t : <<r, i, t>> \in E <=> i \in 1 .. k /\ t = x.events[i]
  BY DEF Tables
<1> HIDE DEF F, y, n, k
<1>12. ASSUME NEW i, NEW t
       PROVE  <<r, i, t>> \in F <=> i \in 1 .. Len(y.events) /\ t = y.events[i]
  <2>1. ASSUME <<r, i, t>> \in F PROVE i \in 1 .. Len(y.events) /\ t = y.events[i]
    <3>1. CASE <<r, i, t>> \in E
      <4>1. i \in 1 .. k /\ t = x.events[i]
        BY <1>11, <3>1
      <4>2. i \in 1 .. k + n /\ i <= k
        BY <1>5, <4>1
      <4> QED BY <1>6, <4>1, <4>2
    <3>2. CASE \E j \in 1 .. n : i = k + j /\ t = q.events[j]
      <4>1. PICK j \in 1 .. n : i = k + j /\ t = q.events[j]
        BY <3>2
      <4>2. i \in 1 .. k + n /\ ~(i <= k) /\ i - k = j
        BY <1>5, <4>1
      <4> QED BY <1>6, <4>1, <4>2
    <3> QED BY <1>9, <2>1, <3>1, <3>2
  <2>2. ASSUME i \in 1 .. Len(y.events), t = y.events[i] PROVE <<r, i, t>> \in F
    <3>1. i \in 1 .. k + n
      BY <1>6, <2>2
    <3>2. CASE i <= k
      <4>1. i \in 1 .. k
        BY <1>5, <3>1, <3>2
      <4> QED BY <1>6, <1>9, <1>11, <2>2, <3>1, <3>2, <4>1
    <3>3. CASE ~(i <= k)
      <4>1. i - k \in 1 .. n /\ i = k + (i - k)
        BY <1>5, <3>1, <3>3
      <4> QED BY <1>6, <1>9, <2>2, <3>1, <3>3, <4>1
    <3> QED BY <3>2, <3>3
  <2> QED BY <2>1, <2>2
<1>13. \A z, i, t : z # r => (<<z, i, t>> \in F <=> <<z, i, t>> \in E)
  BY <1>9
<1>14. LogWith(F, E, r, y)
  BY <1>12, <1>13 DEF LogWith
<1>15. Tables(WithRun(R, r, y), RowsWith(X, r, y), F)
  BY <1>2, <1>3, <1>10, <1>14, TablesWith
<1>16. RowsWith(X, r, y) = (X \ {RowOf(r, x)}) \cup {NextRow(RowOf(r, x), q)}
  BY <1>3, <1>7 DEF RowsWith
<1> QED BY <1>15, <1>16 DEF F, y

\* The two drivers check the same.
LEMMA SameAnswer ==
  ASSUME NEW m \in Mems, NEW s, Tables(m.runs, s.executions, s.events),
         m.closed = s.closed, NEW q \in Calls
  PROVE  /\ AnswerMem(m, q) = AnswerSql(s, q)
         /\ AnswerMem(m, q) = "ok" =>
              /\ ~m.closed /\ q.run \in DOMAIN m.runs /\ Continues(m.runs[q.run], q)
              /\ q.delete # {} \/ q.upsert # {} => q.timersOf = q.run
<1> DEFINE x == m.runs[q.run]
           row == RowOf(q.run, x)
           n == Len(q.events)
<1>1. /\ HasRow(s, q.run) <=> q.run \in DOMAIN m.runs
      /\ q.run \in DOMAIN m.runs => Row(s, q.run) = row
  BY RowIs
<1>2. q.events \in Seq(Stamps) /\ n \in Nat /\ DOMAIN q.events = 1 .. n
      /\ (q.events = <<>> <=> n = 0)
  BY DEF Calls
<1>3. row.version = x.rec.version /\ row.closedAt = x.rec.closedAt /\ row.last = x.rec.last
      /\ row.lastTime = x.lastEvent
  BY DEF RowOf
<1>4. OwnTimers(q) <=> RowTimersOwned(q)
  BY DEF OwnTimers, RowTimersOwned
<1>5. ASSUME q.run \in DOMAIN m.runs PROVE ValidAppend(x, q) <=> ValidAppendRow(row, q)
  <2>1. x.lastEvent \in Stamps
    BY <1>5, RunIs DEF Mems, RunRecords
  <2> DEFINE l == <<x.lastEvent>>
             times == l \o q.events
  <2>2. l \in Seq(Stamps) /\ Len(l) = 1 /\ l[1] = x.lastEvent
    BY <2>1
  <2>3. /\ \A i \in 1 .. 1 + n : times[i] = IF i <= 1 THEN l[i] ELSE q.events[i - 1]
    BY <1>2, <2>2, ConcatProperties
  <2> HIDE DEF times, l
  <2>4. ASSUME NEW i \in 1 .. n
        PROVE  times[i + 1] = q.events[i]
               /\ times[i] = (IF i = 1 THEN x.lastEvent ELSE q.events[i - 1])
               /\ times[i] \in Nat /\ times[i + 1] \in Nat
    <3>1. i \in 1 .. 1 + n /\ i + 1 \in 1 .. 1 + n /\ ~(i + 1 <= 1) /\ (i + 1) - 1 = i
      BY <1>2
    <3>2. i <= 1 <=> i = 1
      BY <1>2
    <3>3. times[i + 1] = q.events[i] /\ times[i] = (IF i = 1 THEN x.lastEvent ELSE q.events[i - 1])
      BY <2>2, <2>3, <3>1, <3>2
    <3>4. q.events[i] \in Stamps
      BY <1>2, ElementOfSeq
    <3>5. i # 1 => i - 1 \in 1 .. n
      BY <1>2
    <3>6. i # 1 => q.events[i - 1] \in Stamps
      BY <1>2, <3>5, ElementOfSeq
    <3> QED BY <2>1, <3>3, <3>4, <3>6, Constants
  <2>5. \A i \in 1 .. n : q.events[i] >= (IF i = 1 THEN x.lastEvent ELSE q.events[i - 1])
                          <=> times[i] <= times[i + 1]
    BY <2>4
  <2>6. ValidAppendRow(row, q) <=>
          (n > 0 => /\ x.rec.closedAt = 0 /\ q.first = x.rec.last + 1
                    /\ \A i \in 1 .. n : times[i] <= times[i + 1])
    BY <1>3 DEF ValidAppendRow, times, l
  <2>7. ValidAppend(x, q) <=>
          (n > 0 => /\ x.rec.closedAt = 0 /\ q.first = x.rec.last + 1
                    /\ \A i \in 1 .. n :
                         q.events[i] >= (IF i = 1 THEN x.lastEvent ELSE q.events[i - 1]))
    BY <1>2 DEF ValidAppend
  <2> QED BY <2>5, <2>6, <2>7
<1>6. AnswerMem(m, q) = AnswerSql(s, q)
  BY <1>1, <1>3, <1>4, <1>5 DEF AnswerMem, AnswerSql
<1>7. ASSUME AnswerMem(m, q) = "ok"
      PROVE  /\ ~m.closed /\ q.run \in DOMAIN m.runs /\ Continues(m.runs[q.run], q)
             /\ q.delete # {} \/ q.upsert # {} => q.timersOf = q.run
  <2>1. ~m.closed /\ q.run \in DOMAIN m.runs /\ ValidAppend(x, q) /\ OwnTimers(q)
    BY <1>7 DEF AnswerMem
  <2> QED BY <1>2, <2>1 DEF ValidAppend, OwnTimers, Continues
<1> QED BY <1>6, <1>7

-------------------------------------------------------------------------------
\* The writes keep the two drivers in step.

Sqls == [executions : SUBSET Rows, events : Logs, timers : SUBSET Cells, closed : BOOLEAN]

\* The timers T belong to open runs.
Owned(R, T) == \A c \in T : Owner(c.key) \in DOMAIN R /\ R[Owner(c.key)].rec.closedAt = 0

\* Both drivers, not closed, hold the same runs and timers.
Stored(m, s) ==
  /\ ~m.closed /\ s \in Sqls /\ ~s.closed
  /\ Tables(m.runs, s.executions, s.events)
  /\ Indexed(m, s.timers) /\ Owned(m.runs, s.timers)

\* A batch of timers that names each once, its entries, and the keys of some timers.
Batches == {ts \in SUBSET [n : 1 .. TimersPerRun, at : Stamps] :
              \A t, u \in ts : t.n = u.n => t = u}
EntriesOf(r, ts) == {Entry(r, t) : t \in ts}
NamedKeys(r, ns) == {TimerKey(r, n) : n \in ns}

\* The entries of a batch: finitely many, one per key, all of the run.
LEMMA EntriesAre ==
  ASSUME NEW r \in Runs, NEW ts \in Batches
  PROVE  /\ EntriesOf(r, ts) \in SUBSET Cells /\ IsFiniteSet(EntriesOf(r, ts))
         /\ \A d, e \in EntriesOf(r, ts) : d.key = e.key => d = e
         /\ \A e \in EntriesOf(r, ts) : Owner(e.key) = r
<1> DEFINE es == EntriesOf(r, ts)
<1>0. es = {Entry(r, t) : t \in ts}
  BY DEF EntriesOf
<1> HIDE DEF es
<1>1. \A t \in ts : t.n \in 1 .. TimersPerRun /\ t.at \in Stamps
  BY DEF Batches
<1>2. \A t \in ts : Entry(r, t).key = TimerKey(r, t.n) /\ Entry(r, t).at = t.at
  BY DEF Entry
<1>3. es \in SUBSET Cells
  <2>1. ASSUME NEW t \in ts PROVE Entry(r, t) \in Cells
    <3>1. TimerKey(r, t.n) \in Nat /\ t.at \in Nat
      BY <1>1, KeyFacts, Constants
    <3> QED BY <3>1 DEF Entry, Cells
  <2> QED BY <1>0, <2>1
<1>4. \A e \in es : Owner(e.key) = r
  BY <1>0, <1>1, <1>2, KeyFacts
<1>5. \A t, u \in ts : Entry(r, t).key = Entry(r, u).key => t = u
  <2> SUFFICES ASSUME NEW t \in ts, NEW u \in ts, Entry(r, t).key = Entry(r, u).key
               PROVE  t.n = u.n
    BY DEF Batches
  <2>1. TimerKey(r, t.n) = TimerKey(r, u.n)
    BY <1>2
  <2> QED BY <1>1, <2>1, KeysOfOneRun
<1>6. \A d, e \in es : d.key = e.key => d = e
  BY <1>0, <1>5
<1>7. IsFiniteSet(ts)
  <2> DEFINE I == 1 .. TimersPerRun
             f == [t \in ts |-> t.n]
  <2>1. IsFiniteSet(I)
    BY Constants, FS_Interval
  <2>2. f \in [ts -> I]
    BY <1>1
  <2>3. f \in Injection(ts, I)
    BY <2>2 DEF Injection, IsInjective, Batches
  <2> QED BY <2>1, <2>3, FS_Injection
<1>8. IsFiniteSet(es)
  <2> DEFINE f == [t \in ts |-> Entry(r, t)]
  <2>1. f \in Surjection(ts, es)
    BY <1>0 DEF Surjection
  <2> QED BY <1>7, <2>1, FS_Surjection
<1> QED BY <1>3, <1>4, <1>6, <1>8 DEF es

\* The keys a batch deletes: finitely many, all of the run.
LEMMA KeysAre ==
  ASSUME NEW r \in Runs, NEW ns \in SUBSET (1 .. TimersPerRun), NEW T
  PROVE  /\ IsFiniteSet(NamedKeys(r, ns)) /\ \A k \in NamedKeys(r, ns) : Owner(k) = r
         /\ DeleteRows(T, r, ns) = Kept(T, NamedKeys(r, ns))
<1> DEFINE ks == NamedKeys(r, ns)
<1>0. ks = {TimerKey(r, n) : n \in ns}
  BY DEF NamedKeys
<1> HIDE DEF ks
<1>1. IsFiniteSet(ns)
  <2>1. IsFiniteSet(1 .. TimersPerRun)
    BY Constants, FS_Interval
  <2> QED BY <2>1, FS_Subset
<1>2. IsFiniteSet(ks)
  <2> DEFINE f == [n \in ns |-> TimerKey(r, n)]
  <2>1. f \in Surjection(ns, ks)
    BY <1>0 DEF Surjection
  <2> QED BY <1>1, <2>1, FS_Surjection
<1>3. \A k \in ks : Owner(k) = r
  BY <1>0, KeyFacts
<1>4. DeleteRows(T, r, ns) = Kept(T, ks)
  BY <1>0 DEF DeleteRows, Kept
<1> QED BY <1>2, <1>3, <1>4 DEF ks

\* The runs of m become R.
Rewritten(n, m, R) == n = [m EXCEPT !.runs = R]

\* Writing the runs does not disturb the indexes.
LEMMA IndexedRuns ==
  ASSUME NEW m, NEW T, Indexed(m, T), NEW R \in RunTables, NEW n, Rewritten(n, m, R)
  PROVE  Indexed(n, T) /\ n.runs = R /\ n.closed = m.closed
<1>1. m \in Mems
  BY DEF Indexed
<1>2. n \in Mems /\ n.heap = m.heap /\ n.byRun = m.byRun /\ n.runs = R /\ n.closed = m.closed
  BY <1>1 DEF Rewritten, Mems
<1>3. \A r : ByRun(n, r) = ByRun(m, r)
  BY <1>2 DEF ByRun
<1> QED BY <1>2, <1>3 DEF Indexed

\* CreateExecution keeps the two drivers in step.
LEMMA CreateKeeps ==
  ASSUME NEW m, NEW s, Stored(m, s), NEW r \in Runs, r \notin DOMAIN m.runs, NEW at \in Stamps,
         NEW ts \in Batches
  PROVE  /\ Stored(CreateMem(m, r, at, ts), CreateSql(s, r, at, ts))
         /\ CreateMem(m, r, at, ts).runs = WithRun(m.runs, r, NewRun(at))
<1> DEFINE R == WithRun(m.runs, r, NewRun(at))
           es == EntriesOf(r, ts)
           w == [m EXCEPT !.runs = R]
           n == CreateMem(m, r, at, ts)
           z == CreateSql(s, r, at, ts)
           U == UpsertRows(s.timers, es)
           Y == s.executions \cup {NewRow(r, at)}
           F == InsertEvents(s.events, r, 1, <<at>>)
<1>1. /\ Tables(m.runs, s.executions, s.events) /\ Indexed(m, s.timers) /\ s \in Sqls
      /\ Owned(m.runs, s.timers) /\ ~m.closed /\ ~s.closed
  BY DEF Stored
<1>2. Tables(R, Y, F)
  BY <1>1, TablesCreate
<1>3. R \in RunTables /\ Y \in SUBSET Rows /\ F \in Logs
  BY <1>2 DEF Tables
<1>4. n = UpsertTimers(w, r, es)
  BY DEF CreateMem, WithRun, EntriesOf
<1>5. z = [s EXCEPT !.executions = Y, !.events = F, !.timers = U]
  BY <1>1 DEF CreateSql, EntriesOf
<1>6. Rewritten(w, m, R)
  BY DEF Rewritten
<1>7. /\ es \in SUBSET Cells /\ IsFiniteSet(es)
      /\ \A d, e \in es : d.key = e.key => d = e
      /\ \A e \in es : Owner(e.key) = r
  BY EntriesAre
<1>8. /\ DOMAIN R = DOMAIN m.runs \cup {r} /\ R[r] = NewRun(at)
      /\ \A y \in DOMAIN m.runs : R[y] = m.runs[y]
  BY DEF WithRun
<1> HIDE DEF R, es, w, n, z, Y, F
<1>9. Indexed(w, s.timers) /\ w.runs = R /\ w.closed = m.closed
  BY <1>1, <1>3, <1>6, IndexedRuns
<1>10. Indexed(n, U) /\ n.runs = R /\ n.closed = m.closed
  BY <1>4, <1>7, <1>9, UpsertTimersIs
<1>11. Owned(R, U)
  <2>1. \A c \in U : c \in s.timers \/ c \in es
    BY DEF UpsertRows
  <2>2. R[r].rec.closedAt = 0
    BY <1>8 DEF NewRun
  <2>3. ASSUME NEW c \in s.timers
        PROVE  Owner(c.key) \in DOMAIN R /\ R[Owner(c.key)].rec.closedAt = 0
    BY <1>1, <1>8 DEF Owned
  <2> HIDE DEF U
  <2> QED BY <1>7, <1>8, <2>1, <2>2, <2>3 DEF Owned
<1>12. U \in SUBSET Cells
  BY <1>10 DEF Indexed
<1> HIDE DEF U
<1>13. z \in Sqls /\ z.executions = Y /\ z.events = F /\ z.timers = U /\ z.closed = s.closed
  BY <1>1, <1>3, <1>5, <1>12 DEF Sqls
<1>14. Stored(n, z)
  BY <1>1, <1>2, <1>10, <1>11, <1>13 DEF Stored
<1> QED BY <1>10, <1>14 DEF n, z, R

\* DeleteTimers keeps the two drivers in step.
LEMMA DeleteKeeps ==
  ASSUME NEW m, NEW s, Stored(m, s), NEW r \in Runs, NEW k \in 1 .. TimersPerRun
  PROVE  /\ Stored(RemoveTimers(m, r, {TimerKey(r, k)}),
                   [s EXCEPT !.timers = DeleteRows(@, r, {k})])
         /\ RemoveTimers(m, r, {TimerKey(r, k)}).runs = m.runs
<1> DEFINE ns == {k}
           ks == NamedKeys(r, ns)
           U == DeleteRows(s.timers, r, ns)
           n == RemoveTimers(m, r, ks)
           z == [s EXCEPT !.timers = U]
<1>1. /\ Tables(m.runs, s.executions, s.events) /\ Indexed(m, s.timers) /\ s \in Sqls
      /\ Owned(m.runs, s.timers) /\ ~m.closed /\ ~s.closed
  BY DEF Stored
<1>2. ks = {TimerKey(r, k)} /\ ns \in SUBSET (1 .. TimersPerRun)
  BY DEF NamedKeys
<1>3. U \in SUBSET s.timers
  BY DEF DeleteRows
<1> HIDE DEF ks, ns, n
<1>4. /\ IsFiniteSet(ks) /\ \A i \in ks : Owner(i) = r
      /\ U = Kept(s.timers, ks)
  BY <1>2, KeysAre DEF ks
<1> HIDE DEF U
<1>5. Indexed(n, U) /\ n.runs = m.runs /\ n.closed = m.closed
  BY <1>1, <1>4, RemoveTimersIs DEF n
<1>6. /\ z \in Sqls /\ z.executions = s.executions /\ z.events = s.events /\ z.timers = U
      /\ z.closed = s.closed
  BY <1>1, <1>3 DEF Sqls
<1>7. Owned(n.runs, U)
  BY <1>1, <1>3, <1>5 DEF Owned
<1> HIDE DEF z
<1>8. Stored(n, z)
  BY <1>1, <1>5, <1>6, <1>7 DEF Stored
<1> QED BY <1>2, <1>5, <1>8 DEF n, z, U, ns

\* An accepted AppendHistory keeps the two drivers in step, a close that drops the
\* timers included.
LEMMA AppendKeeps ==
  ASSUME NEW m, NEW s, Stored(m, s), NEW q \in Calls, AnswerMem(m, q) = "ok",
         q.upsert \in Batches
  PROVE  /\ Stored(AppendMem(m, q), AppendSql(s, q))
         /\ q.run \in DOMAIN m.runs
         /\ AppendMem(m, q).runs = WithRun(m.runs, q.run, RunAfter(m.runs[q.run], q))
         /\ Continues(m.runs[q.run], q)
<1> DEFINE r == q.run
           x == m.runs[r]
           y == RunAfter(x, q)
           R == WithRun(m.runs, r, y)
           w == [m EXCEPT !.runs = R]
           ks == NamedKeys(r, q.delete)
           es == EntriesOf(r, q.upsert)
           removed == RemoveTimers(w, r, ks)
           timed == UpsertTimers(removed, r, es)
           n == AppendMem(m, q)
           z == AppendSql(s, q)
           row == RowOf(r, x)
           Y == (s.executions \ {row}) \cup {NextRow(row, q)}
           F == InsertEvents(s.events, r, q.first, q.events)
           D == DeleteRows(s.timers, r, q.delete)
           T == UpsertRows(D, es)
           U == IF y.rec.closedAt # 0 THEN DropRunRows(T, r) ELSE T
<1>1. /\ Tables(m.runs, s.executions, s.events) /\ Indexed(m, s.timers) /\ s \in Sqls
      /\ Owned(m.runs, s.timers) /\ ~m.closed /\ ~s.closed /\ m \in Mems
  BY DEF Stored, Indexed
<1>0. m.closed = s.closed
  BY <1>1 DEF Mems, Sqls
<1>2. /\ AnswerSql(s, q) = "ok" /\ r \in DOMAIN m.runs /\ Continues(x, q)
  BY <1>0, <1>1, SameAnswer
<1>3. Tables(R, Y, F)
  BY <1>1, <1>2, TablesAppend
<1>4. /\ r \in Runs /\ x \in RunRecords /\ Len(x.events) = x.rec.last
  BY <1>1, <1>2, RunIs DEF Tables
<1>5. NextRow(row, q) = RowOf(r, y)
  BY <1>2, <1>4, RunAfterIs
<1>6. NextRow(row, q).closedAt = y.rec.closedAt
  BY <1>5 DEF RowOf
<1>7. Row(s, r) = row
  BY <1>1, <1>2, RowIs
<1>8. z = [s EXCEPT !.executions = Y, !.events = F, !.timers = U]
  BY <1>1, <1>2, <1>6, <1>7 DEF AppendSql, TimerRows, EntriesOf
<1>9. w = [m EXCEPT !.runs[r] = y]
  <2>1. R = [m.runs EXCEPT ![r] = y]
    BY <1>1, <1>2 DEF WithRun, Mems, RunTables
  <2> QED BY <1>1, <2>1
<1>10. n = IF y.rec.closedAt # 0 THEN DropRunTimers(timed, r) ELSE timed
  <2>1. y = [rec |-> RecAfter(x, q), events |-> x.events \o q.events, lastEvent |-> LastAfter(x, q)]
    BY DEF RunAfter
  <2> QED BY <1>9 DEF AppendMem, RunAfter, RecAfter, LastAfter, EntriesOf, NamedKeys
<1>11. q.delete \in SUBSET (1 .. TimersPerRun)
  BY DEF Calls
<1>12. /\ es \in SUBSET Cells /\ IsFiniteSet(es)
       /\ \A d, e \in es : d.key = e.key => d = e
       /\ \A e \in es : Owner(e.key) = r
  BY <1>4, <1>11, EntriesAre
<1>13. /\ IsFiniteSet(ks) /\ \A k \in ks : Owner(k) = r
       /\ D = Kept(s.timers, ks)
  BY <1>4, <1>11, KeysAre
<1>14. Rewritten(w, m, R)
  BY DEF Rewritten
<1>15. R \in RunTables /\ Y \in SUBSET Rows /\ F \in Logs
  BY <1>3 DEF Tables
<1>16. DOMAIN R = DOMAIN m.runs /\ R[r] = y /\ \A v \in DOMAIN m.runs : v # r => R[v] = m.runs[v]
  BY <1>2 DEF WithRun
<1> HIDE DEF R, w, y, x, ks, es, D, n, z, Y, F
<1>17. Indexed(w, s.timers) /\ w.runs = R /\ w.closed = m.closed
  BY <1>1, <1>14, <1>15, IndexedRuns
<1>18. Indexed(removed, D) /\ removed.runs = R /\ removed.closed = m.closed
  BY <1>4, <1>13, <1>17, RemoveTimersIs
<1> HIDE DEF removed
<1>19. Indexed(timed, T) /\ timed.runs = R /\ timed.closed = m.closed
  BY <1>4, <1>12, <1>18, UpsertTimersIs
<1>20. \A c \in T : c \in s.timers \/ c \in es
  BY <1>13 DEF UpsertRows, Kept
<1> HIDE DEF timed, T
<1>21. Indexed(n, U) /\ n.runs = R /\ n.closed = m.closed
  <2>1. CASE y.rec.closedAt # 0
    <3>1. Indexed(DropRunTimers(timed, r), DropRunRows(T, r))
          /\ DropRunTimers(timed, r).runs = R /\ DropRunTimers(timed, r).closed = m.closed
      BY <1>4, <1>19, DropRunTimersIs
    <3> QED BY <1>10, <2>1, <3>1
  <2>2. CASE ~(y.rec.closedAt # 0)
    BY <1>10, <1>19, <2>2
  <2> QED BY <2>1, <2>2
<1>22. Owned(R, U)
  <2>1. ASSUME NEW c \in T, Owner(c.key) # r
        PROVE  Owner(c.key) \in DOMAIN R /\ R[Owner(c.key)].rec.closedAt = 0
    <3>1. c \in s.timers
      BY <1>12, <1>20, <2>1
    <3> QED BY <1>1, <1>16, <2>1, <3>1 DEF Owned
  <2>2. CASE y.rec.closedAt # 0
    <3>1. \A c \in U : c \in T /\ Owner(c.key) # r
      BY <2>2 DEF DropRunRows
    <3> QED BY <2>1, <3>1 DEF Owned
  <2>3. CASE y.rec.closedAt = 0
    <3>1. U = T
      BY <2>3
    <3> QED BY <1>2, <1>16, <2>1, <2>3, <3>1 DEF Owned
  <2> QED BY <2>2, <2>3
<1>23. U \in SUBSET Cells
  BY <1>21 DEF Indexed
<1> HIDE DEF U
<1>24. z \in Sqls /\ z.executions = Y /\ z.events = F /\ z.timers = U /\ z.closed = s.closed
  BY <1>1, <1>8, <1>15, <1>23 DEF Sqls
<1>25. Stored(n, z)
  BY <1>1, <1>3, <1>21, <1>22, <1>24 DEF Stored
<1> QED BY <1>2, <1>21, <1>25 DEF n, z, R, y, x

-------------------------------------------------------------------------------
\* Pages.

Cursors == [started : Nat, run : Nat]

\* The cursors of the runs that match.
MatchesOf(R, open) == {Cursor(R[r].rec, r) : r \in {x \in DOMAIN R : Matches(R[x].rec, open)}}

\* Both drivers filter the same rows, one per run.
LEMMA MatchesAre ==
  ASSUME NEW R, NEW X, NEW E, Tables(R, X, E), NEW open
  PROVE  /\ MatchesOf(R, open) = {Cursor(e, e.run) : e \in {x \in X : Matches(x, open)}}
         /\ IsFiniteSet(MatchesOf(R, open)) /\ OnePerRun(MatchesOf(R, open))
         /\ MatchesOf(R, open) \in SUBSET Cursors
         /\ \A c \in MatchesOf(R, open) :
              c.run \in DOMAIN R /\ c = Cursor(R[c.run].rec, c.run) /\ Matches(R[c.run].rec, open)
<1> DEFINE M == MatchesOf(R, open)
           D == {x \in DOMAIN R : Matches(R[x].rec, open)}
<1>1. \A c : c \in M <=> \E r \in DOMAIN R : Matches(R[r].rec, open) /\ c = Cursor(R[r].rec, r)
  BY DEF MatchesOf
<1>2. \A r \in DOMAIN R : r \in Nat /\ R[r].rec.started \in Nat
  BY RunIs, Constants DEF Tables, RunRecords
<1>3. \A r \in DOMAIN R : LET e == RowOf(r, R[r]) IN
        /\ Cursor(e, e.run) = Cursor(R[r].rec, r)
        /\ Matches(e, open) <=> Matches(R[r].rec, open)
  BY DEF RowOf, Cursor, Matches
<1>4. \A e : e \in X <=> \E r \in DOMAIN R : e = RowOf(r, R[r])
  BY DEF Tables
<1>5. M = {Cursor(e, e.run) : e \in {x \in X : Matches(x, open)}}
  <2>1. \A c : c \in M <=> \E e \in X : Matches(e, open) /\ c = Cursor(e, e.run)
    BY <1>1, <1>3, <1>4
  <2> HIDE DEF M
  <2> QED BY <2>1
<1>6. IsFiniteSet(M)
  <2> DEFINE f == [r \in D |-> Cursor(R[r].rec, r)]
  <2>1. IsFiniteSet(D)
    <3>1. IsFiniteSet(DOMAIN R) /\ D \in SUBSET DOMAIN R
      BY DEF Tables
    <3> QED BY <3>1, FS_Subset
  <2>2. f \in Surjection(D, M)
    BY DEF Surjection, MatchesOf
  <2> HIDE DEF f, D
  <2> QED BY <2>1, <2>2, FS_Surjection
<1>7. \A c \in M :
        c.run \in DOMAIN R /\ c = Cursor(R[c.run].rec, c.run) /\ Matches(R[c.run].rec, open)
  BY <1>1 DEF Cursor
<1>8. M \in SUBSET Cursors
  BY <1>1, <1>2 DEF Cursor, Cursors
<1>9. OnePerRun(M)
  BY <1>7, <1>8 DEF OnePerRun, Cursors
<1> QED BY <1>5, <1>6, <1>7, <1>8, <1>9

\* What a page of size rows after the cursor holds, of the rows M.
IsPage(p, more, M, cursor, size) ==
  /\ p \in Seq(M) /\ \A i \in 1 .. Len(p) : After(p[i], cursor)
  /\ \A i, j \in 1 .. Len(p) : i < j => Recency(p[i], p[j])
  /\ more => Len(p) = size
  /\ \A c \in M : After(c, cursor) =>
       (\E i \in 1 .. Len(p) : p[i] = c) \/ (Len(p) = size /\ more /\ Recency(p[Len(p)], c))

\* A listing has every row once, in order of recency.
LEMMA NewestLists ==
  ASSUME NEW M, IsFiniteSet(M), OnePerRun(M)
  PROVE  /\ Lists(Newest(M), RecencyOn(M), M)
         /\ \A a, b \in M : <<a, b>> \in RecencyOn(M) <=> Recency(a, b)
<1>1. Orders(RecencyOn(M), M)
  BY RecencyOrders
<1>2. Newest(M) = Ranked(RecencyOn(M), M)
  BY NewestIsRanked
<1>3. Lists(Newest(M), RecencyOn(M), M)
  BY <1>1, <1>2, RanksList
<1> QED BY <1>3 DEF RecencyOn

\* A page of SQLite is the beginning of the rows after the cursor, and says whether
\* there are more (ListExecutions, LIMIT size + 1).
LEMMA PageIs ==
  ASSUME NEW R, NEW s, Tables(R, s.executions, s.events), NEW open, NEW cursor,
         NEW size \in Nat, size >= 1
  PROVE  LET page == ListSql(s, open, cursor, size)
         IN IsPage(page.rows, page.more, MatchesOf(R, open), cursor, size)
<1> DEFINE M == MatchesOf(R, open)
           A == {c \in M : After(c, cursor)}
           sorted == Newest(A)
           n == Len(sorted)
           k == IF n < size THEN n ELSE size
           p == SubSeq(sorted, 1, k)
<1>1. IsFiniteSet(M) /\ OnePerRun(M)
      /\ M = {Cursor(e, e.run) : e \in {x \in s.executions : Matches(x, open)}}
  BY MatchesAre
<1>2. ListSql(s, open, cursor, size) = [rows |-> p, more |-> n > size]
  BY <1>1 DEF ListSql
<1>3. IsFiniteSet(A) /\ OnePerRun(A)
  <2>1. A \in SUBSET M
    OBVIOUS
  <2> HIDE DEF A, M
  <2> QED BY <1>1, <2>1, FS_Subset DEF OnePerRun
<1>4. /\ Lists(sorted, RecencyOn(A), A)
      /\ \A a, b \in A : <<a, b>> \in RecencyOn(A) <=> Recency(a, b)
  <2> HIDE DEF A
  <2> QED BY <1>3, NewestLists
<1>5. A \in SUBSET M /\ \A c \in M : c \in A <=> After(c, cursor)
  OBVIOUS
<1> HIDE DEF A, M, sorted
<1>6. /\ sorted \in Seq(A) /\ n \in Nat /\ sorted \in [1 .. n -> A]
      /\ \A i, j \in 1 .. n : i < j => Recency(sorted[i], sorted[j])
      /\ \A c \in A : \E i \in 1 .. n : sorted[i] = c
  <2>1. sorted \in Seq(A) /\ n \in Nat /\ sorted \in [1 .. n -> A]
    BY <1>4 DEF Lists
  <2>2. \A i, j \in 1 .. n : i < j => <<sorted[i], sorted[j]>> \in RecencyOn(A)
    BY <1>4 DEF Lists
  <2>3. \A i \in 1 .. n : sorted[i] \in A
    BY <2>1
  <2> HIDE DEF n
  <2>4. \A i, j \in 1 .. n : i < j => Recency(sorted[i], sorted[j])
    BY <1>4, <2>2, <2>3
  <2> QED BY <1>4, <2>1, <2>4 DEF Lists, n
<1>7. k \in 0 .. n /\ k <= size
  BY <1>6
<1> HIDE DEF k
<1>8. p \in Seq(A) /\ Len(p) = k /\ \A i \in 1 .. k : p[i] = sorted[i]
  <2>1. 1 \in 1 .. n + 1 /\ k \in 1 - 1 .. n
    BY <1>6, <1>7
  <2>2. /\ p \in Seq(A) /\ Len(p) = k - 1 + 1
        /\ \A i \in 1 .. k - 1 + 1 : p[i] = sorted[1 + i - 1]
    BY <1>6, <2>1, SubSeqProperties
  <2>3. k - 1 + 1 = k /\ \A i \in 1 .. k : 1 + i - 1 = i
    BY <1>6, <1>7
  <2> HIDE DEF p, n
  <2> QED BY <2>2, <2>3
<1> HIDE DEF p
<1> HIDE DEF n
<1>9. \A i \in 1 .. k : i \in 1 .. n /\ p[i] = sorted[i] /\ p[i] \in A
  BY <1>6, <1>7, <1>8
<1>10. p \in Seq(M) /\ \A i \in 1 .. Len(p) : After(p[i], cursor)
  <2>1. \A i \in 1 .. Len(p) : After(p[i], cursor)
    BY <1>5, <1>8, <1>9
  <2>2. p \in Seq(M)
    BY <1>5, <1>8
  <2> QED BY <2>1, <2>2
<1>11. \A i, j \in 1 .. Len(p) : i < j => Recency(p[i], p[j])
  BY <1>6, <1>8, <1>9
<1>12. n > size => Len(p) = size
  BY <1>6, <1>8 DEF k
<1>13. ASSUME NEW c \in M, After(c, cursor), \A i \in 1 .. Len(p) : p[i] # c
       PROVE  Len(p) = size /\ n > size /\ Recency(p[Len(p)], c)
  <2>1. c \in A
    BY <1>5, <1>13
  <2>2. PICK i \in 1 .. n : sorted[i] = c
    BY <1>6, <2>1
  <2>3. i > k
    BY <1>6, <1>8, <1>9, <1>13, <2>2
  <2>4. k = size /\ n > size /\ k \in 1 .. n /\ k \in 1 .. k
    BY <1>6, <2>3 DEF k
  <2>5. Recency(sorted[k], sorted[i])
    BY <1>6, <2>3, <2>4
  <2> QED BY <1>8, <2>2, <2>4, <2>5
<1>14. IsPage(p, n > size, M, cursor, size)
  BY <1>10, <1>11, <1>12, <1>13 DEF IsPage
<1> QED BY <1>2, <1>14 DEF M, p, k, n, sorted, A

-------------------------------------------------------------------------------
\* Walks, page by page.

Once(seen) == \A i, j \in 1 .. Len(seen) : seen[i] = seen[j] => i = j
Covers(seen, steady) == \A r \in steady : \E i \in 1 .. Len(seen) : seen[i] = r

\* A walk has seen its runs once and they are not after its cursor, and the runs to be
\* found have been seen or are.
Walked(R, open, cursor, seen, steady) ==
  /\ seen \in Seq(Runs) /\ Once(seen)
  /\ cursor = <<>> \/ \E c \in Cursors : cursor = <<c>>
  /\ \A i \in 1 .. Len(seen) :
       seen[i] \in DOMAIN R /\ ~After(Cursor(R[seen[i]].rec, seen[i]), cursor)
  /\ \A r \in steady :
       /\ r \in DOMAIN R /\ Matches(R[r].rec, open)
       /\ After(Cursor(R[r].rec, r), cursor) \/ \E i \in 1 .. Len(seen) : seen[i] = r

\* A walk that has begun has yet to see every run that matches.
LEMMA WalkBegins ==
  ASSUME NEW R, NEW open, NEW steady,
         \A r \in steady : r \in DOMAIN R /\ Matches(R[r].rec, open)
  PROVE  Walked(R, open, <<>>, <<>>, steady)
<1>1. <<>> \in Seq(Runs) /\ Len(<<>>) = 0
  OBVIOUS
<1>2. \A c : After(c, <<>>)
  BY DEF After
<1>3. \A i \in 1 .. Len(<<>>) : FALSE
  OBVIOUS
<1> QED BY <1>1, <1>2, <1>3 DEF Walked, Once

\* Runs stay where they are, so a walk goes on for those that still match.
LEMMA WalkStays ==
  ASSUME NEW R, NEW open, NEW cursor, NEW seen, NEW steady,
         Walked(R, open, cursor, seen, steady),
         NEW Q, \A r \in DOMAIN R : r \in DOMAIN Q /\ Q[r].rec.started = R[r].rec.started,
         NEW left \in SUBSET steady, \A r \in left : Matches(Q[r].rec, open)
  PROVE  Walked(Q, open, cursor, seen, left)
<1>1. \A r \in DOMAIN R : Cursor(Q[r].rec, r) = Cursor(R[r].rec, r)
  BY DEF Cursor
<1>2. \A i \in 1 .. Len(seen) :
        seen[i] \in DOMAIN R /\ ~After(Cursor(R[seen[i]].rec, seen[i]), cursor)
  BY DEF Walked
<1>3. \A i \in 1 .. Len(seen) :
        seen[i] \in DOMAIN Q /\ ~After(Cursor(Q[seen[i]].rec, seen[i]), cursor)
  BY <1>1, <1>2
<1>4. \A r \in left :
        /\ r \in DOMAIN Q /\ Matches(Q[r].rec, open)
        /\ After(Cursor(Q[r].rec, r), cursor) \/ \E i \in 1 .. Len(seen) : seen[i] = r
  BY <1>1 DEF Walked
<1> QED BY <1>3, <1>4 DEF Walked

\* Recency is a strict order of cursors.
LEMMA RecencyFacts ==
  ASSUME NEW a \in Cursors, NEW b \in Cursors, NEW c \in Cursors
  PROVE  /\ ~Recency(a, a)
         /\ Recency(a, b) /\ Recency(b, c) => Recency(a, c)
BY DEF Recency, Cursors

\* A page adds what comes next: nothing twice, and after the last page nothing is missing.
LEMMA WalkTurns ==
  ASSUME NEW R, NEW X, NEW E, Tables(R, X, E), NEW open, NEW cursor, NEW seen, NEW steady,
         Walked(R, open, cursor, seen, steady), NEW p, NEW more, NEW size \in Nat, size >= 1,
         IsPage(p, more, MatchesOf(R, open), cursor, size)
  PROVE  /\ seen \o RunsOf(p) \in Seq(Runs) /\ Once(seen \o RunsOf(p))
         /\ Walked(R, open, IF p = <<>> THEN cursor ELSE <<Last(p)>>, seen \o RunsOf(p), steady)
         /\ ~more => Covers(seen \o RunsOf(p), steady)
<1> DEFINE M == MatchesOf(R, open)
           k == Len(seen)
           n == Len(p)
           q == RunsOf(p)
           all == seen \o q
           At1(r) == Cursor(R[r].rec, r)
           next == IF p = <<>> THEN cursor ELSE <<Last(p)>>
<1>1. M \in SUBSET Cursors /\ \A c \in M :
        c.run \in DOMAIN R /\ c = At1(c.run) /\ Matches(R[c.run].rec, open)
  BY MatchesAre
<1>2. \A r \in DOMAIN R : Matches(R[r].rec, open) => At1(r) \in M
  BY DEF MatchesOf
<1>3. \A r \in DOMAIN R : r \in Runs /\ At1(r) \in Cursors /\ At1(r).run = r
  BY RunIs, Constants DEF Tables, RunRecords, Cursor, Cursors
<1>4. /\ p \in Seq(M) /\ n \in Nat /\ \A i \in 1 .. n : p[i] \in M /\ After(p[i], cursor)
      /\ DOMAIN p = 1 .. n
      /\ \A i, j \in 1 .. n : i < j => Recency(p[i], p[j])
      /\ p = <<>> <=> n = 0
  BY DEF IsPage
<1>5. /\ seen \in Seq(Runs) /\ k \in Nat /\ Once(seen)
      /\ cursor = <<>> \/ \E c \in Cursors : cursor = <<c>>
      /\ \A i \in 1 .. k : seen[i] \in DOMAIN R /\ ~After(At1(seen[i]), cursor)
      /\ \A r \in steady :
           /\ r \in DOMAIN R /\ Matches(R[r].rec, open)
           /\ After(At1(r), cursor) \/ \E i \in 1 .. k : seen[i] = r
  BY DEF Walked
<1>6. \A c \in M : After(c, cursor) =>
        (\E i \in 1 .. n : p[i] = c) \/ (n = size /\ more /\ Recency(p[n], c))
  BY DEF IsPage
<1> HIDE DEF M, n, k, At1
<1>7. q \in Seq(Runs) /\ Len(q) = n /\ \A i \in 1 .. n : q[i] = p[i].run
  <2>1. q = [i \in 1 .. n |-> p[i].run]
    BY <1>4 DEF RunsOf
  <2>2. \A i \in 1 .. n : p[i].run \in Runs
    BY <1>1, <1>3, <1>4
  <2>3. q \in [1 .. n -> Runs]
    BY <2>1, <2>2
  <2> HIDE DEF q
  <2> QED BY <1>4, <2>1, <2>3
<1> HIDE DEF q
<1>8. /\ all \in Seq(Runs) /\ Len(all) = k + n
      /\ \A i \in 1 .. k + n : all[i] = IF i <= k THEN seen[i] ELSE q[i - k]
  <2>1. Len(seen) = k
    BY DEF k
  <2>2. /\ seen \o q \in Seq(Runs) /\ Len(seen \o q) = Len(seen) + Len(q)
        /\ \A i \in 1 .. Len(seen) + Len(q) :
             (seen \o q)[i] = IF i <= Len(seen) THEN seen[i] ELSE q[i - Len(seen)]
    BY <1>5, <1>7, ConcatProperties
  <2> QED BY <1>7, <2>1, <2>2
<1> HIDE DEF all
<1>9. \A i \in 1 .. k : i \in 1 .. k + n /\ all[i] = seen[i]
  BY <1>4, <1>5, <1>8
<1>10. \A i \in 1 .. n : k + i \in 1 .. k + n /\ all[k + i] = p[i].run
  <2> SUFFICES ASSUME NEW i \in 1 .. n PROVE k + i \in 1 .. k + n /\ all[k + i] = p[i].run
    OBVIOUS
  <2>1. k + i \in 1 .. k + n /\ ~(k + i <= k) /\ (k + i) - k = i
    BY <1>4, <1>5
  <2> QED BY <1>7, <1>8, <2>1
<1>11. \A i \in 1 .. k + n : i \in 1 .. k \/ \E j \in 1 .. n : i = k + j
  <2> SUFFICES ASSUME NEW i \in 1 .. k + n, i \notin 1 .. k PROVE \E j \in 1 .. n : i = k + j
    OBVIOUS
  <2>1. i - k \in 1 .. n /\ i = k + (i - k)
    BY <1>4, <1>5
  <2> QED BY <2>1
<1>12. \A i, j \in 1 .. n : p[i].run = p[j].run => i = j
  <2> SUFFICES ASSUME NEW i \in 1 .. n, NEW j \in 1 .. n, p[i].run = p[j].run, i < j PROVE FALSE
    BY <1>4
  <2>1. p[i] = p[j] /\ p[i] \in Cursors
    BY <1>1, <1>4
  <2>2. Recency(p[i], p[j])
    BY <1>4
  <2> QED BY <2>1, <2>2, RecencyFacts
<1>13. \A i \in 1 .. k, j \in 1 .. n : seen[i] # p[j].run
  <2> SUFFICES ASSUME NEW i \in 1 .. k, NEW j \in 1 .. n, seen[i] = p[j].run PROVE FALSE
    OBVIOUS
  <2>1. p[j] = At1(seen[i])
    BY <1>1, <1>4
  <2> QED BY <1>4, <1>5, <2>1
<1>14. Once(all)
  <2>1. \A i, j \in 1 .. k + n : all[i] = all[j] => i = j
    <3> SUFFICES ASSUME NEW i \in 1 .. k + n, NEW j \in 1 .. k + n, all[i] = all[j] PROVE i = j
      OBVIOUS
    <3>1. CASE i \in 1 .. k /\ j \in 1 .. k
      <4>1. \A a, b \in 1 .. k : seen[a] = seen[b] => a = b
        BY <1>5 DEF Once, k
      <4> QED BY <1>9, <3>1, <4>1
    <3>2. CASE i \in 1 .. k /\ \E b \in 1 .. n : j = k + b
      BY <1>9, <1>10, <1>13, <3>2
    <3>3. CASE j \in 1 .. k /\ \E a \in 1 .. n : i = k + a
      BY <1>9, <1>10, <1>13, <3>3
    <3>4. CASE (\E a \in 1 .. n : i = k + a) /\ \E b \in 1 .. n : j = k + b
      BY <1>10, <1>12, <3>4
    <3> QED BY <1>11, <3>1, <3>2, <3>3, <3>4
  <2> QED BY <1>8, <2>1 DEF Once
<1>15. ASSUME NEW r \in steady, ~(\E i \in 1 .. k + n : all[i] = r)
       PROVE  n = size /\ more /\ Recency(p[n], At1(r)) /\ At1(r) \in M
  <2>1. r \in DOMAIN R /\ Matches(R[r].rec, open) /\ At1(r) \in M /\ At1(r).run = r
    BY <1>2, <1>3, <1>5
  <2>2. After(At1(r), cursor)
    BY <1>5, <1>9, <1>15
  <2>3. ~(\E i \in 1 .. n : p[i] = At1(r))
    BY <1>10, <1>15, <2>1
  <2> QED BY <1>6, <2>1, <2>2, <2>3
<1>16. ~more => Covers(all, steady)
  BY <1>8, <1>15 DEF Covers
<1>17. Walked(R, open, next, all, steady)
  <2>1. CASE p = <<>>
    <3>1. n = 0 /\ next = cursor
      BY <1>4, <2>1
    <3>2. \A i \in 1 .. k + n : all[i] \in DOMAIN R /\ ~After(At1(all[i]), cursor)
      BY <1>5, <1>9, <1>11, <3>1
    <3>3. \A r \in steady : After(At1(r), cursor) \/ \E i \in 1 .. k + n : all[i] = r
      BY <1>5, <1>9
    <3> QED BY <1>5, <1>8, <1>14, <3>1, <3>2, <3>3 DEF Walked, At1
  <2>2. CASE p # <<>>
    <3> DEFINE l == p[n]
    <3>1. n \in 1 .. n /\ l \in M /\ l \in Cursors /\ After(l, cursor)
      BY <1>1, <1>4, <2>2
    <3>2. next = <<l>>
      BY <2>2 DEF Last, n
    <3>3. \A c : After(c, next) <=> Recency(l, c)
      <4>1. next # <<>> /\ next[1] = l
        BY <3>2
      <4> HIDE DEF next, l
      <4> QED BY <4>1 DEF After
    <3> HIDE DEF l, next
    <3>4. ASSUME NEW i \in 1 .. k PROVE ~Recency(l, At1(seen[i]))
      <4>1. seen[i] \in DOMAIN R /\ ~After(At1(seen[i]), cursor) /\ At1(seen[i]) \in Cursors
        BY <1>3, <1>5
      <4>2. PICK c \in Cursors : cursor = <<c>>
        BY <1>5, <4>1 DEF After
      <4>3. cursor[1] = c /\ cursor # <<>>
        BY <4>2
      <4>4. Recency(c, l) /\ ~Recency(c, At1(seen[i]))
        BY <3>1, <4>1, <4>3 DEF After
      <4> QED BY <3>1, <4>1, <4>4, RecencyFacts
    <3>5. ASSUME NEW i \in 1 .. n PROVE ~Recency(l, p[i])
      <4>1. p[i] \in Cursors /\ (i = n \/ i < n)
        BY <1>1, <1>4
      <4>2. i < n => Recency(p[i], l)
        BY <1>4, <3>1 DEF l
      <4> QED BY <3>1, <4>1, <4>2, RecencyFacts DEF l
    <3>6. ASSUME NEW i \in 1 .. k + n PROVE all[i] \in DOMAIN R /\ ~After(At1(all[i]), next)
      <4>1. CASE i \in 1 .. k
        BY <1>5, <1>9, <3>3, <3>4, <4>1
      <4>2. CASE \E j \in 1 .. n : i = k + j
        <5>1. PICK j \in 1 .. n : i = k + j
          BY <4>2
        <5>2. all[i] = p[j].run /\ p[j] \in M
          BY <1>4, <1>10, <5>1
        <5>3. all[i] \in DOMAIN R /\ p[j] = At1(all[i])
          BY <1>1, <5>2
        <5> QED BY <3>3, <3>5, <5>3
      <4> QED BY <1>11, <4>1, <4>2
    <3>7. \A r \in steady : After(At1(r), next) \/ \E i \in 1 .. k + n : all[i] = r
      BY <1>15, <3>3 DEF l
    <3>8. \E c \in Cursors : next = <<c>>
      BY <3>1, <3>2
    <3> QED BY <1>5, <1>8, <1>14, <3>6, <3>7, <3>8 DEF Walked, At1
  <2> QED BY <2>1, <2>2
<1> QED BY <1>8, <1>14, <1>16, <1>17 DEF all, q, next

-------------------------------------------------------------------------------
\* The invariant of the store.

Phases == {"off", "on", "over"}
WalkTypes ==
  [at : Phases, open : BOOLEAN, cursor : Seq(Cursors), seen : Seq(Runs), steady : SUBSET Runs]
ScanTypes ==
  [at : Phases, cursor : Seq(Cursors), mem : Seq(Runs), sql : Seq(Runs), steady : SUBSET Runs]

WalkInv(w, R, closed) ==
  /\ w \in WalkTypes /\ Once(w.seen)
  /\ w.at = "on" /\ ~closed => Walked(R, w.open, w.cursor, w.seen, w.steady)
  /\ w.at = "over" => Covers(w.seen, w.steady)

ScanInv(c, R, closed) ==
  /\ c \in ScanTypes /\ Once(c.mem) /\ Once(c.sql) /\ Covers(c.mem, c.steady)
  /\ c.at = "on" /\ ~closed => Walked(R, TRUE, c.cursor, c.sql, c.steady)
  /\ c.at = "over" => Covers(c.sql, c.steady)

StoreInv ==
  /\ agreed /\ mem.closed \in BOOLEAN
  /\ IF mem.closed THEN mem = [EmptyMem EXCEPT !.closed = TRUE] /\ sql.closed = TRUE
     ELSE Stored(mem, sql)
  /\ WalkInv(walk, mem.runs, mem.closed) /\ ScanInv(scan, mem.runs, mem.closed)

\* The runs R are still among Q, and those of `left` that matched still match.
Grows(R, Q, left, open) ==
  /\ \A r \in DOMAIN R : r \in DOMAIN Q /\ Q[r].rec.started = R[r].rec.started
  /\ \A r \in left : r \in DOMAIN R /\ Matches(R[r].rec, open) => Matches(Q[r].rec, open)

\* Runs created or written meanwhile do not disturb a walk.
LEMMA WalkGrows ==
  ASSUME NEW R, NEW open, NEW cursor, NEW seen, NEW steady,
         Walked(R, open, cursor, seen, steady),
         NEW Q, NEW left \in SUBSET steady, Grows(R, Q, left, open)
  PROVE  Walked(Q, open, cursor, seen, left)
<1>1. \A r \in DOMAIN R : r \in DOMAIN Q /\ Q[r].rec.started = R[r].rec.started
  BY DEF Grows
<1>2. \A r \in left : Matches(Q[r].rec, open)
  BY DEF Walked, Grows
<1> QED BY <1>1, <1>2, WalkStays

\* Nor does dropping from its promise the runs that stop matching.
LEMMA WalkKept ==
  ASSUME NEW w, NEW R, NEW closed, WalkInv(w, R, closed), NEW Q,
         NEW left \in SUBSET w.steady, Grows(R, Q, left, w.open)
  PROVE  WalkInv([w EXCEPT !.steady = left], Q, closed)
<1> DEFINE v == [w EXCEPT !.steady = left]
<1>1. /\ v \in WalkTypes /\ v.steady = left /\ v.at = w.at /\ v.open = w.open
      /\ v.cursor = w.cursor /\ v.seen = w.seen
  BY DEF WalkInv, WalkTypes
<1> HIDE DEF v
<1>2. v.at = "on" /\ ~closed => Walked(Q, v.open, v.cursor, v.seen, v.steady)
  BY <1>1, WalkGrows DEF WalkInv
<1>3. v.at = "over" => Covers(v.seen, v.steady)
  BY <1>1 DEF WalkInv, Covers
<1> QED BY <1>1, <1>2, <1>3 DEF WalkInv, v

\* The same for the scan of OpenExecutions.
LEMMA ScanKept ==
  ASSUME NEW c, NEW R, NEW closed, ScanInv(c, R, closed), NEW Q,
         NEW left \in SUBSET c.steady, Grows(R, Q, left, TRUE)
  PROVE  ScanInv([c EXCEPT !.steady = left], Q, closed)
<1> DEFINE v == [c EXCEPT !.steady = left]
<1>1. /\ v \in ScanTypes /\ v.steady = left /\ v.at = c.at
      /\ v.cursor = c.cursor /\ v.mem = c.mem /\ v.sql = c.sql
  BY DEF ScanInv, ScanTypes
<1> HIDE DEF v
<1>2. v.at = "on" /\ ~closed => Walked(Q, TRUE, v.cursor, v.sql, v.steady)
  BY <1>1, WalkGrows DEF ScanInv
<1>3. (v.at = "over" => Covers(v.sql, v.steady)) /\ Covers(v.mem, v.steady)
  BY <1>1 DEF ScanInv, Covers
<1> QED BY <1>1, <1>2, <1>3 DEF ScanInv, v

\* Walks go on as they are while no run stops matching.
LEMMA WalksKept ==
  ASSUME NEW w, NEW c, NEW R, NEW closed, WalkInv(w, R, closed), ScanInv(c, R, closed),
         NEW Q, Grows(R, Q, w.steady, w.open), Grows(R, Q, c.steady, TRUE)
  PROVE  WalkInv(w, Q, closed) /\ ScanInv(c, Q, closed)
<1>1. w = [w EXCEPT !.steady = w.steady]
  BY DEF WalkInv, WalkTypes
<1>2. c = [c EXCEPT !.steady = c.steady]
  BY DEF ScanInv, ScanTypes
<1>3. WalkInv([w EXCEPT !.steady = w.steady], Q, closed)
  BY WalkKept
<1>4. ScanInv([c EXCEPT !.steady = c.steady], Q, closed)
  BY ScanKept
<1> QED BY <1>1, <1>2, <1>3, <1>4

\* The empty stores.
LEMMA StoreInitInv ==
  StoreInit => StoreInv
<1> SUFFICES ASSUME StoreInit PROVE StoreInv
  OBVIOUS
<1>1. /\ mem.runs = <<>> /\ mem.heap = <<>> /\ mem.byRun = <<>> /\ mem.closed = FALSE
      /\ sql.executions = {} /\ sql.events = {} /\ sql.timers = {} /\ sql.closed = FALSE
      /\ agreed = TRUE
  BY DEF StoreInit, EmptyMem, EmptySql
<1>2. DOMAIN <<>> = {} /\ <<>> \in Seq(Cells) /\ Len(<<>>) = 0
  OBVIOUS
<1>3. <<>> \in [{} -> RunRecords] /\ <<>> \in [{} -> SUBSET Nat]
  OBVIOUS
<1>4. <<>> \in RunTables /\ <<>> \in Reverses
  BY <1>3 DEF RunTables, Reverses
<1>5. mem \in Mems
  BY <1>2, <1>4 DEF StoreInit, EmptyMem, Mems
<1>6. sql \in Sqls
  BY DEF StoreInit, EmptySql, Sqls, Logs
<1>7. Tables(mem.runs, sql.executions, sql.events)
  <2>1. IsFiniteSet({})
    BY FS_EmptySet
  <2> QED BY <1>1, <1>2, <1>4, <2>1 DEF Tables, Logs
<1>8. Indexed(mem, sql.timers)
  <2>1. Heap(mem.heap) /\ \A c : ~Holds(mem.heap, c)
    BY <1>1, <1>2 DEF Heap, KeysDiffer, IsHeap, Holds
  <2>2. \A r \in Runs : ByRun(mem, r) = KeysOf({}, r)
    BY <1>1, <1>2 DEF ByRun, KeysOf
  <2> QED BY <1>1, <1>2, <1>5, <2>1, <2>2 DEF Indexed
<1>9. Stored(mem, sql)
  BY <1>1, <1>6, <1>7, <1>8 DEF Stored, Owned
<1>10. Once(<<>>) /\ Covers(<<>>, {})
  BY <1>2 DEF Once, Covers
<1>11. WalkInv(walk, mem.runs, mem.closed)
  BY <1>10 DEF StoreInit, NoWalk, WalkInv, WalkTypes, Phases
<1>12. ScanInv(scan, mem.runs, mem.closed)
  BY <1>10 DEF StoreInit, NoScan, ScanInv, ScanTypes, Phases
<1> QED BY <1>1, <1>9, <1>11, <1>12 DEF StoreInv

\* CreateExecution.
LEMMA CreateInv ==
  ASSUME StoreInv, NEW r \in Runs, NEW at \in Stamps, Create(r, at, {[n |-> 1, at |-> Deadline]})
  PROVE  StoreInv'
<1> DEFINE ts == {[n |-> 1, at |-> Deadline]}
           Q == WithRun(mem.runs, r, NewRun(at))
<1>1. ts \in Batches
  <2>1. [n |-> 1, at |-> Deadline] \in [n : 1 .. TimersPerRun, at : Stamps]
    BY Constants
  <2> QED BY <2>1 DEF Batches
<1>2. /\ ~mem.closed /\ r \notin DOMAIN mem.runs /\ mem' = CreateMem(mem, r, at, ts)
      /\ sql' = CreateSql(sql, r, at, ts) /\ agreed' = TRUE /\ walk' = walk /\ scan' = scan
  BY DEF Create
<1> HIDE DEF ts
<1>3. /\ mem.closed = FALSE /\ Stored(mem, sql)
      /\ WalkInv(walk, mem.runs, FALSE) /\ ScanInv(scan, mem.runs, FALSE)
  BY <1>2 DEF StoreInv
<1>4. Stored(mem', sql') /\ mem'.runs = Q
  BY <1>1, <1>2, <1>3, CreateKeeps
<1>5. mem'.closed = FALSE
  BY <1>4 DEF Stored, Indexed, Mems
<1>6. \A x \in DOMAIN mem.runs : x \in DOMAIN Q /\ Q[x] = mem.runs[x]
  BY <1>2 DEF WithRun
<1> HIDE DEF Q
<1>7. Grows(mem.runs, Q, walk.steady, walk.open) /\ Grows(mem.runs, Q, scan.steady, TRUE)
  BY <1>6 DEF Grows
<1>8. WalkInv(walk, Q, FALSE) /\ ScanInv(scan, Q, FALSE)
  BY <1>3, <1>7, WalksKept
<1> QED BY <1>2, <1>4, <1>5, <1>8 DEF StoreInv

\* DeleteTimers.
LEMMA DeleteTimersInv ==
  ASSUME StoreInv, NEW r \in Runs, NEW n \in 1 .. TimersPerRun, DeleteTimers(r, n)
  PROVE  StoreInv'
<1>1. /\ ~mem.closed /\ mem' = RemoveTimers(mem, r, {TimerKey(r, n)})
      /\ sql' = [sql EXCEPT !.timers = DeleteRows(@, r, {n})]
      /\ agreed' = TRUE /\ walk' = walk /\ scan' = scan
  BY DEF DeleteTimers
<1>2. /\ mem.closed = FALSE /\ Stored(mem, sql)
      /\ WalkInv(walk, mem.runs, FALSE) /\ ScanInv(scan, mem.runs, FALSE)
  BY <1>1 DEF StoreInv
<1>3. Stored(mem', sql') /\ mem'.runs = mem.runs
  BY <1>1, <1>2, DeleteKeeps
<1>4. mem'.closed = FALSE
  BY <1>3 DEF Stored, Indexed, Mems
<1> QED BY <1>1, <1>2, <1>3, <1>4 DEF StoreInv

\* Close.
LEMMA CloseInv ==
  ASSUME StoreInv, Close
  PROVE  StoreInv'
<1>1. /\ mem' = [EmptyMem EXCEPT !.closed = TRUE] /\ sql' = [sql EXCEPT !.closed = TRUE]
      /\ agreed' = TRUE /\ walk' = walk /\ scan' = scan /\ ~mem.closed
  BY DEF Close
<1>2. mem'.closed = TRUE
  BY <1>1 DEF EmptyMem
<1>3. sql \in Sqls
  BY <1>1 DEF StoreInv, Stored
<1>4. sql'.closed = TRUE
  BY <1>1, <1>3 DEF Sqls
<1>5. WalkInv(walk', mem'.runs, TRUE) /\ ScanInv(scan', mem'.runs, TRUE)
  BY <1>1 DEF StoreInv, WalkInv, ScanInv
<1> QED BY <1>1, <1>2, <1>4, <1>5 DEF StoreInv

\* What a caller holds are numbers.
LEMMA HeldIs ==
  ASSUME StoreInv, NEW r \in Runs
  PROVE  Held(r).version \in Nat /\ Held(r).last \in Nat
<1>1. CASE r \in DOMAIN mem.runs
  <2>1. mem.closed = FALSE
    BY <1>1 DEF StoreInv, EmptyMem
  <2>2. mem.runs \in RunTables
    BY <2>1 DEF StoreInv, Stored, Tables
  <2>3. mem.runs[r] \in RunRecords
    BY <1>1, <2>2, RunIs
  <2> QED BY <1>1, <2>3 DEF Held, RunRecords
<1>2. CASE r \notin DOMAIN mem.runs
  BY <1>2 DEF Held
<1> QED BY <1>1, <1>2

\* The call that AppendHistory makes of a request.
CallOf(r, req, version, first) ==
  [run |-> r, version |-> version, first |-> first, events |-> req.events,
   closes |-> req.closes, delete |-> req.delete, upsert |-> req.upsert,
   timersOf |-> IF req.alien THEN r + 1 ELSE r]

\* The call that is made of a request.
LEMMA CallIs ==
  ASSUME NEW r \in Runs, NEW req \in Requests, NEW version \in Int, NEW first \in Int
  PROVE  /\ CallOf(r, req, version, first) \in Calls
         /\ CallOf(r, req, version, first).upsert \in Batches
         /\ CallOf(r, req, version, first).run = r
         /\ CallOf(r, req, version, first).closes = req.closes
<1>1. /\ req.events \in Seq(Stamps) /\ req.closes \in BOOLEAN
      /\ req.delete \in SUBSET (1 .. TimersPerRun)
      /\ req.upsert \in SUBSET [n : 1 .. TimersPerRun, at : Stamps]
      /\ \A t, u \in req.upsert : t.n = u.n => t = u
  BY RequestsAssumption
<1>2. r \in Nat /\ r + 1 \in Nat
  BY Constants
<1>3. req.upsert \in Batches
  BY <1>1 DEF Batches
<1> QED BY <1>1, <1>2, <1>3 DEF CallOf, Calls

\* AppendHistory, accepted or refused.
LEMMA AppendInv ==
  ASSUME StoreInv, NEW r \in Runs, NEW req \in Requests, NEW version \in Int, NEW first \in Int,
         AppendHistory(r, req, version, first)
  PROVE  StoreInv'
<1> DEFINE q == CallOf(r, req, version, first)
           ok == AnswerMem(mem, q) = "ok"
<1>1. q \in Calls /\ q.upsert \in Batches /\ q.run = r /\ q.closes = req.closes
  BY CallIs
<1>2. /\ mem' = AppendMem(mem, q) /\ sql' = AppendSql(sql, q)
      /\ agreed' = (AnswerMem(mem, q) = AnswerSql(sql, q))
      /\ IF ok /\ q.closes THEN Unsteady(r) ELSE UNCHANGED <<walk, scan>>
  BY DEF AppendHistory, CallOf
<1> HIDE DEF q
<1>3. AnswerMem(mem, q) = AnswerSql(sql, q)
  <2>1. CASE mem.closed
    BY <2>1 DEF StoreInv, AnswerMem, AnswerSql
  <2>2. CASE ~mem.closed
    <3>1. Stored(mem, sql)
      BY <2>2 DEF StoreInv
    <3>2. mem \in Mems /\ Tables(mem.runs, sql.executions, sql.events) /\ mem.closed = sql.closed
      BY <3>1 DEF Stored, Indexed, Mems, Sqls
    <3> QED BY <1>1, <3>2, SameAnswer
  <2> QED BY <2>1, <2>2
<1>4. agreed'
  BY <1>2, <1>3
<1>5. CASE ~ok
  <2>1. mem' = mem /\ sql' = sql
    BY <1>2, <1>3, <1>5 DEF AppendMem, AppendSql
  <2>2. walk' = walk /\ scan' = scan
    BY <1>2, <1>5
  <2> QED BY <1>4, <2>1, <2>2 DEF StoreInv
<1>6. CASE ok
  <2> DEFINE R == mem.runs
             x == R[r]
             y == RunAfter(x, q)
             Q == WithRun(R, r, y)
  <2>1. ~mem.closed
    BY <1>6 DEF AnswerMem
  <2>2. /\ mem.closed = FALSE /\ Stored(mem, sql)
        /\ WalkInv(walk, R, FALSE) /\ ScanInv(scan, R, FALSE)
    BY <2>1 DEF StoreInv
  <2>3. Stored(mem', sql') /\ r \in DOMAIN R /\ mem'.runs = Q /\ Continues(x, q)
    BY <1>1, <1>2, <1>6, <2>2, AppendKeeps
  <2>4. mem'.closed = FALSE
    BY <2>3 DEF Stored, Indexed, Mems
  <2>5. x \in RunRecords /\ Len(x.events) = x.rec.last
    BY <2>2, <2>3, RunIs DEF Stored, Tables
  <2>6. /\ y.rec.started = x.rec.started
        /\ x.rec.closedAt = 0 /\ ~q.closes => y.rec.closedAt = 0
    BY <1>1, <2>3, <2>5, RunAfterIs
  <2>7. /\ DOMAIN Q = DOMAIN R /\ Q[r] = y
        /\ \A v \in DOMAIN R : v # r => Q[v] = R[v]
    BY <2>3 DEF WithRun
  <2> HIDE DEF Q, y
  <2>8. \A v \in DOMAIN R : v \in DOMAIN Q /\ Q[v].rec.started = R[v].rec.started
    BY <2>6, <2>7
  <2>9. ASSUME NEW left, NEW open, q.closes /\ open => r \notin left
        PROVE  Grows(R, Q, left, open)
    <3>1. ASSUME NEW v \in left, v \in DOMAIN R, Matches(R[v].rec, open)
          PROVE  Matches(Q[v].rec, open)
      BY <2>6, <2>7, <2>9, <3>1 DEF Matches
    <3> QED BY <2>8, <3>1 DEF Grows
  <2> HIDE DEF R
  <2>10. WalkInv(walk', Q, FALSE) /\ ScanInv(scan', Q, FALSE)
    <3>1. CASE q.closes
      <4> DEFINE wl == walk.steady \ (IF walk.open THEN {r} ELSE {})
                 sl == scan.steady \ {r}
      <4>1. walk' = [walk EXCEPT !.steady = wl] /\ scan' = [scan EXCEPT !.steady = sl]
        BY <1>2, <1>6, <3>1 DEF Unsteady
      <4>2. walk.open => r \notin wl
        OBVIOUS
      <4>3. r \notin sl /\ wl \in SUBSET walk.steady /\ sl \in SUBSET scan.steady
        OBVIOUS
      <4> HIDE DEF wl, sl
      <4>4. Grows(R, Q, wl, walk.open)
        BY <2>9, <4>2
      <4>5. Grows(R, Q, sl, TRUE)
        BY <2>9, <4>3
      <4>6. WalkInv([walk EXCEPT !.steady = wl], Q, FALSE)
        BY <2>2, <4>3, <4>4, WalkKept
      <4>7. ScanInv([scan EXCEPT !.steady = sl], Q, FALSE)
        BY <2>2, <4>3, <4>5, ScanKept
      <4> QED BY <4>1, <4>6, <4>7
    <3>2. CASE ~q.closes
      <4>1. walk' = walk /\ scan' = scan
        BY <1>2, <3>2
      <4>2. Grows(R, Q, walk.steady, walk.open) /\ Grows(R, Q, scan.steady, TRUE)
        BY <2>9, <3>2
      <4>3. WalkInv(walk, Q, FALSE) /\ ScanInv(scan, Q, FALSE)
        BY <2>2, <4>2, WalksKept
      <4> QED BY <4>1, <4>3
    <3> QED BY <3>1, <3>2
  <2> QED BY <1>4, <2>3, <2>4, <2>10 DEF StoreInv
<1> QED BY <1>5, <1>6

\* The first page of a listing.
LEMMA BeginWalkInv ==
  ASSUME StoreInv, NEW open \in BOOLEAN, BeginWalk(open)
  PROVE  StoreInv'
<1> DEFINE S == IF open THEN OpenRuns ELSE DOMAIN mem.runs
<1>1. /\ ~mem.closed
      /\ walk' = [at |-> "on", open |-> open, cursor |-> <<>>, seen |-> <<>>, steady |-> S]
      /\ mem' = mem /\ sql' = sql /\ agreed' = agreed /\ scan' = scan
  BY DEF BeginWalk, NoWalk
<1>2. mem.runs \in RunTables
  BY <1>1 DEF StoreInv, Stored, Tables
<1>3. \A r \in S : r \in DOMAIN mem.runs /\ Matches(mem.runs[r].rec, open)
  BY DEF OpenRuns, Matches
<1>4. S \in SUBSET Runs
  BY <1>2, <1>3, RunIs
<1> HIDE DEF S
<1>5. Walked(mem.runs, open, <<>>, <<>>, S)
  BY <1>3, WalkBegins
<1>6. /\ walk' \in WalkTypes /\ walk'.at = "on" /\ walk'.open = open /\ walk'.cursor = <<>>
      /\ walk'.seen = <<>> /\ walk'.steady = S
  BY <1>1, <1>4 DEF WalkTypes, Phases
<1>7. WalkInv(walk', mem.runs, mem.closed)
  BY <1>5, <1>6 DEF WalkInv, Walked
<1> QED BY <1>1, <1>7 DEF StoreInv

\* The next page of a listing.
LEMMA NextPageInv ==
  ASSUME StoreInv, NextPage
  PROVE  StoreInv'
<1> DEFINE page == ListSql(sql, walk.open, walk.cursor, PageSize)
           p == page.rows
           more == page.more
           R == mem.runs
           seen == walk.seen \o RunsOf(p)
<1>1. /\ walk.at = "on" /\ ~mem.closed
      /\ walk' = [walk EXCEPT !.seen = seen,
                              !.cursor = IF more THEN <<Last(p)>> ELSE @,
                              !.at = IF more THEN "on" ELSE "over"]
      /\ mem' = mem /\ sql' = sql /\ agreed' = agreed /\ scan' = scan
  BY DEF NextPage
<1>2. Tables(R, sql.executions, sql.events)
  BY <1>1 DEF StoreInv, Stored
<1>3. IsPage(p, more, MatchesOf(R, walk.open), walk.cursor, PageSize)
  BY <1>2, PageIs, Constants
<1>4. walk \in WalkTypes /\ Walked(R, walk.open, walk.cursor, walk.seen, walk.steady)
  BY <1>1 DEF StoreInv, WalkInv
<1> HIDE DEF page
<1> DEFINE next == IF p = <<>> THEN walk.cursor ELSE <<Last(p)>>
<1>5. /\ seen \in Seq(Runs) /\ Once(seen)
      /\ Walked(R, walk.open, next, seen, walk.steady)
      /\ ~more => Covers(seen, walk.steady)
  BY <1>2, <1>3, <1>4, WalkTurns, Constants
<1> HIDE DEF seen
<1>6. more => next = <<Last(p)>> /\ next \in Seq(Cursors)
  <2>1. ASSUME more PROVE p # <<>> /\ Last(p) \in Cursors
    <3>1. Len(p) = PageSize /\ p \in Seq(MatchesOf(R, walk.open))
      BY <1>3, <2>1 DEF IsPage
    <3>2. Len(p) \in 1 .. Len(p)
      BY <3>1, Constants
    <3>3. p[Len(p)] \in MatchesOf(R, walk.open)
      BY <3>1, <3>2, ElementOfSeq
    <3>4. MatchesOf(R, walk.open) \in SUBSET Cursors
      BY <1>2, MatchesAre
    <3>5. p # <<>>
      BY <3>2
    <3> QED BY <3>3, <3>4, <3>5 DEF Last
  <2> QED BY <2>1
<1> HIDE DEF p, more, R, next
<1>7. CASE more
  <2>1. walk' = [walk EXCEPT !.seen = seen, !.cursor = next, !.at = "on"]
    BY <1>1, <1>6, <1>7
  <2>2. /\ walk' \in WalkTypes /\ walk'.at = "on" /\ walk'.open = walk.open
        /\ walk'.cursor = next /\ walk'.seen = seen /\ walk'.steady = walk.steady
    BY <1>4, <1>5, <1>6, <1>7, <2>1 DEF WalkTypes, Phases
  <2>3. WalkInv(walk', R, mem.closed)
    BY <1>5, <2>2 DEF WalkInv
  <2> QED BY <1>1, <2>3 DEF StoreInv, R
<1>8. CASE ~more
  <2>1. walk' = [walk EXCEPT !.seen = seen, !.at = "over"]
    BY <1>1, <1>4, <1>8 DEF WalkTypes
  <2>2. /\ walk' \in WalkTypes /\ walk'.at = "over" /\ walk'.seen = seen
        /\ walk'.steady = walk.steady
    BY <1>4, <1>5, <2>1 DEF WalkTypes, Phases
  <2>3. WalkInv(walk', R, mem.closed)
    BY <1>5, <1>8, <2>2 DEF WalkInv
  <2> QED BY <1>1, <2>3 DEF StoreInv, R
<1> QED BY <1>7, <1>8

\* The copy that the memory driver takes for OpenExecutions.
LEMMA BeginScanInv ==
  ASSUME StoreInv, BeginScan
  PROVE  StoreInv'
<1> DEFINE R == mem.runs
           M == {Cursor(mem.runs[r].rec, r) : r \in OpenRuns}
           open == Newest(M)
           q == RunsOf(open)
<1>1. /\ ~mem.closed
      /\ scan' = [at |-> "on", cursor |-> <<>>, mem |-> q, sql |-> <<>>, steady |-> OpenRuns]
      /\ mem' = mem /\ sql' = sql /\ agreed' = agreed /\ walk' = walk
  BY DEF BeginScan, NoScan
<1>2. Tables(R, sql.executions, sql.events) /\ R \in RunTables
  BY <1>1 DEF StoreInv, Stored, Tables
<1>3. M = MatchesOf(R, TRUE)
  BY DEF OpenRuns, Matches, MatchesOf
<1>4. \A r \in OpenRuns : r \in DOMAIN R /\ Matches(R[r].rec, TRUE)
  BY DEF OpenRuns, Matches
<1>5. OpenRuns \in SUBSET Runs
  BY <1>2, <1>4, RunIs
<1>6. /\ IsFiniteSet(M) /\ OnePerRun(M)
      /\ \A c \in M : c.run \in Runs
  BY ZenonT(60), <1>2, <1>3, MatchesAre, RunIs
<1>7. \A r \in OpenRuns : \E c \in M : c.run = r
  <2>1. \A r \in OpenRuns : Cursor(mem.runs[r].rec, r) \in M
    OBVIOUS
  <2>2. \A r \in OpenRuns : Cursor(mem.runs[r].rec, r).run = r
    BY DEF Cursor
  <2> QED BY <2>1, <2>2
<1> HIDE DEF M
<1>8. /\ Lists(open, RecencyOn(M), M)
      /\ \A a, b \in M : <<a, b>> \in RecencyOn(M) <=> Recency(a, b)
  BY <1>6, NewestLists
<1>9. Orders(RecencyOn(M), M)
  BY <1>6, RecencyOrders
<1> HIDE DEF open
<1> DEFINE n == Len(open)
<1>10. /\ open \in Seq(M) /\ n \in Nat /\ DOMAIN open = 1 .. n
       /\ \A i \in 1 .. n : open[i] \in M
       /\ \A i, j \in 1 .. n : i < j => <<open[i], open[j]>> \in RecencyOn(M)
       /\ \A c \in M : \E i \in 1 .. n : open[i] = c
  BY <1>8 DEF Lists
<1> HIDE DEF n
<1>11. q \in Seq(Runs) /\ Len(q) = n /\ \A i \in 1 .. n : q[i] = open[i].run
  <2>1. q = [i \in 1 .. n |-> open[i].run]
    BY <1>10 DEF RunsOf
  <2>2. q \in [1 .. n -> Runs]
    BY <1>6, <1>10, <2>1
  <2> HIDE DEF q
  <2> QED BY <1>10, <2>1, <2>2
<1> HIDE DEF q
<1>12. Once(q)
  <2> SUFFICES ASSUME NEW i \in 1 .. n, NEW j \in 1 .. n, q[i] = q[j], i < j PROVE FALSE
    BY <1>10, <1>11 DEF Once
  <2>1. open[i] = open[j]
    BY <1>6, <1>10, <1>11 DEF OnePerRun
  <2> QED BY <1>9, <1>10, <2>1 DEF Orders
<1>13. Covers(q, OpenRuns)
  <2> SUFFICES ASSUME NEW r \in OpenRuns PROVE \E i \in 1 .. n : q[i] = r
    BY <1>11 DEF Covers
  <2>1. PICK c \in M : c.run = r
    BY <1>7
  <2> QED BY <1>10, <1>11, <2>1
<1>14. Walked(R, TRUE, <<>>, <<>>, OpenRuns)
  BY <1>4, WalkBegins
<1>15. /\ scan' \in ScanTypes /\ scan'.at = "on" /\ scan'.cursor = <<>> /\ scan'.mem = q
       /\ scan'.sql = <<>> /\ scan'.steady = OpenRuns
  BY <1>1, <1>5, <1>11 DEF ScanTypes, Phases
<1>16. ScanInv(scan', R, mem.closed)
  BY <1>12, <1>13, <1>14, <1>15 DEF ScanInv, Walked
<1> QED BY <1>1, <1>16 DEF StoreInv

\* The next page of SQLite's OpenExecutions.
LEMMA VisitPageInv ==
  ASSUME StoreInv, VisitPage
  PROVE  StoreInv'
<1> DEFINE page == ListSql(sql, TRUE, scan.cursor, ScanPageSize)
           p == page.rows
           more == page.more
           R == mem.runs
           seen == scan.sql \o RunsOf(p)
           next == IF p = <<>> THEN scan.cursor ELSE <<Last(p)>>
           last == Len(p) < ScanPageSize
<1>1. /\ scan.at = "on" /\ ~sql.closed
      /\ scan' = [scan EXCEPT !.sql = seen, !.at = IF last THEN "over" ELSE "on", !.cursor = next]
      /\ mem' = mem /\ sql' = sql /\ agreed' = agreed /\ walk' = walk
  BY DEF VisitPage
<1>2. mem.closed = FALSE /\ Tables(R, sql.executions, sql.events)
  BY <1>1 DEF StoreInv, Stored
<1>3. IsPage(p, more, MatchesOf(R, TRUE), scan.cursor, ScanPageSize)
  BY <1>2, PageIs, Constants
<1>4. /\ scan \in ScanTypes /\ Walked(R, TRUE, scan.cursor, scan.sql, scan.steady)
      /\ Once(scan.mem) /\ Covers(scan.mem, scan.steady)
  BY <1>1, <1>2 DEF StoreInv, ScanInv
<1> HIDE DEF page
<1>5. /\ seen \in Seq(Runs) /\ Once(seen)
      /\ Walked(R, TRUE, next, seen, scan.steady)
      /\ ~more => Covers(seen, scan.steady)
  <2> DEFINE open == TRUE
             cursor == scan.cursor
             before == scan.sql
             steady == scan.steady
  <2>1. /\ Walked(R, open, cursor, before, steady)
        /\ IsPage(p, more, MatchesOf(R, open), cursor, ScanPageSize)
    BY <1>3, <1>4
  <2> HIDE DEF open, cursor, before, steady, p, more, R
  <2>2. /\ before \o RunsOf(p) \in Seq(Runs) /\ Once(before \o RunsOf(p))
        /\ Walked(R, open, IF p = <<>> THEN cursor ELSE <<Last(p)>>, before \o RunsOf(p), steady)
        /\ ~more => Covers(before \o RunsOf(p), steady)
    BY <1>2, <2>1, WalkTurns, Constants
  <2> QED BY <2>2 DEF open, cursor, before, steady
<1> HIDE DEF seen
<1>6. last => ~more
  BY <1>3, Constants DEF IsPage
<1>7. next \in Seq(Cursors)
  <2>1. CASE p = <<>>
    BY <1>4, <2>1 DEF ScanTypes
  <2>2. CASE p # <<>>
    <3>1. p \in Seq(MatchesOf(R, TRUE))
      BY <1>3 DEF IsPage
    <3>2. Len(p) \in 1 .. Len(p)
      BY <2>2, <3>1
    <3>3. p[Len(p)] \in MatchesOf(R, TRUE)
      BY <3>1, <3>2, ElementOfSeq
    <3>4. MatchesOf(R, TRUE) \in SUBSET Cursors
      BY <1>2, MatchesAre
    <3>5. Last(p) \in Cursors
      BY <3>3, <3>4 DEF Last
    <3> QED BY <2>2, <3>5
  <2> QED BY <2>1, <2>2
<1> HIDE DEF p, more, R, next, last
<1>8. /\ scan' \in ScanTypes /\ scan'.at = (IF last THEN "over" ELSE "on")
      /\ scan'.cursor = next /\ scan'.sql = seen /\ scan'.mem = scan.mem
      /\ scan'.steady = scan.steady
  BY <1>1, <1>4, <1>5, <1>7 DEF ScanTypes, Phases
<1>9. ScanInv(scan', R, mem.closed)
  BY <1>4, <1>5, <1>6, <1>8 DEF ScanInv
<1> QED BY <1>1, <1>9 DEF StoreInv, R

\* Every step of the store.
LEMMA StoreNextInv ==
  StoreInv /\ [StoreNext]_storeVars => StoreInv'
<1> SUFFICES ASSUME StoreInv, [StoreNext]_storeVars PROVE StoreInv'
  OBVIOUS
<1>1. ASSUME NEW r \in Runs, NEW at \in Stamps, Create(r, at, {[n |-> 1, at |-> Deadline]})
      PROVE  StoreInv'
  BY <1>1, CreateInv
<1>2. ASSUME NEW r \in Runs, NEW req \in Requests, NEW stale \in {<<0, 0>>, <<1, 0>>, <<0, 1>>},
             AppendHistory(r, req, Held(r).version - stale[1], Held(r).last + 1 - stale[2])
      PROVE  StoreInv'
  <2>1. stale[1] \in Int /\ stale[2] \in Int
    OBVIOUS
  <2>2. Held(r).version - stale[1] \in Int /\ Held(r).last + 1 - stale[2] \in Int
    BY <2>1, HeldIs
  <2> QED BY <1>2, <2>2, AppendInv
<1>3. ASSUME NEW r \in Runs, NEW n \in 1 .. TimersPerRun, DeleteTimers(r, n)
      PROVE  StoreInv'
  BY <1>3, DeleteTimersInv
<1>4. CASE UNCHANGED storeVars
  BY <1>4 DEF StoreInv, storeVars
<1> QED BY <1>1, <1>2, <1>3, <1>4, CloseInv, BeginWalkInv, NextPageInv, BeginScanInv, VisitPageInv
        DEF StoreNext

\* The drivers are in step, and walks on their way, in every reachable state.
LEMMA StoreInvHolds ==
  StoreSpec => []StoreInv
<1> QED BY StoreInitInv, StoreNextInv, PTL DEF StoreSpec

-------------------------------------------------------------------------------
\* What follows from it.

\* A sequence without repetition is as long as its range.
LEMMA OnceCounts ==
  ASSUME NEW S, NEW s \in Seq(S), Once(s)
  PROVE  Cardinality(Range(s)) = Len(s)
<1> DEFINE n == Len(s)
           T == Range(s)
<1>1. n \in Nat /\ DOMAIN s = 1 .. n /\ s = [i \in 1 .. n |-> s[i]]
  OBVIOUS
<1>2. T = {s[i] : i \in 1 .. n}
  BY <1>1 DEF Range
<1>3. \A i, j \in 1 .. n : s[i] = s[j] => i = j
  BY DEF Once
<1> HIDE DEF n, T
<1>4. s \in [1 .. n -> T]
  BY <1>1, <1>2
<1>5. s \in Bijection(1 .. n, T)
  BY <1>2, <1>3, <1>4 DEF Bijection, Injection, Surjection, IsInjective
<1>6. ExistsBijection(1 .. n, T)
  BY <1>5 DEF ExistsBijection
<1>7. Cardinality(T) = n
  BY <1>1, <1>6, FS_CountingElements
<1> QED BY <1>7 DEF n, T

\* What a sequence covers is in its range.
LEMMA CoversRange ==
  ASSUME NEW S, NEW s \in Seq(S), NEW steady, Covers(s, steady)
  PROVE  steady \subseteq Range(s)
<1>1. DOMAIN s = 1 .. Len(s)
  OBVIOUS
<1> QED BY <1>1 DEF Covers, Range

\* Whoever reads page after page misses nothing that stays and meets nothing twice,
\* whatever is created, appended or closed between two pages (ListExecutions,
\* OpenExecutions).
THEOREM StorePagesComplete == StoreSpec => []PagesComplete
<1>1. ASSUME StoreInv PROVE PagesComplete
  <2>1. WalkInv(walk, mem.runs, mem.closed) /\ ScanInv(scan, mem.runs, mem.closed)
    BY <1>1 DEF StoreInv
  <2>2. walk.seen \in Seq(Runs) /\ scan.mem \in Seq(Runs) /\ scan.sql \in Seq(Runs)
    BY <2>1 DEF WalkInv, ScanInv, WalkTypes, ScanTypes
  <2>3. WalkIsComplete
    <3>1. Cardinality(Range(walk.seen)) = Len(walk.seen)
      BY <2>1, <2>2, OnceCounts DEF WalkInv
    <3>2. walk.at = "over" => walk.steady \subseteq Range(walk.seen)
      BY <2>1, <2>2, CoversRange DEF WalkInv
    <3> QED BY <3>1, <3>2 DEF WalkIsComplete
  <2>4. ScanIsComplete
    <3>1. Cardinality(Range(scan.mem)) = Len(scan.mem)
      BY <2>1, <2>2, OnceCounts DEF ScanInv
    <3>2. Cardinality(Range(scan.sql)) = Len(scan.sql)
      BY <2>1, <2>2, OnceCounts DEF ScanInv
    <3>3. scan.at = "over" => scan.steady \subseteq Range(scan.sql)
      BY <2>1, <2>2, CoversRange DEF ScanInv
    <3>4. scan.steady \subseteq Range(scan.mem)
      BY <2>1, <2>2, CoversRange DEF ScanInv
    <3>5. scan.at = "over" => scan.steady \subseteq Range(scan.mem) \cap Range(scan.sql)
      BY <3>3, <3>4
    <3> QED BY <3>1, <3>2, <3>5 DEF ScanIsComplete
  <2> QED BY <2>3, <2>4 DEF PagesComplete
<1> QED BY <1>1, StoreInvHolds, PTL

\* The heap stays a heap with one entry per key, the logs are dense, and the reverse
\* index finds exactly the timers of open runs (AppendHistory, upsertTimer,
\* dropRunTimers, timerIndex).
THEOREM StoreIndexesSound == StoreSpec => []IndexesSound
<1>1. ASSUME StoreInv PROVE IndexesSound
  <2>1. CASE mem.closed
    <3>1. mem.runs = <<>> /\ mem.heap = <<>> /\ mem.byRun = <<>>
      BY <1>1, <2>1 DEF StoreInv, EmptyMem
    <3>2. DOMAIN <<>> = {} /\ Len(<<>>) = 0
      OBVIOUS
    <3>3. KeysIn(mem.heap) = {} /\ UNION {mem.byRun[r] : r \in DOMAIN mem.byRun} = {}
      BY <3>1, <3>2 DEF KeysIn
    <3>4. Cardinality(KeysIn(mem.heap)) = Len(mem.heap)
      BY <3>1, <3>2, <3>3, FS_EmptySet
    <3>5. StoreTypeOK
      BY <1>1, <3>1, <3>2 DEF StoreTypeOK, StoreInv, WalkInv, ScanInv, WalkTypes, ScanTypes, Phases
    <3>6. HeapSound
      BY <3>1, <3>2, <3>4 DEF HeapSound
    <3>7. TimersOwned
      BY <3>1, <3>2, <3>3 DEF TimersOwned
    <3> QED BY <3>5, <3>6, <3>7 DEF IndexesSound
  <2>2. CASE ~mem.closed
    <3>1. Stored(mem, sql)
      BY <1>1, <2>2 DEF StoreInv
    <3>2. /\ Tables(mem.runs, sql.executions, sql.events) /\ Indexed(mem, sql.timers)
          /\ Owned(mem.runs, sql.timers)
      BY <3>1 DEF Stored
    <3>3. StoreTypeOK
      <4>1. DOMAIN mem.runs \subseteq Runs
        BY <3>2 DEF Tables, RunTables
      <4>2. \A r \in DOMAIN mem.runs : Len(mem.runs[r].events) = mem.runs[r].rec.last
        BY <3>2 DEF Tables
      <4> QED BY <1>1, <4>1, <4>2 DEF StoreTypeOK, StoreInv, WalkInv, ScanInv, WalkTypes, ScanTypes, Phases
    <3> DEFINE h == mem.heap
               n == Len(h)
    <3>4. /\ h \in Seq(Cells) /\ n \in Nat /\ DOMAIN h = 1 .. n /\ KeysDiffer(h) /\ IsHeap(h)
          /\ \A c : Holds(h, c) <=> c \in sql.timers
      BY <3>2 DEF Indexed, Heap
    <3> HIDE DEF h
    <3>5. HeapSound
      <4> DEFINE s == [i \in 1 .. n |-> h[i].key]
      <4>1. \A i \in DOMAIN h : i > 1 => i \in 2 .. n
        BY <3>4
      <4>2. \A i \in DOMAIN h : i > 1 => Less(h[i \div 2], h[i])
        BY <3>4, <4>1 DEF IsHeap
      <4>3. \A i \in 1 .. n : h[i].key \in Nat
        <5>1. \A i \in 1 .. n : h[i] \in Cells
          BY <3>4, ElementOfSeq
        <5> QED BY <5>1 DEF Cells
      <4>4. s \in [1 .. n -> Nat]
        BY <4>3
      <4>5. s \in Seq(Nat) /\ Len(s) = n
        BY <3>4, <4>4
      <4>6. Once(s)
        BY <3>4, <4>5 DEF Once, KeysDiffer
      <4>7. Range(s) = KeysIn(h)
        <5>1. DOMAIN s = 1 .. n /\ \A i \in 1 .. n : s[i] = h[i].key
          OBVIOUS
        <5> HIDE DEF s, n
        <5>2. \A k : k \in Range(s) <=> \E i \in 1 .. n : k = h[i].key
          BY <5>1 DEF Range
        <5>3. \A k : k \in KeysIn(h) <=> \E i \in 1 .. n : k = h[i].key
          BY <3>4 DEF KeysIn
        <5> QED BY <5>2, <5>3
      <4> HIDE DEF s
      <4>8. Cardinality(KeysIn(h)) = n
        BY <4>5, <4>6, <4>7, OnceCounts
      <4> QED BY <4>2, <4>8 DEF HeapSound, h
    <3>6. \A k : k \in KeysIn(h) <=> \E c \in sql.timers : c.key = k
      <4>1. \A k : k \in KeysIn(h) <=> \E i \in 1 .. n : h[i].key = k
        BY <3>4 DEF KeysIn
      <4>2. \A c : c \in sql.timers <=> \E i \in 1 .. n : h[i] = c
        BY <3>4 DEF Holds
      <4> QED BY <4>1, <4>2
    <3>7. PICK D \in SUBSET Runs : mem.byRun \in [D -> SUBSET Nat]
      BY <3>2 DEF Indexed, Mems, Reverses
    <3>8. ASSUME NEW r \in D
          PROVE  /\ mem.byRun[r] = KeysOf(sql.timers, r) /\ mem.byRun[r] # {}
      BY <3>2, <3>7 DEF Indexed, ByRun
    <3>9. ASSUME NEW c \in sql.timers PROVE Owner(c.key) \in D /\ c.key \in mem.byRun[Owner(c.key)]
      <4>1. Owner(c.key) \in Runs /\ c.key \in KeysOf(sql.timers, Owner(c.key))
        BY <3>2 DEF Indexed, KeysOf
      <4>2. ByRun(mem, Owner(c.key)) = KeysOf(sql.timers, Owner(c.key))
        BY <3>2, <4>1 DEF Indexed
      <4> QED BY <3>7, <4>1, <4>2 DEF ByRun
    <3>10. KeysIn(h) = UNION {mem.byRun[r] : r \in D}
      <4>1. ASSUME NEW k \in KeysIn(h) PROVE \E r \in D : k \in mem.byRun[r]
        BY <3>6, <3>9
      <4>2. ASSUME NEW r \in D, NEW k \in mem.byRun[r] PROVE k \in KeysIn(h)
        BY <3>6, <3>8 DEF KeysOf
      <4> QED BY <4>1, <4>2
    <3>11. ASSUME NEW r \in D PROVE r \in OpenRuns /\ \A k \in mem.byRun[r] : Owner(k) = r
      <4>1. \A k \in mem.byRun[r] : \E c \in sql.timers : c.key = k /\ Owner(c.key) = r
        BY <3>8 DEF KeysOf
      <4>2. PICK k \in mem.byRun[r] : TRUE
        BY <3>8
      <4>3. PICK c \in sql.timers : c.key = k /\ Owner(c.key) = r
        BY <4>1
      <4>4. r \in OpenRuns
        BY <3>2, <4>3 DEF Owned, OpenRuns
      <4> QED BY <4>1, <4>4
    <3>12. TimersOwned
      BY <3>7, <3>10, <3>11 DEF TimersOwned, h
    <3> QED BY <3>3, <3>5, <3>12 DEF IndexesSound
  <2> QED BY <2>1, <2>2
<1> QED BY <1>1, StoreInvHolds, PTL

\* After any sequence of calls, stale and late ones included, both drivers answered alike
\* and hold the same rows and timers (CreateExecution, AppendHistory, DeleteTimers,
\* Close, GetExecution).
THEOREM StoreDriversAgree == StoreSpec => []DriversAgree
<1>1. ASSUME StoreInv PROVE DriversAgree
  <2>1. agreed
    BY <1>1 DEF StoreInv
  <2>2. CASE mem.closed
    <3>1. sql.closed
      BY <1>1, <2>2 DEF StoreInv
    <3> QED BY <2>1, <2>2, <3>1 DEF DriversAgree, GetMem, GetSql
  <2>3. CASE ~mem.closed
    <3>1. Stored(mem, sql)
      BY <1>1, <2>3 DEF StoreInv
    <3>2. Tables(mem.runs, sql.executions, sql.events) /\ Indexed(mem, sql.timers) /\ ~sql.closed
      BY <3>1 DEF Stored
    <3>3. ASSUME NEW r \in Runs PROVE GetMem(mem, r) = GetSql(sql, r)
      <4>1. /\ HasRow(sql, r) <=> r \in DOMAIN mem.runs
            /\ r \in DOMAIN mem.runs => Row(sql, r) = RowOf(r, mem.runs[r])
        BY <3>2, RowIs
      <4>2. CASE r \in DOMAIN mem.runs
        <5>1. mem.runs[r] \in RunRecords
          BY <3>2, <4>2, RunIs DEF Tables
        <5>2. mem.runs[r].rec =
                [started |-> mem.runs[r].rec.started, closedAt |-> mem.runs[r].rec.closedAt,
                 version |-> mem.runs[r].rec.version, last |-> mem.runs[r].rec.last]
          BY <5>1 DEF RunRecords
        <5>3. GetMem(mem, r) = mem.runs[r].rec
          BY <2>3, <4>2 DEF GetMem
        <5>4. GetSql(sql, r) =
                [started |-> mem.runs[r].rec.started, closedAt |-> mem.runs[r].rec.closedAt,
                 version |-> mem.runs[r].rec.version, last |-> mem.runs[r].rec.last]
          BY <3>2, <4>1, <4>2 DEF GetSql, RowOf
        <5> QED BY <5>2, <5>3, <5>4
      <4>3. CASE r \notin DOMAIN mem.runs
        BY <2>3, <3>2, <4>1, <4>3 DEF GetMem, GetSql
      <4> QED BY <4>2, <4>3
    <3>4. Range(mem.heap) = sql.timers
      <4>1. DOMAIN mem.heap = 1 .. Len(mem.heap)
        BY <3>2 DEF Indexed, Heap
      <4>2. \A c : c \in Range(mem.heap) <=> \E i \in 1 .. Len(mem.heap) : mem.heap[i] = c
        BY <4>1 DEF Range
      <4>3. \A c : c \in sql.timers <=> \E i \in 1 .. Len(mem.heap) : mem.heap[i] = c
        BY <3>2 DEF Indexed, Holds
      <4> QED BY <4>2, <4>3
    <3> QED BY <2>1, <3>3, <3>4 DEF DriversAgree
  <2> QED BY <2>2, <2>3
<1> QED BY <1>1, StoreInvHolds, PTL

-------------------------------------------------------------------------------
\* Reads.

\* A set of places that has every place after one of its own begins somewhere.
LEMMA Cut ==
  ASSUME NEW n \in Nat, NEW F \in SUBSET (1 .. n),
         \A i, j \in 1 .. n : i < j /\ i \in F => j \in F
  PROVE  \E i \in 1 .. n + 1 : \A j \in 1 .. n : j \in F <=> j >= i
<1> DEFINE S == {k \in Nat : k <= n => \E i \in 1 .. k + 1 : \A j \in 1 .. k : j \in F <=> j >= i}
<1>1. 0 \in S
  <2>1. 1 \in 1 .. 0 + 1 /\ \A j \in 1 .. 0 : j \in F <=> j >= 1
    OBVIOUS
  <2> QED BY <2>1
<1>2. ASSUME NEW k \in S PROVE k + 1 \in S
  <2> SUFFICES ASSUME k + 1 <= n
               PROVE  \E i \in 1 .. (k + 1) + 1 : \A j \in 1 .. k + 1 : j \in F <=> j >= i
    OBVIOUS
  <2>1. PICK i \in 1 .. k + 1 : \A j \in 1 .. k : j \in F <=> j >= i
    OBVIOUS
  <2>2. k \in Nat /\ \A j \in 1 .. k + 1 : j \in 1 .. k \/ j = k + 1
    OBVIOUS
  <2>3. CASE k + 1 \in F
    <3>1. i \in 1 .. (k + 1) + 1 /\ \A j \in 1 .. k + 1 : j \in F <=> j >= i
      BY <2>1, <2>2, <2>3
    <3> QED BY <3>1
  <2>4. CASE k + 1 \notin F
    <3>1. \A j \in 1 .. k : j \notin F
      BY <2>2, <2>4
    <3>2. (k + 1) + 1 \in 1 .. (k + 1) + 1 /\ \A j \in 1 .. k + 1 : j \in F <=> j >= (k + 1) + 1
      BY <2>2, <2>4, <3>1
    <3> QED BY <3>2
  <2> QED BY <2>3, <2>4
<1>3. S = Nat
  <2>1. S \in SUBSET Nat
    OBVIOUS
  <2> HIDE DEF S
  <2> QED BY <1>1, <1>2, <2>1, Induction
<1>4. n \in S
  <2> HIDE DEF S
  <2> QED BY <1>3
<1>5. n <= n
  OBVIOUS
<1> QED BY <1>4, <1>5

\* The part of a sequence from one place to another.
LEMMA PartIs ==
  ASSUME NEW S, NEW s \in Seq(S), NEW a \in Nat, NEW b \in Nat, a >= 1, b <= Len(s), a <= b + 1
  PROVE  /\ SubSeq(s, a, b) \in Seq(S) /\ Len(SubSeq(s, a, b)) = b - a + 1
         /\ \A i \in 1 .. b - a + 1 :
              a + i - 1 \in 1 .. Len(s) /\ SubSeq(s, a, b)[i] = s[a + i - 1]
<1> DEFINE n == Len(s)
<1>1. n \in Nat /\ \A i \in 1 .. n : s[i] \in S
  BY ElementOfSeq
<1> HIDE DEF n
<1>2. \A i \in a .. b : i \in 1 .. n
  BY <1>1 DEF n
<1>3. \A i \in a .. b : s[i] \in S
  BY <1>1, <1>2
<1>4. /\ SubSeq(s, a, b) \in Seq(S)
      /\ Len(SubSeq(s, a, b)) = IF a <= b THEN b - a + 1 ELSE 0
      /\ \A i \in 1 .. b - a + 1 : SubSeq(s, a, b)[i] = s[a + i - 1]
  BY <1>3, SubSeqProperties
<1>5. \A i \in 1 .. b - a + 1 : a + i - 1 \in 1 .. n
  BY <1>1 DEF n
<1>6. (IF a <= b THEN b - a + 1 ELSE 0) = b - a + 1
  OBVIOUS
<1> QED BY <1>4, <1>5, <1>6 DEF n

\* The memory driver's listing, sorted, skipped and cut, is the SQLite driver's.
LEMMA ListsAgree ==
  ASSUME NEW m, NEW s, Tables(m.runs, s.executions, s.events), NEW open, NEW size \in Nat,
         NEW cursor, cursor = <<>> \/ \E c \in Cursors : cursor = <<c>>
  PROVE  ListMem(m, open, cursor, size) = ListSql(s, open, cursor, size)
<1> DEFINE M == MatchesOf(m.runs, open)
           A == {c \in M : After(c, cursor)}
           sorted == Newest(M)
           n == Len(sorted)
           Cuts(i) == \A j \in 1 .. n : After(sorted[j], cursor) <=> j >= i
           first == CHOOSE i \in 1 .. n + 1 : Cuts(i)
           rest == SubSeq(sorted, first, n)
           tail == Newest(A)
           k == Len(tail)
<1>1. /\ IsFiniteSet(M) /\ OnePerRun(M) /\ M \in SUBSET Cursors
      /\ M = {Cursor(e, e.run) : e \in {x \in s.executions : Matches(x, open)}}
  BY MatchesAre
<1>2. ListSql(s, open, cursor, size) =
        [rows |-> SubSeq(tail, 1, IF k < size THEN k ELSE size), more |-> k > size]
  BY <1>1 DEF ListSql
<1>3. ListMem(m, open, cursor, size) =
        IF Len(rest) > size THEN [rows |-> SubSeq(rest, 1, size), more |-> TRUE]
        ELSE [rows |-> rest, more |-> FALSE]
  BY DEF ListMem, MatchesOf
<1>4. /\ Lists(sorted, RecencyOn(M), M)
      /\ \A a, b \in M : <<a, b>> \in RecencyOn(M) <=> Recency(a, b)
  BY <1>1, NewestLists
<1>5. A \in SUBSET M /\ \A c \in M : c \in A <=> After(c, cursor)
  OBVIOUS
<1> HIDE DEF M, A, sorted
<1>6. OnePerRun(A)
  BY <1>1, <1>5 DEF OnePerRun
<1>7. Orders(RecencyOn(A), A)
  BY <1>6, RecencyOrders
<1>8. /\ sorted \in Seq(M) /\ n \in Nat
      /\ \A i \in 1 .. n : sorted[i] \in M
      /\ \A i, j \in 1 .. n : i < j => <<sorted[i], sorted[j]>> \in RecencyOn(M)
      /\ \A c \in M : \E i \in 1 .. n : sorted[i] = c
  BY SMTT(30), <1>4 DEF Lists
<1> HIDE DEF n
<1>9. \A i, j \in 1 .. n : i < j => Recency(sorted[i], sorted[j])
  BY <1>4, <1>8
<1>10. ASSUME NEW a \in M, NEW b \in M, Recency(a, b), After(a, cursor)
       PROVE  After(b, cursor)
  <2>1. CASE cursor = <<>>
    BY <2>1 DEF After
  <2>2. CASE \E c \in Cursors : cursor = <<c>>
    <3>1. PICK c \in Cursors : cursor = <<c>>
      BY <2>2
    <3>2. cursor # <<>> /\ cursor[1] = c
      BY <3>1
    <3>3. Recency(c, a) /\ a \in Cursors /\ b \in Cursors
      BY <1>1, <1>10, <3>2 DEF After
    <3>4. Recency(c, b)
      BY <1>10, <3>3, RecencyFacts
    <3> QED BY <3>2, <3>4 DEF After
  <2> QED BY <2>1, <2>2
<1>11. \E i \in 1 .. n + 1 : Cuts(i)
  <2> DEFINE F == {j \in 1 .. n : After(sorted[j], cursor)}
  <2>1. F \in SUBSET (1 .. n) /\ \A j \in 1 .. n : j \in F <=> After(sorted[j], cursor)
    OBVIOUS
  <2> HIDE DEF F
  <2>2. \A i, j \in 1 .. n : i < j /\ i \in F => j \in F
    BY <1>8, <1>9, <1>10, <2>1
  <2>3. \E i \in 1 .. n + 1 : \A j \in 1 .. n : j \in F <=> j >= i
    BY <1>8, <2>1, <2>2, Cut
  <2> QED BY <2>1, <2>3
<1>12. first \in 1 .. n + 1 /\ Cuts(first)
  <2> HIDE DEF Cuts
  <2> QED BY <1>11
<1> HIDE DEF first
<1>13. first \in Nat /\ first >= 1 /\ first <= n + 1 /\ n <= n
  BY <1>8, <1>12
<1> DEFINE l == n - first + 1
<1>14. /\ rest \in Seq(M) /\ Len(rest) = l
       /\ \A i \in 1 .. l : first + i - 1 \in 1 .. n /\ rest[i] = sorted[first + i - 1]
  <2>1. n = Len(sorted)
    BY DEF n
  <2> QED BY <1>8, <1>13, <2>1, PartIs
<1> HIDE DEF rest
<1>15. l \in Nat
  BY <1>8, <1>13
<1>16. \A i \in 1 .. l : rest[i] \in A
  <2> SUFFICES ASSUME NEW i \in 1 .. l PROVE rest[i] \in A
    OBVIOUS
  <2>1. first + i - 1 \in 1 .. n /\ rest[i] = sorted[first + i - 1] /\ first + i - 1 >= first
    BY <1>8, <1>13, <1>14
  <2>2. After(sorted[first + i - 1], cursor) /\ sorted[first + i - 1] \in M
    BY <1>8, <1>12, <2>1
  <2> QED BY <1>5, <2>1, <2>2
<1>17. rest \in Seq(A)
  <2>1. rest \in [1 .. l -> A]
    BY <1>14, <1>16
  <2> HIDE DEF l
  <2> QED BY <1>15, <2>1
<1>18. \A i, j \in 1 .. l : i < j => <<rest[i], rest[j]>> \in RecencyOn(A)
  <2> SUFFICES ASSUME NEW i \in 1 .. l, NEW j \in 1 .. l, i < j
               PROVE  <<rest[i], rest[j]>> \in RecencyOn(A)
    OBVIOUS
  <2>1. /\ first + i - 1 \in 1 .. n /\ rest[i] = sorted[first + i - 1]
        /\ first + j - 1 \in 1 .. n /\ rest[j] = sorted[first + j - 1]
    BY <1>14
  <2>2. first + i - 1 < first + j - 1
    BY <1>13, <1>15
  <2>3. Recency(rest[i], rest[j])
    BY <1>9, <2>1, <2>2
  <2> QED BY <1>16, <2>3 DEF RecencyOn
<1>19. ASSUME NEW c \in A PROVE \E i \in 1 .. l : rest[i] = c
  <2>1. PICK j \in 1 .. n : sorted[j] = c
    BY <1>5, <1>8
  <2>2. j >= first
    BY <1>5, <1>12, <2>1
  <2>3. j - first + 1 \in 1 .. l /\ first + (j - first + 1) - 1 = j
    BY <1>8, <1>13, <2>2
  <2>4. rest[j - first + 1] = sorted[j]
    BY <1>14, <2>3
  <2> QED BY <2>1, <2>3, <2>4
<1>20. Lists(rest, RecencyOn(A), A)
  BY <1>14, <1>17, <1>18, <1>19 DEF Lists
<1>21. rest = tail
  BY <1>7, <1>20, ListIsRanks, NewestIsRanked
<1> HIDE DEF l
<1>22. k = l /\ SubSeq(tail, 1, k) = tail
  <2>1. k = l
    BY <1>14, <1>21
  <2>2. SubSeq(rest, 1, Len(rest)) = rest
    BY <1>17
  <2> QED BY <1>21, <2>1, <2>2
<1> HIDE DEF tail, k
<1>23. CASE k > size
  <2>1. (IF k < size THEN k ELSE size) = size /\ Len(rest) > size
    BY <1>14, <1>15, <1>22, <1>23
  <2>2. ListMem(m, open, cursor, size) = [rows |-> SubSeq(rest, 1, size), more |-> TRUE]
    BY <1>3, <2>1
  <2>3. ListSql(s, open, cursor, size) = [rows |-> SubSeq(tail, 1, size), more |-> TRUE]
    BY <1>2, <1>23, <2>1
  <2> QED BY <1>21, <2>2, <2>3
<1>24. CASE ~(k > size)
  <2>1. (IF k < size THEN k ELSE size) = k
    BY <1>15, <1>22, <1>24
  <2>2. ListMem(m, open, cursor, size) = [rows |-> rest, more |-> FALSE]
    BY <1>3, <1>14, <1>22, <1>24
  <2>3. ListSql(s, open, cursor, size) = [rows |-> tail, more |-> FALSE]
    <3> DEFINE part == SubSeq(tail, 1, IF k < size THEN k ELSE size)
               more == k > size
    <3>1. part = tail
      BY <1>22, <2>1, Zenon
    <3>2. more = FALSE
      BY <1>24
    <3>3. ListSql(s, open, cursor, size) = [rows |-> part, more |-> more]
      BY <1>2
    <3> HIDE DEF part, more
    <3> QED BY <3>1, <3>2, <3>3
  <2> QED BY <1>21, <2>2, <2>3
<1> QED BY <1>23, <1>24

\* Events by number.
NumberOn(rows) == {p \in rows \X rows : p[1][2] < p[2][2]}

Numbered(rows) == Ordered(rows, LAMBDA a, b : a[2] < b[2])

\* The events by number are the ranking of their rows.
LEMMA ByNumberIsRanked ==
  ASSUME NEW rows
  PROVE  Numbered(rows) = Ranked(NumberOn(rows), rows)
<1>1. \A c \in rows : {d \in rows : d[2] < c[2]} = Ahead(NumberOn(rows), rows, c)
  BY DEF Ahead, NumberOn
<1>2. \A i : \A c : c \in rows /\ Cardinality({d \in rows : d[2] < c[2]}) = i - 1
                    <=> c \in rows /\ Cardinality(Ahead(NumberOn(rows), rows, c)) = i - 1
  BY <1>1
<1> DEFINE N(i) == CHOOSE c \in rows : Cardinality({d \in rows : d[2] < c[2]}) = i - 1
           R(i) == CHOOSE c \in rows : Cardinality(Ahead(NumberOn(rows), rows, c)) = i - 1
<1>3. \A i : N(i) = R(i)
  BY <1>2, Zenon
<1>4. Numbered(rows) = [i \in 1 .. Cardinality(rows) |-> N(i)]
  BY DEF Numbered, Ordered
<1>5. Ranked(NumberOn(rows), rows) = [i \in 1 .. Cardinality(rows) |-> R(i)]
  BY DEF Ranked
<1> HIDE DEF N, R
<1> QED BY <1>3, <1>4, <1>5

\* Clamping the range to the log is the WHERE clause.
LEMMA HistoriesAgree ==
  ASSUME NEW m, NEW s, Tables(m.runs, s.executions, s.events), NEW r \in DOMAIN m.runs,
         NEW from \in Nat, NEW to \in Nat
  PROVE  ReadMem(m, r, from, to) = ReadSql(s, r, from, to)
<1> DEFINE events == m.runs[r].events
           n == Len(events)
           f == IF from < 1 THEN 1 ELSE from
           t == IF to <= 0 \/ to > n THEN n ELSE to
           rows == {e \in s.events : e[1] = r /\ InRange(e[2], f, to)}
           k == IF f <= t THEN t - f + 1 ELSE 0
           L == [i \in 1 .. k |-> <<r, f + i - 1, events[f + i - 1]>>]
           B == NumberOn(rows)
<1>1. /\ events \in Seq(Stamps) /\ n \in Nat /\ r \in Runs
      /\ \A x, i, z : <<x, i, z>> \in s.events <=>
           x \in DOMAIN m.runs /\ i \in 1 .. Len(m.runs[x].events) /\ z = m.runs[x].events[i]
      /\ s.events \in Logs
  BY RunIs DEF Tables
<1>2. ReadMem(m, r, from, to) = IF f > n \/ t < f THEN <<>> ELSE SubSeq(events, f, t)
  BY DEF ReadMem
<1>3. ReadSql(s, r, from, to) =
        [i \in DOMAIN Ranked(B, rows) |-> Ranked(B, rows)[i][3]]
  <2>1. ReadSql(s, r, from, to) =
          [i \in DOMAIN Numbered(rows) |-> Numbered(rows)[i][3]]
    BY DEF ReadSql, Numbered, Ordered
  <2> HIDE DEF rows
  <2> QED BY <2>1, ByNumberIsRanked
<1>4. \A x, i, z : <<x, i, z>> \in rows <=> x = r /\ i \in 1 .. n /\ z = events[i] /\ InRange(i, f, to)
  BY <1>1
<1>5. \A e \in rows : \E i \in 1 .. n : e = <<r, i, events[i]>>
  <2>1. \A e \in rows : \E x, i, z : e = <<x, i, z>>
    BY <1>1 DEF Logs
  <2> HIDE DEF rows, n
  <2> QED BY <1>4, <2>1
<1> HIDE DEF rows, events, n
<1>6. f \in Nat /\ f >= 1 /\ t \in Nat /\ t <= n
  BY <1>1
<1>7. \A i \in 1 .. n : InRange(i, f, to) <=> f <= i /\ i <= t
  BY <1>1 DEF InRange
<1> HIDE DEF f, t
<1>8. k \in Nat /\ \A i \in 1 .. k : f + i - 1 \in 1 .. n /\ f <= f + i - 1 /\ f + i - 1 <= t
  BY <1>1, <1>6
<1>9. \A i \in 1 .. n : f <= i /\ i <= t => i - f + 1 \in 1 .. k /\ f + (i - f + 1) - 1 = i
  BY <1>1, <1>6
<1> HIDE DEF k
<1>10. Orders(B, rows)
  <2>1. \A a, b \in rows : <<a, b>> \in B <=> a[2] < b[2]
    BY DEF NumberOn
  <2>2. \A a \in rows : a[2] \in Nat /\ a = <<r, a[2], events[a[2]]>>
    BY <1>5
  <2> HIDE DEF B
  <2> QED BY <2>1, <2>2 DEF Orders
<1>11. \A i \in 1 .. k : L[i] = <<r, f + i - 1, events[f + i - 1]>> /\ L[i] \in rows
  <2> SUFFICES ASSUME NEW i \in 1 .. k PROVE L[i] \in rows
    OBVIOUS
  <2>1. f + i - 1 \in 1 .. n /\ InRange(f + i - 1, f, to)
    BY <1>7, <1>8
  <2> QED BY <1>4, <2>1
<1>12. L \in Seq(rows) /\ Len(L) = k /\ DOMAIN L = 1 .. k
  <2>1. L \in [1 .. k -> rows]
    BY <1>11
  <2> HIDE DEF L
  <2> QED BY <1>8, <2>1
<1> HIDE DEF L
<1>13. \A i, j \in 1 .. k : i < j => <<L[i], L[j]>> \in B
  <2> SUFFICES ASSUME NEW i \in 1 .. k, NEW j \in 1 .. k, i < j PROVE <<L[i], L[j]>> \in B
    OBVIOUS
  <2>1. L[i][2] = f + i - 1 /\ L[j][2] = f + j - 1
    BY <1>11
  <2>2. f + i - 1 < f + j - 1
    BY <1>6, <1>8
  <2> QED BY <1>11, <2>1, <2>2 DEF NumberOn
<1>14. ASSUME NEW e \in rows PROVE \E i \in 1 .. k : L[i] = e
  <2>1. PICK i \in 1 .. n : e = <<r, i, events[i]>>
    BY <1>5
  <2>2. InRange(i, f, to)
    BY <1>4, <2>1
  <2>3. i - f + 1 \in 1 .. k /\ f + (i - f + 1) - 1 = i
    BY <1>7, <1>9, <2>2
  <2>4. L[i - f + 1] = <<r, i, events[i]>>
    BY <1>11, <2>3
  <2> QED BY <2>1, <2>3, <2>4
<1>15. Lists(L, B, rows)
  BY <1>12, <1>13, <1>14 DEF Lists
<1> HIDE DEF B
<1>16. L = Ranked(B, rows)
  BY <1>10, <1>15, ListIsRanks
<1>17. ReadSql(s, r, from, to) = [i \in 1 .. k |-> events[f + i - 1]]
  <2>1. ReadSql(s, r, from, to) = [i \in 1 .. k |-> L[i][3]]
    BY <1>3, <1>12, <1>16
  <2>2. \A i \in 1 .. k : L[i][3] = events[f + i - 1]
    BY <1>11
  <2> QED BY <2>1, <2>2
<1>18. CASE f > n \/ t < f
  <2>1. k = 0
    BY <1>1, <1>6, <1>18 DEF k
  <2>2. [i \in 1 .. k |-> events[f + i - 1]] = <<>>
    BY <2>1
  <2> QED BY <1>2, <1>17, <1>18, <2>2
<1>19. CASE ~(f > n \/ t < f)
  <2>1. f <= t + 1 /\ k = t - f + 1
    BY <1>6, <1>19 DEF k
  <2>2. n = Len(events)
    BY DEF n
  <2> DEFINE part == SubSeq(events, f, t)
  <2>3. part \in Seq(Stamps) /\ Len(part) = k /\ \A i \in 1 .. k : part[i] = events[f + i - 1]
    BY <1>1, <1>6, <2>1, <2>2, PartIs
  <2> HIDE DEF part
  <2>4. part = [i \in 1 .. k |-> events[f + i - 1]]
    BY <2>3
  <2> QED BY <1>2, <1>17, <1>19, <2>4 DEF part
<1> QED BY <1>18, <1>19

-------------------------------------------------------------------------------
\* The heap walk.

\* s has the entries of the heap in order, and pos their positions.
Sorted(h, s, pos) ==
  /\ s \in Seq(Cells) /\ pos \in [1 .. Len(s) -> 1 .. Len(h)]
  /\ \A i \in 1 .. Len(s) : h[pos[i]] = s[i]
  /\ \A p \in 1 .. Len(h) : \E i \in 1 .. Len(s) : pos[i] = p
  /\ \A i, j \in 1 .. Len(s) : i < j => Less(s[i], s[j])

\* The positions of the k earliest entries, and those next to be looked at.
Visited(pos, k) == {pos[i] : i \in 1 .. k}
FrontAt(h, pos, k) ==
  {p \in 1 .. Len(h) : p \notin Visited(pos, k) /\ (p = 1 \/ p \div 2 \in Visited(pos, k))}

\* The next entry in order is in the frontier, which an earlier one cannot be: its parent,
\* being less, was visited before.
LEMMA Frontier ==
  ASSUME NEW h, Heap(h), NEW s, NEW pos, Sorted(h, s, pos)
  PROVE  /\ FrontAt(h, pos, 0) = {1} \cap DOMAIN h
         /\ FrontAt(h, pos, Len(s)) = {}
         /\ \A k \in 0 .. Len(s) - 1 :
              /\ pos[k + 1] \in FrontAt(h, pos, k)
              /\ \A j \in FrontAt(h, pos, k) \ {pos[k + 1]} : Less(h[pos[k + 1]], h[j])
              /\ (FrontAt(h, pos, k) \ {pos[k + 1]}) \cup Children(h, pos[k + 1])
                   = FrontAt(h, pos, k + 1)
<1> DEFINE n == Len(h)
           m == Len(s)
<1>1. /\ h \in Seq(Cells) /\ n \in Nat /\ DOMAIN h = 1 .. n /\ m \in Nat
      /\ \A p \in 1 .. n : h[p] \in Cells
      /\ \A p \in 2 .. n : Less(h[p \div 2], h[p])
  BY DEF Heap, IsHeap, Sorted
<1>2. /\ \A i \in 1 .. m : pos[i] \in 1 .. n /\ h[pos[i]] = s[i] /\ s[i] \in Cells
      /\ \A p \in 1 .. n : \E i \in 1 .. m : pos[i] = p
      /\ \A i, j \in 1 .. m : i < j => Less(s[i], s[j])
  BY DEF Sorted
<1>3. \A k : FrontAt(h, pos, k) =
        {p \in 1 .. n : p \notin Visited(pos, k) /\ (p = 1 \/ p \div 2 \in Visited(pos, k))}
  BY DEF FrontAt
<1> HIDE DEF n, m
<1>4. \A i, j \in 1 .. m : Less(s[i], s[j]) => i < j
  <2> SUFFICES ASSUME NEW i \in 1 .. m, NEW j \in 1 .. m, Less(s[i], s[j]), ~(i < j) PROVE FALSE
    OBVIOUS
  <2>1. i = j \/ j < i
    BY <1>1
  <2> QED BY <1>2, <2>1, LessIsOrder
<1>5. \A i, j \in 1 .. m : pos[i] = pos[j] => i = j
  <2> SUFFICES ASSUME NEW i \in 1 .. m, NEW j \in 1 .. m, pos[i] = pos[j], i < j PROVE FALSE
    BY <1>1
  <2>1. s[i] = s[j] /\ Less(s[i], s[j])
    BY <1>2
  <2> QED BY <1>2, <2>1, LessIsOrder
<1>6. ASSUME NEW k \in 0 .. m, NEW i \in 1 .. m PROVE pos[i] \in Visited(pos, k) <=> i <= k
  <2>1. \A j \in 1 .. k : j \in 1 .. m
    BY <1>1
  <2>2. pos[i] \in Visited(pos, k) <=> \E j \in 1 .. k : pos[i] = pos[j]
    BY DEF Visited
  <2> QED BY <1>1, <1>5, <2>1, <2>2
<1>7. \A p \in 2 .. n : p \div 2 \in 1 .. n
  BY <1>1, Halves
<1>8. FrontAt(h, pos, 0) = {1} \cap DOMAIN h
  <2>1. Visited(pos, 0) = {}
    BY DEF Visited
  <2> QED BY <1>1, <1>3, <2>1
<1>9. FrontAt(h, pos, m) = {}
  <2>1. m \in 0 .. m
    BY <1>1
  <2>2. \A p \in 1 .. n : p \in Visited(pos, m)
    BY <1>2, <1>6, <2>1
  <2> QED BY <1>3, <2>2
<1>10. ASSUME NEW k \in 0 .. m - 1
       PROVE  /\ pos[k + 1] \in FrontAt(h, pos, k)
              /\ \A j \in FrontAt(h, pos, k) \ {pos[k + 1]} : Less(h[pos[k + 1]], h[j])
              /\ (FrontAt(h, pos, k) \ {pos[k + 1]}) \cup Children(h, pos[k + 1])
                   = FrontAt(h, pos, k + 1)
  <2> DEFINE q == pos[k + 1]
  <2>1. k + 1 \in 1 .. m /\ k \in 0 .. m /\ k + 1 \in 0 .. m /\ k \in Nat
    BY <1>1
  <2>2. q \in 1 .. n /\ h[q] = s[k + 1] /\ q \notin Visited(pos, k)
    BY <1>2, <1>6, <2>1
  <2>3. \A p \in 2 .. n : \A i, j \in 1 .. m : pos[i] = p \div 2 /\ pos[j] = p => i < j
    BY <1>1, <1>2, <1>4
  <2>4. q = 1 \/ q \in 2 .. n
    BY <1>1, <2>2
  <2>5. ASSUME q \in 2 .. n PROVE q \div 2 \in Visited(pos, k)
    <3>1. q \div 2 \in 1 .. n
      BY <1>7, <2>5
    <3>2. PICK i \in 1 .. m : pos[i] = q \div 2
      BY <1>2, <3>1
    <3>3. i < k + 1
      BY <2>1, <2>3, <2>5, <3>2
    <3>4. i <= k
      BY <1>1, <2>1, <3>3
    <3> QED BY <1>6, <2>1, <3>2, <3>4
  <2>6. q \in FrontAt(h, pos, k)
    BY <1>3, <2>2, <2>4, <2>5
  <2>7. ASSUME NEW j \in FrontAt(h, pos, k) \ {q} PROVE Less(h[q], h[j])
    <3>1. j \in 1 .. n /\ j \notin Visited(pos, k) /\ j # q
      BY <1>3
    <3>2. PICK i \in 1 .. m : pos[i] = j
      BY <1>2, <3>1
    <3>3. ~(i <= k) /\ i # k + 1
      BY <1>6, <2>1, <3>1, <3>2
    <3>4. k + 1 < i
      BY <1>1, <2>1, <3>3
    <3> QED BY <1>2, <2>1, <3>2, <3>4
  <2>8. \A p \in 1 .. n : p \in Visited(pos, k + 1) <=> p \in Visited(pos, k) \/ p = q
    <3> SUFFICES ASSUME NEW p \in 1 .. n
                 PROVE  p \in Visited(pos, k + 1) <=> p \in Visited(pos, k) \/ p = q
      OBVIOUS
    <3>1. PICK i \in 1 .. m : pos[i] = p
      BY <1>2
    <3>2. i <= k + 1 <=> i <= k \/ i = k + 1
      BY <1>1, <2>1
    <3>3. p = q <=> i = k + 1
      BY <1>5, <2>1, <3>1
    <3> QED BY <1>6, <2>1, <3>1, <3>2, <3>3
  <2>9. \A p \in 1 .. n : p \in Children(h, q) <=> p \div 2 = q
    <3> SUFFICES ASSUME NEW p \in 1 .. n PROVE p \in Children(h, q) <=> p \div 2 = q
      OBVIOUS
    <3>1. p \in Nat /\ q \in Nat
      BY <1>1, <2>2
    <3>2. p \div 2 = q <=> p = 2 * q \/ p = 2 * q + 1
      BY <3>1, Halves
    <3>3. p \in Children(h, q) <=> p = 2 * q \/ p = 2 * q + 1
      BY <1>1 DEF Children
    <3> QED BY <3>2, <3>3
  <2>10. Children(h, q) \in SUBSET (1 .. n)
    BY <1>1 DEF Children
  <2>11. ASSUME NEW p \in 1 .. n, p \div 2 = q PROVE p # q /\ p # 1 /\ p \notin Visited(pos, k)
    <3>1. p \in 2 .. n
      BY <1>1, <2>2, <2>11
    <3>2. PICK j \in 1 .. m : pos[j] = p
      BY <1>2
    <3>3. k + 1 < j
      BY <2>1, <2>3, <2>11, <3>1, <3>2
    <3>4. ~(j <= k) /\ j # k + 1
      BY <1>1, <2>1, <3>3
    <3>5. p \notin Visited(pos, k)
      BY <1>6, <2>1, <3>2, <3>4
    <3>6. p # q
      BY <1>5, <2>1, <3>2, <3>4
    <3> QED BY <1>1, <3>1, <3>5, <3>6
  <2> HIDE DEF q
  <2>12. ASSUME NEW p \in 1 .. n
         PROVE  p \in (FrontAt(h, pos, k) \ {q}) \cup Children(h, q) <=> p \in FrontAt(h, pos, k + 1)
    <3>1. p \in FrontAt(h, pos, k) <=> p \notin Visited(pos, k) /\ (p = 1 \/ p \div 2 \in Visited(pos, k))
      BY <1>3
    <3>2. p \in FrontAt(h, pos, k + 1) <=>
            p \notin Visited(pos, k + 1) /\ (p = 1 \/ p \div 2 \in Visited(pos, k + 1))
      BY <1>3
    <3>3. p \in Visited(pos, k + 1) <=> p \in Visited(pos, k) \/ p = q
      BY <2>8
    <3>4. p = 1 \/ (p \div 2 \in Visited(pos, k + 1) <=> p \div 2 \in Visited(pos, k) \/ p \div 2 = q)
      <4>1. p = 1 \/ p \in 2 .. n
        BY <1>1
      <4> QED BY <1>7, <2>8, <4>1
    <3>5. p \in Children(h, q) <=> p \div 2 = q
      BY <2>9
    <3>6. p \div 2 = q => p # q /\ p # 1 /\ p \notin Visited(pos, k)
      BY <2>11
    <3> QED BY <3>1, <3>2, <3>3, <3>4, <3>5, <3>6
  <2>13. FrontAt(h, pos, k) \in SUBSET (1 .. n) /\ FrontAt(h, pos, k + 1) \in SUBSET (1 .. n)
    BY <1>3
  <2>14. (FrontAt(h, pos, k) \ {q}) \cup Children(h, q) = FrontAt(h, pos, k + 1)
    BY <2>10, <2>12, <2>13
  <2> QED BY <2>6, <2>7, <2>14 DEF q
<1> QED BY <1>8, <1>9, <1>10 DEF m

LessOn(T) == {p \in T \X T : Less(p[1], p[2])}

\* Cells with different keys, ordered by time and key.
LEMMA LessOrdersCells ==
  ASSUME NEW T \in SUBSET Cells, \A c, d \in T : c.key = d.key => c = d
  PROVE  Orders(LessOn(T), T) /\ \A a, b \in T : <<a, b>> \in LessOn(T) <=> Less(a, b)
<1>1. \A a, b \in T : <<a, b>> \in LessOn(T) <=> Less(a, b)
  BY DEF LessOn
<1>2. \A a \in T : a \in Cells
  OBVIOUS
<1>3. \A a \in T : ~Less(a, a)
  BY <1>2, LessIsOrder
<1>4. \A a, b, c \in T : Less(a, b) /\ Less(b, c) => Less(a, c)
  BY <1>2, LessIsOrder
<1>5. \A a, b \in T : a # b => Less(a, b) \/ Less(b, a)
  BY <1>2, LessIsOrder
<1> QED BY <1>1, <1>3, <1>4, <1>5 DEF Orders

\* The heap h holds the timers T.
HeapOf(h, T) == Heap(h) /\ T \in SUBSET Cells /\ \A c : Holds(h, c) <=> c \in T

\* A heap has one timer per key.
LEMMA OnePerKeyOf ==
  ASSUME NEW h, NEW T, HeapOf(h, T)
  PROVE  \A c, d \in T : c.key = d.key => c = d
<1>1. \A c \in T : \E i \in 1 .. Len(h) : h[i] = c
  BY DEF HeapOf, Holds
<1>2. \A i, j \in 1 .. Len(h) : h[i].key = h[j].key => i = j
  BY DEF HeapOf, Heap, KeysDiffer
<1> QED BY <1>1, <1>2

\* The entries of a heap can be sorted; pos is where each of them lies.
LEMMA SortedExists ==
  ASSUME NEW h, NEW T, HeapOf(h, T)
  PROVE  \E s, pos : Sorted(h, s, pos) /\ Lists(s, LessOn(T), T)
<1> DEFINE n == Len(h)
           s == Ranked(LessOn(T), T)
           m == Len(s)
           pos == [i \in 1 .. m |-> CHOOSE p \in 1 .. n : h[p] = s[i]]
<1>1. /\ h \in Seq(Cells) /\ n \in Nat /\ \A i \in 1 .. n : h[i] \in T
      /\ \A c \in T : \E i \in 1 .. n : h[i] = c
      /\ \A i, j \in 1 .. n : h[i].key = h[j].key => i = j
  BY DEF HeapOf, Heap, Holds, KeysDiffer
<1>2. T \in SUBSET Cells
  BY DEF HeapOf
<1>3. Orders(LessOn(T), T) /\ \A a, b \in T : <<a, b>> \in LessOn(T) <=> Less(a, b)
  BY <1>2, OnePerKeyOf, LessOrdersCells
<1> HIDE DEF n
<1>4. IsFiniteSet(T)
  <2> DEFINE I == 1 .. n
             f == [i \in I |-> h[i]]
  <2>1. IsFiniteSet(I)
    BY <1>1, FS_Interval
  <2>2. f \in Surjection(I, T)
    BY <1>1 DEF Surjection
  <2> HIDE DEF I, f
  <2> QED BY <2>1, <2>2, FS_Surjection
<1>5. Lists(s, LessOn(T), T)
  BY <1>3, <1>4, RanksList
<1> HIDE DEF s
<1>6. /\ s \in Seq(T) /\ m \in Nat /\ \A i \in 1 .. m : s[i] \in T
      /\ \A i, j \in 1 .. m : i < j => <<s[i], s[j]>> \in LessOn(T)
      /\ \A c \in T : \E i \in 1 .. m : s[i] = c
  BY <1>5 DEF Lists
<1> HIDE DEF m
<1>7. \A i, j \in 1 .. m : i < j => Less(s[i], s[j])
  BY <1>3, <1>6
<1>8. ASSUME NEW i \in 1 .. m PROVE pos[i] \in 1 .. n /\ h[pos[i]] = s[i]
  <2>1. \E p \in 1 .. n : h[p] = s[i]
    BY <1>1, <1>6
  <2>2. pos[i] = CHOOSE p \in 1 .. n : h[p] = s[i]
    OBVIOUS
  <2> HIDE DEF pos
  <2> QED BY <2>1, <2>2
<1>9. pos \in [1 .. m -> 1 .. n]
  BY <1>8
<1> HIDE DEF pos
<1>10. ASSUME NEW p \in 1 .. n PROVE \E i \in 1 .. m : pos[i] = p
  <2>1. PICK i \in 1 .. m : s[i] = h[p]
    BY <1>1, <1>6
  <2>2. h[pos[i]] = h[p] /\ pos[i] \in 1 .. n
    BY <1>8, <2>1
  <2> QED BY <1>1, <2>2
<1>11. s \in Seq(Cells)
  BY <1>2, <1>6
<1>12. Sorted(h, s, pos)
  BY <1>7, <1>8, <1>9, <1>10, <1>11 DEF Sorted, n, m
<1> QED BY <1>5, <1>12

\* One step of due.
Advance(h, t, st) ==
  LET i == CHOOSE i \in st.front : \A j \in st.front \ {i} : Less(h[i], h[j])
  IN IF st.front = {} THEN st
     ELSE IF h[i].at > t THEN [st EXCEPT !.front = {}]
     ELSE [front |-> (st.front \ {i}) \cup Children(h, i), out |-> Append(st.out, h[i])]

\* The first d entries are due.
DueCount(s, t, d) == d \in 0 .. Len(s) /\ \A i \in 1 .. Len(s) : s[i].at <= t <=> i <= d

\* The frontier and the output after k steps, when d of the entries are due.
DueAfter(h, s, pos, d, k) ==
  IF k <= d THEN [front |-> FrontAt(h, pos, k), out |-> [i \in 1 .. k |-> s[i]]]
  ELSE [front |-> {}, out |-> [i \in 1 .. d |-> s[i]]]

\* One step of due: the frontier holds the next entry in order, and is expanded by the
\* children of the place it was at.
LEMMA DueSteps ==
  ASSUME NEW h, Heap(h), NEW s, NEW pos, Sorted(h, s, pos), NEW t \in Nat,
         NEW d, DueCount(s, t, d),
         NEW k \in Nat
  PROVE  Advance(h, t, DueAfter(h, s, pos, d, k)) = DueAfter(h, s, pos, d, k + 1)
<1> DEFINE m == Len(s)
           st == DueAfter(h, s, pos, d, k)
           Least(i) == \A j \in st.front \ {i} : Less(h[i], h[j])
           least == CHOOSE i \in st.front : Least(i)
           first(e) == [i \in 1 .. e |-> s[i]]
<1>1. /\ s \in Seq(Cells) /\ m \in Nat /\ \A i \in 1 .. m : s[i] \in Cells
      /\ \A i \in 1 .. m : pos[i] \in 1 .. Len(h) /\ h[pos[i]] = s[i]
      /\ \A p \in 1 .. Len(h) : h[p] \in Cells
  <2>1. s \in Seq(Cells) /\ h \in Seq(Cells)
    BY DEF Sorted, Heap
  <2>2. /\ m \in Nat /\ \A i \in 1 .. m : s[i] \in Cells
        /\ \A p \in 1 .. Len(h) : h[p] \in Cells
    BY <2>1, ElementOfSeq
  <2>3. \A i \in 1 .. m : pos[i] \in 1 .. Len(h) /\ h[pos[i]] = s[i]
    BY DEF Sorted
  <2> QED BY <2>1, <2>2, <2>3
<1>2. /\ FrontAt(h, pos, m) = {}
      /\ \A e \in 0 .. m - 1 :
           /\ pos[e + 1] \in FrontAt(h, pos, e)
           /\ \A j \in FrontAt(h, pos, e) \ {pos[e + 1]} : Less(h[pos[e + 1]], h[j])
           /\ (FrontAt(h, pos, e) \ {pos[e + 1]}) \cup Children(h, pos[e + 1]) = FrontAt(h, pos, e + 1)
  BY Frontier
<1>3. d \in 0 .. m /\ \A i \in 1 .. m : s[i].at <= t <=> i <= d
  BY DEF DueCount
<1>4. Advance(h, t, st) =
        IF st.front = {} THEN st
        ELSE IF h[least].at > t THEN [st EXCEPT !.front = {}]
        ELSE [front |-> (st.front \ {least}) \cup Children(h, least), out |-> Append(st.out, h[least])]
  BY DEF Advance
<1> HIDE DEF m
<1>5. CASE k > d
  <2>1. ~(k <= d) /\ ~(k + 1 <= d)
    BY <1>1, <1>3, <1>5
  <2>2. st = [front |-> {}, out |-> first(d)] /\ DueAfter(h, s, pos, d, k + 1) = st
    BY <2>1 DEF DueAfter
  <2>3. st.front = {}
    BY <2>2
  <2> QED BY <1>4, <2>2, <2>3
<1>6. CASE k <= d
  <2>1. st = [front |-> FrontAt(h, pos, k), out |-> first(k)]
    BY <1>6 DEF DueAfter
  <2>2. st.front = FrontAt(h, pos, k) /\ st.out = first(k)
    BY <2>1
  <2>3. CASE k = m
    <3>1. k = d /\ ~(k + 1 <= d)
      BY <1>1, <1>3, <1>6, <2>3
    <3>2. st.front = {}
      BY <1>2, <2>2, <2>3
    <3>3. DueAfter(h, s, pos, d, k + 1) = [front |-> {}, out |-> first(d)]
      BY <3>1 DEF DueAfter
    <3> QED BY <1>4, <2>1, <2>2, <3>1, <3>2, <3>3
  <2>4. CASE k # m
    <3>1. k \in 0 .. m - 1 /\ k + 1 \in 1 .. m
      BY <1>1, <1>3, <1>6, <2>4
    <3> DEFINE q == pos[k + 1]
    <3>2. /\ q \in st.front /\ Least(q)
          /\ (st.front \ {q}) \cup Children(h, q) = FrontAt(h, pos, k + 1)
          /\ h[q] = s[k + 1] /\ h[q] \in Cells
      BY <1>1, <1>2, <2>2, <3>1
    <3>3. \A p \in st.front : p \in 1 .. Len(h)
      BY <2>2 DEF FrontAt
    <3>4. \A p \in st.front : Least(p) => p = q
      <4> SUFFICES ASSUME NEW p \in st.front, Least(p), p # q PROVE FALSE
        OBVIOUS
      <4>1. Less(h[p], h[q]) /\ Less(h[q], h[p])
        BY <3>2
      <4>2. h[p] \in Cells /\ h[q] \in Cells
        BY <1>1, <3>2, <3>3
      <4> QED BY <4>1, <4>2, LessIsOrder
    <3> HIDE DEF q, Least, st
    <3>5. least = q
      BY <3>2, <3>4
    <3> HIDE DEF least
    <3>6. st.front # {}
      BY <3>2
    <3>7. CASE k + 1 <= d
      <4>1. ~(h[q].at > t)
        BY <1>3, <3>1, <3>2, <3>7 DEF Cells
      <4>2. Advance(h, t, st) =
              [front |-> FrontAt(h, pos, k + 1), out |-> Append(first(k), s[k + 1])]
        BY <1>4, <2>2, <3>2, <3>5, <3>6, <4>1
      <4>3. Append(first(k), s[k + 1]) = first(k + 1)
        <5>1. \A i \in 1 .. k : i \in 1 .. m
          BY <1>1, <3>1
        <5>2. first(k) \in [1 .. k -> Cells]
          BY <1>1, <5>1
        <5>3. first(k) \in Seq(Cells) /\ Len(first(k)) = k
          BY <5>2
        <5>4. DOMAIN first(k) = 1 .. k /\ \A i \in 1 .. k : first(k)[i] = s[i]
          OBVIOUS
        <5> DEFINE a == first(k)
        <5> HIDE DEF a
        <5>5. /\ a \in Seq(Cells) /\ Len(a) = k /\ \A i \in 1 .. k : a[i] = s[i]
          BY <5>3, <5>4 DEF a
        <5>6. s[k + 1] \in Cells
          BY <1>1, <3>1
        <5> DEFINE b == Append(a, s[k + 1])
        <5>7. /\ b \in Seq(Cells) /\ Len(b) = k + 1 /\ b[k + 1] = s[k + 1]
              /\ \A i \in 1 .. k : b[i] = a[i]
          BY <5>5, <5>6, AppendProperties
        <5> HIDE DEF b
        <5>8. \A i \in 1 .. k + 1 : b[i] = s[i]
          <6>1. \A i \in 1 .. k + 1 : i \in 1 .. k \/ i = k + 1
            OBVIOUS
          <6> QED BY <5>5, <5>7, <6>1
        <5>9. b = [i \in 1 .. k + 1 |-> s[i]]
          BY <5>7, <5>8
        <5> QED BY <5>9 DEF a, b
      <4>4. DueAfter(h, s, pos, d, k + 1) = [front |-> FrontAt(h, pos, k + 1), out |-> first(k + 1)]
        BY <3>7 DEF DueAfter
      <4> HIDE DEF first
      <4> QED BY <4>2, <4>3, <4>4 DEF st
    <3>8. CASE ~(k + 1 <= d)
      <4>1. h[q].at > t /\ k = d
        <5>1. k = d
          BY <1>1, <1>3, <1>6, <3>8
        <5>2. ~(s[k + 1].at <= t) /\ s[k + 1].at \in Nat
          BY <1>1, <1>3, <3>1, <3>8 DEF Cells
        <5> QED BY <3>2, <5>1, <5>2
      <4> HIDE DEF first
      <4>2. Advance(h, t, st) = [front |-> {}, out |-> first(d)]
        BY <1>4, <2>1, <3>5, <3>6, <4>1
      <4>3. DueAfter(h, s, pos, d, k + 1) = [front |-> {}, out |-> first(d)]
        BY <3>8 DEF DueAfter, first
      <4> QED BY <4>2, <4>3 DEF st
    <3> QED BY <3>7, <3>8
  <2> QED BY <2>3, <2>4
<1> QED BY <1>1, <1>3, <1>5, <1>6

\* The earlier of two numbers of rows.
Fewer(a, b) == IF a < b THEN a ELSE b

\* due returns the first entries in order, up to the time and the limit.
LEMMA DueIs ==
  ASSUME NEW h, Heap(h), NEW s, NEW pos, Sorted(h, s, pos), NEW t \in Nat,
         NEW d, DueCount(s, t, d), NEW limit \in Nat
  PROVE  Due(h, t, limit) = [i \in 1 .. Fewer(d, limit) |-> s[i]]
<1> DEFINE G == [k \in 0 .. limit |-> DueAfter(h, s, pos, d, k)]
           Begin == [front |-> {1} \cap DOMAIN h, out |-> <<>>]
           IsWalk(g) == g = [n \in 0 .. limit |-> IF n = 0 THEN Begin ELSE Advance(h, t, g[n - 1])]
           steps == CHOOSE g : IsWalk(g)
<1>1. Due(h, t, limit) = steps[limit].out
  BY DEF Due, Advance
<1>2. d \in Nat
  BY DEF DueCount, Sorted
<1>3. DueAfter(h, s, pos, d, 0) = Begin
  <2>1. 0 <= d
    BY <1>2
  <2>2. FrontAt(h, pos, 0) = {1} \cap DOMAIN h
    BY Frontier
  <2>3. [i \in 1 .. 0 |-> s[i]] = <<>>
    OBVIOUS
  <2> QED BY <2>1, <2>2, <2>3 DEF DueAfter
<1>4. \A k \in Nat : Advance(h, t, DueAfter(h, s, pos, d, k)) = DueAfter(h, s, pos, d, k + 1)
  BY DueSteps
<1> HIDE DEF Begin
<1>5. IsWalk(G)
  <2>1. ASSUME NEW n \in 0 .. limit
        PROVE  G[n] = IF n = 0 THEN Begin ELSE Advance(h, t, G[n - 1])
    <3>1. CASE n = 0
      BY <1>3, <3>1
    <3>2. CASE n # 0
      <4>1. n - 1 \in 0 .. limit /\ n - 1 \in Nat /\ (n - 1) + 1 = n
        BY <3>2
      <4>2. G[n - 1] = DueAfter(h, s, pos, d, n - 1) /\ G[n] = DueAfter(h, s, pos, d, n)
        BY <4>1
      <4>3. Advance(h, t, DueAfter(h, s, pos, d, n - 1)) = DueAfter(h, s, pos, d, n)
        BY <1>4, <4>1
      <4> HIDE DEF G
      <4> QED BY <3>2, <4>2, <4>3
    <3> QED BY <3>1, <3>2
  <2>2. G = [n \in 0 .. limit |-> G[n]]
    OBVIOUS
  <2> HIDE DEF G
  <2> QED BY <2>1, <2>2
<1>6. IsWalk(steps)
  <2> HIDE DEF IsWalk
  <2> QED BY <1>5
<1> HIDE DEF steps
<1> DEFINE S == {k \in Nat : k <= limit => steps[k] = DueAfter(h, s, pos, d, k)}
<1>7. 0 \in S
  <2>1. 0 \in 0 .. limit
    OBVIOUS
  <2>2. steps[0] = Begin
    BY <1>6, <2>1
  <2> QED BY <1>3, <2>2
<1>8. ASSUME NEW k \in S PROVE k + 1 \in S
  <2> SUFFICES ASSUME k + 1 <= limit PROVE steps[k + 1] = DueAfter(h, s, pos, d, k + 1)
    OBVIOUS
  <2>1. k \in Nat /\ k + 1 \in 0 .. limit /\ k + 1 # 0 /\ (k + 1) - 1 = k /\ k <= limit
    OBVIOUS
  <2>2. steps[k + 1] = Advance(h, t, steps[k])
    BY <1>6, <2>1
  <2>3. steps[k] = DueAfter(h, s, pos, d, k)
    BY <2>1
  <2> QED BY <1>4, <2>1, <2>2, <2>3
<1>9. S = Nat
  <2>1. S \in SUBSET Nat
    OBVIOUS
  <2> HIDE DEF S
  <2> QED BY <1>7, <1>8, <2>1, Induction
<1>10. steps[limit] = DueAfter(h, s, pos, d, limit)
  <2>1. limit \in S
    <3> HIDE DEF S
    <3> QED BY <1>9
  <2>2. limit <= limit
    OBVIOUS
  <2> QED BY <2>1, <2>2
<1>11. CASE limit <= d
  <2>1. Fewer(d, limit) = limit
    BY <1>2, <1>11 DEF Fewer
  <2>2. steps[limit].out = [i \in 1 .. limit |-> s[i]]
    BY <1>10, <1>11 DEF DueAfter
  <2> QED BY <1>1, <2>1, <2>2
<1>12. CASE ~(limit <= d)
  <2>1. Fewer(d, limit) = d
    BY <1>2, <1>12 DEF Fewer
  <2>2. steps[limit].out = [i \in 1 .. d |-> s[i]]
    BY <1>10, <1>12 DEF DueAfter
  <2> QED BY <1>1, <2>1, <2>2
<1> QED BY <1>11, <1>12

\* The frontier walk over the heap reads what ORDER BY fire_at, key LIMIT reads.
LEMMA DuesAgree ==
  ASSUME NEW h, NEW T, HeapOf(h, T), NEW t \in Nat, NEW limit \in Nat
  PROVE  Due(h, t, limit) = DueRows(T, t, limit)
<1>1. PICK s, pos : Sorted(h, s, pos) /\ Lists(s, LessOn(T), T)
  BY SortedExists
<1> DEFINE m == Len(s)
           due == {r \in T : r.at <= t}
<1>2. T \in SUBSET Cells /\ Heap(h)
  BY DEF HeapOf
<1>3. /\ s \in Seq(T) /\ m \in Nat /\ \A i \in 1 .. m : s[i] \in T
      /\ \A c \in T : \E i \in 1 .. m : s[i] = c
  BY <1>1 DEF Lists
<1>4. \A i, j \in 1 .. m : i < j => Less(s[i], s[j])
  BY <1>1 DEF Sorted
<1>5. \A c, e \in due : c.key = e.key => c = e
  <2>1. \A c, e \in T : c.key = e.key => c = e
    BY OnePerKeyOf
  <2> QED BY <2>1
<1>6. due \in SUBSET Cells /\ \A r \in T : r \in due <=> r.at <= t
  BY <1>2
<1> HIDE DEF m, due
<1>7. \A i \in 1 .. m : s[i].at \in Nat
  BY <1>2, <1>3 DEF Cells
<1>8. \E d : DueCount(s, t, d)
  <2> DEFINE F == {i \in 1 .. m : s[i].at > t}
  <2>1. F \in SUBSET (1 .. m) /\ \A i \in 1 .. m : i \in F <=> s[i].at > t
    OBVIOUS
  <2> HIDE DEF F
  <2>2. \A i, j \in 1 .. m : i < j /\ i \in F => j \in F
    <3> SUFFICES ASSUME NEW i \in 1 .. m, NEW j \in 1 .. m, i < j, i \in F PROVE s[j].at > t
      BY <2>1
    <3>1. Less(s[i], s[j]) /\ s[i].at > t /\ s[i].at \in Nat /\ s[j].at \in Nat
      BY <1>4, <1>7, <2>1
    <3> QED BY <3>1 DEF Less
  <2>3. PICK e \in 1 .. m + 1 : \A j \in 1 .. m : j \in F <=> j >= e
    BY <1>3, <2>1, <2>2, Cut
  <2>4. e - 1 \in 0 .. m /\ \A i \in 1 .. m : i <= e - 1 <=> ~(i >= e)
    BY <1>3
  <2>5. \A i \in 1 .. m : s[i].at <= t <=> i \notin F
    BY <1>7, <2>1
  <2>6. DueCount(s, t, e - 1)
    BY <2>3, <2>4, <2>5 DEF DueCount, m
  <2> QED BY <2>6
<1>9. PICK d : DueCount(s, t, d)
  BY <1>8
<1>10. d \in 0 .. m /\ \A i \in 1 .. m : s[i].at <= t <=> i <= d
  BY <1>9 DEF DueCount, m
<1>11. Due(h, t, limit) = [i \in 1 .. Fewer(d, limit) |-> s[i]]
  BY <1>1, <1>2, <1>9, DueIs
<1> DEFINE L == [i \in 1 .. d |-> s[i]]
           B == LessOn(due)
<1>12. Orders(B, due) /\ \A a, b \in due : <<a, b>> \in B <=> Less(a, b)
  BY <1>5, <1>6, LessOrdersCells
<1>13. d \in Nat /\ \A i \in 1 .. d : i \in 1 .. m /\ s[i] \in due
  BY <1>3, <1>6, <1>10
<1>14. L \in Seq(due) /\ Len(L) = d /\ \A i \in 1 .. d : L[i] = s[i]
  <2>1. L \in [1 .. d -> due]
    BY <1>13
  <2>2. \A i \in 1 .. d : L[i] = s[i]
    OBVIOUS
  <2> HIDE DEF L
  <2> QED BY <1>13, <2>1, <2>2
<1> HIDE DEF L, B
<1>15. Lists(L, B, due)
  <2>1. \A i, j \in 1 .. d : i < j => <<L[i], L[j]>> \in B
    BY <1>4, <1>12, <1>13, <1>14
  <2>2. ASSUME NEW c \in due PROVE \E i \in 1 .. d : L[i] = c
    <3>1. c \in T /\ c.at <= t
      BY <1>6 DEF due
    <3>2. PICK i \in 1 .. m : s[i] = c
      BY <1>3, <3>1
    <3>3. i \in 1 .. d
      BY <1>3, <1>10, <3>1, <3>2
    <3> QED BY <1>14, <3>2, <3>3
  <2> QED BY <1>14, <2>1, <2>2 DEF Lists
<1>16. Cardinality(due) = d /\ L = Ranked(B, due)
  BY <1>12, <1>14, <1>15, ListIsRanks
<1> DEFINE R(i) == CHOOSE r \in due : Cardinality(Ahead(B, due, r)) = i - 1
           N(i) == CHOOSE r \in due : Cardinality(Before(due, r)) = i - 1
<1>17. \A r \in due : Before(due, r) = Ahead(B, due, r)
  BY DEF Before, Ahead, B, LessOn
<1>18. \A i : \A r : r \in due /\ Cardinality(Before(due, r)) = i - 1
                     <=> r \in due /\ Cardinality(Ahead(B, due, r)) = i - 1
  BY <1>17
<1>19. \A i : N(i) = R(i)
  BY <1>18, Zenon
<1>20. Ranked(B, due) = [i \in 1 .. d |-> R(i)]
  BY <1>16 DEF Ranked
<1>21. DueRows(T, t, limit) = [i \in 1 .. Fewer(d, limit) |-> N(i)]
  BY <1>16 DEF DueRows, Fewer, due
<1> HIDE DEF R, N
<1>22. \A i \in 1 .. d : s[i] = R(i)
  BY <1>14, <1>16, <1>20
<1>23. \A i \in 1 .. Fewer(d, limit) : i \in 1 .. d
  BY <1>13 DEF Fewer
<1> QED BY <1>11, <1>19, <1>21, <1>22, <1>23

\* Both drivers read the same whatever range of a log, page after any cursor, and due
\* timers up to any time and limit are asked for, without the bounds of ReadsAgree.
EveryReadAgrees ==
  ~mem.closed =>
    /\ \A r \in DOMAIN mem.runs, from \in Nat, to \in Nat :
         ReadMem(mem, r, from, to) = ReadSql(sql, r, from, to)
    /\ \A open \in BOOLEAN, size \in Nat, cursor \in {<<>>} \cup {<<c>> : c \in Cursors} :
         ListMem(mem, open, cursor, size) = ListSql(sql, open, cursor, size)
    /\ \A t \in Nat, n \in Nat : Due(mem.heap, t, n) = DueRows(sql.timers, t, n)

\* Clamping a range is the WHERE clause, sorting, searching and cutting a page is
\* LIMIT size + 1, and the heap walk is ORDER BY fire_at, in every reachable state and
\* for every argument (ReadHistory, ListExecutions, DueTimers).
THEOREM StoreEveryReadAgrees == StoreSpec => []EveryReadAgrees
<1>1. ASSUME StoreInv PROVE EveryReadAgrees
  <2> SUFFICES ASSUME ~mem.closed
               PROVE  /\ \A r \in DOMAIN mem.runs, from \in Nat, to \in Nat :
                           ReadMem(mem, r, from, to) = ReadSql(sql, r, from, to)
                      /\ \A open \in BOOLEAN, size \in Nat,
                            cursor \in {<<>>} \cup {<<c>> : c \in Cursors} :
                           ListMem(mem, open, cursor, size) = ListSql(sql, open, cursor, size)
                      /\ \A t \in Nat, n \in Nat :
                           Due(mem.heap, t, n) = DueRows(sql.timers, t, n)
    BY DEF EveryReadAgrees
  <2>1. Stored(mem, sql)
    BY <1>1 DEF StoreInv
  <2>2. Tables(mem.runs, sql.executions, sql.events) /\ Indexed(mem, sql.timers)
    BY <2>1 DEF Stored
  <2>3. HeapOf(mem.heap, sql.timers)
    BY <2>2 DEF Indexed, HeapOf
  <2>4. ASSUME NEW r \in DOMAIN mem.runs, NEW from \in Nat, NEW to \in Nat
        PROVE  ReadMem(mem, r, from, to) = ReadSql(sql, r, from, to)
    BY SMTT(30), <2>2, HistoriesAgree
  <2>5. ASSUME NEW open \in BOOLEAN, NEW size \in Nat,
               NEW cursor \in {<<>>} \cup {<<c>> : c \in Cursors}
        PROVE  ListMem(mem, open, cursor, size) = ListSql(sql, open, cursor, size)
    <3>1. cursor = <<>> \/ \E c \in Cursors : cursor = <<c>>
      OBVIOUS
    <3> HIDE <2>5
    <3> QED BY <2>2, <3>1, ListsAgree
  <2>6. \A t \in Nat, n \in Nat : Due(mem.heap, t, n) = DueRows(sql.timers, t, n)
    BY <2>3, DuesAgree
  <2> QED BY <2>4, <2>5, <2>6
<1> QED BY <1>1, StoreInvHolds, PTL

\* The ranges, pages, times and limits that the run tries are among them.
THEOREM StoreReadsAgree == StoreSpec => []ReadsAgree
<1>1. ASSUME StoreInv, EveryReadAgrees PROVE ReadsAgree
  <2> SUFFICES ASSUME ~mem.closed
               PROVE  /\ \A r \in DOMAIN mem.runs, from \in 0 .. 3, to \in 0 .. 3 :
                           ReadMem(mem, r, from, to) = ReadSql(sql, r, from, to)
                      /\ \A open \in BOOLEAN, size \in 1 .. 2 :
                           \A cursor \in {<<>>} \cup {<<Cursor(e, e.run)>> : e \in sql.executions} :
                             ListMem(mem, open, cursor, size) = ListSql(sql, open, cursor, size)
                      /\ \A t \in Stamps, n \in 1 .. Len(mem.heap) :
                           Due(mem.heap, t, n) = DueRows(sql.timers, t, n)
    BY DEF ReadsAgree
  <2>1. /\ \A r \in DOMAIN mem.runs, from \in Nat, to \in Nat :
             ReadMem(mem, r, from, to) = ReadSql(sql, r, from, to)
        /\ \A open \in BOOLEAN, size \in Nat, cursor \in {<<>>} \cup {<<c>> : c \in Cursors} :
             ListMem(mem, open, cursor, size) = ListSql(sql, open, cursor, size)
        /\ \A t \in Nat, n \in Nat : Due(mem.heap, t, n) = DueRows(sql.timers, t, n)
    BY <1>1 DEF EveryReadAgrees
  <2>2. \A from \in 0 .. 3 : from \in Nat
    OBVIOUS
  <2>3. \A size \in 1 .. 2 : size \in Nat
    OBVIOUS
  <2>4. \A e \in sql.executions : Cursor(e, e.run) \in Cursors
    <3>1. sql.executions \in SUBSET Rows
      BY <1>1 DEF StoreInv, Stored, Tables
    <3> QED BY <3>1, Constants DEF Rows, Cursor, Cursors
  <2>5. \A cursor \in {<<>>} \cup {<<Cursor(e, e.run)>> : e \in sql.executions} :
          cursor \in {<<>>} \cup {<<c>> : c \in Cursors}
    BY <2>4
  <2>6. (\A t \in Stamps : t \in Nat) /\ \A n \in 1 .. Len(mem.heap) : n \in Nat
    BY Constants
  <2>7. \A r \in DOMAIN mem.runs, from \in 0 .. 3, to \in 0 .. 3 :
          ReadMem(mem, r, from, to) = ReadSql(sql, r, from, to)
    BY Zenon, <2>1, <2>2
  <2>8. \A open \in BOOLEAN, size \in 1 .. 2 :
          \A cursor \in {<<>>} \cup {<<Cursor(e, e.run)>> : e \in sql.executions} :
            ListMem(mem, open, cursor, size) = ListSql(sql, open, cursor, size)
    BY Zenon, <2>1, <2>3, <2>5
  <2>9. \A t \in Stamps, n \in 1 .. Len(mem.heap) :
          Due(mem.heap, t, n) = DueRows(sql.timers, t, n)
    BY Zenon, <2>1, <2>6
  <2> QED BY <2>7, <2>8, <2>9
<1> QED BY <1>1, StoreInvHolds, StoreEveryReadAgrees, PTL
===============================================================================
