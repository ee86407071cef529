------------------------------ MODULE TimerIndex -------------------------------
(***************************************************************************)
(* The due-time index.  The memory store keeps a binary heap and reads it  *)
(* by walking a frontier of heap positions; SQLite keeps rows and sorts    *)
(* them.  An entry is a record with a key and a fire time `at`, and there  *)
(* is at most one per key.                                                 *)
(***************************************************************************)
EXTENDS Naturals, FiniteSets, SequencesExt

Less(a, b) == a.at < b.at \/ (a.at = b.at /\ a.key < b.key)

-------------------------------------------------------------------------------
\* container/heap, over positions 1 .. Len(h): the path an entry takes, then the move.

UpPath(h, j) ==
  LET path[i \in 1 .. j] ==
        IF i = 1 \/ ~Less(h[j], h[i \div 2]) THEN <<i>> ELSE <<i>> \o path[i \div 2]
  IN path[j]

DownPath(h, j) ==
  LET n == Len(h)
      Smaller(i) == IF 2 * i < n /\ Less(h[2 * i + 1], h[2 * i]) THEN 2 * i + 1 ELSE 2 * i
      path[i \in j .. n] ==
        IF 2 * i > n \/ ~Less(h[Smaller(i)], h[j]) THEN <<i>> ELSE <<i>> \o path[Smaller(i)]
  IN path[j]

\* The entry at the head of the path moves to its end; the others move one place up it.
Along(h, path) ==
  [i \in DOMAIN h |->
     IF i = Last(path) THEN h[path[1]]
     ELSE IF \E k \in 1 .. Len(path) - 1 : path[k] = i
       THEN h[path[(CHOOSE k \in 1 .. Len(path) - 1 : path[k] = i) + 1]]
     ELSE h[i]]

Up(h, i) == Along(h, UpPath(h, i))

\* Fault: an entry whose time moved forward is only ever sifted up.
FixUpOnly(h, i) == Up(h, i)

\* heap.Fix: down, and up when it did not move.
Fix(h, i) == LET p == DownPath(h, i) IN IF Len(p) > 1 THEN Along(h, p) ELSE Up(h, i)

\* heap.Remove: the last entry takes the place of the one removed.
HeapRemove(h, i) ==
  LET short == SubSeq([h EXCEPT ![i] = Last(h)], 1, Len(h) - 1)
  IN IF i = Len(h) THEN short ELSE Fix(short, i)

-------------------------------------------------------------------------------
\* The operations both stores offer.

KeysIn(h) == {h[i].key : i \in DOMAIN h}
At(h, k) == CHOOSE i \in DOMAIN h : h[i].key = k

Upsert(h, e) ==
  IF e.key \in KeysIn(h)
    THEN Fix([h EXCEPT ![At(h, e.key)] = e], At(h, e.key))
    ELSE Up(Append(h, e), Len(h) + 1)

Delete(h, k) == IF k \in KeysIn(h) THEN HeapRemove(h, At(h, k)) ELSE h

Children(h, i) == {2 * i, 2 * i + 1} \cap DOMAIN h

\* due: expand a frontier from the root, earliest first, up to the limit or to `now`.
Due(h, now, limit) ==
  LET Start == [front |-> {1} \cap DOMAIN h, out |-> <<>>]
      walk[n \in 0 .. limit] ==
        IF n = 0 THEN Start
        ELSE LET s == walk[n - 1]
                 i == CHOOSE i \in s.front : \A j \in s.front \ {i} : Less(h[i], h[j])
             IN IF s.front = {} THEN s
                ELSE IF h[i].at > now THEN [s EXCEPT !.front = {}]
                ELSE [front |-> (s.front \ {i}) \cup Children(h, i), out |-> Append(s.out, h[i])]
  IN walk[limit].out

\* The rows that come before r.
Before(rows, r) == {q \in rows : Less(q, r)}

\* SQLite: WHERE fire_at <= now ORDER BY fire_at, key LIMIT limit.  The i-th row is the
\* one that i - 1 of the due rows come before.
DueRows(rows, now, limit) ==
  LET due == {r \in rows : r.at <= now}
      n == Cardinality(due)
  IN [i \in 1 .. (IF n < limit THEN n ELSE limit) |->
        CHOOSE r \in due : Cardinality(Before(due, r)) = i - 1]
===============================================================================
