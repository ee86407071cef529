----------------------------- MODULE Persistence -------------------------------
(***************************************************************************)
(* internal/persistence: the memory and the SQLite driver, given the same  *)
(* calls.  Each write is one step (one lock, one transaction).  Reads that *)
(* take several calls or pages, a paged ListExecutions and the recovery    *)
(* scan OpenExecutions, are walks that writes come between.                *)
(*                                                                         *)
(*   mem      the memory driver: runs, the timer heap, and the reverse     *)
(*            index from a run to its timers                               *)
(*   sql      the SQLite driver: the tables executions, history_events and *)
(*            timers                                                       *)
(*   agreed   the two drivers gave the last write the same answer          *)
(*   walk     a client's walk through ListExecutions, page by page         *)
(*   scan     one OpenExecutions per driver; a behaviour has one or the    *)
(*            other                                                        *)
(*                                                                         *)
(* Every run has a workflow ID of its own; runs that share one, and with   *)
(* them reuse policies and successors, are RunChain's.                     *)
(***************************************************************************)
EXTENDS TimerIndex, FiniteSets

CONSTANTS
  Runs,                         \* run IDs, a set of naturals
  Stamps,                       \* timestamps, a set of naturals above 0
  Deadline,                     \* the fire time of the timer a run starts with
  TimersPerRun,                 \* timer keys a run may use
  PageSize,                     \* of ListExecutions
  ScanPageSize,                 \* of the SQLite driver's OpenExecutions
  MaxWrites,                    \* bound: creates and appends accepted
  Requests                      \* the appends to try, without run, version and first event

ASSUME PersistenceAssumption ==
  /\ Runs \subseteq Nat /\ Stamps \subseteq Nat \ {0} /\ Deadline \in Stamps
  /\ {PageSize, ScanPageSize, TimersPerRun} \subseteq Nat \ {0}

\* A batch names each timer once: the engine collects them by key.
ASSUME RequestsAssumption ==
  /\ Requests \subseteq
       [events : Seq(Stamps), closes : BOOLEAN, delete : SUBSET (1 .. TimersPerRun),
        upsert : SUBSET [n : 1 .. TimersPerRun, at : Stamps], alien : BOOLEAN]
  /\ \A q \in Requests : \A t, u \in q.upsert : t.n = u.n => t = u

VARIABLES mem, sql, agreed, walk, scan
storeVars == <<mem, sql, agreed, walk, scan>>

TimerKey(r, n) == r * (TimersPerRun + 1) + n
Owner(k) == k \div (TimersPerRun + 1)
Entry(r, t) == [key |-> TimerKey(r, t.n), at |-> t.at]

-------------------------------------------------------------------------------
\* The memory driver.

EmptyMem == [runs |-> <<>>, heap |-> <<>>, byRun |-> <<>>, closed |-> FALSE]

ByRun(m, r) == IF r \in DOMAIN m.byRun THEN m.byRun[r] ELSE {}
WithByRun(m, r, S) ==
  IF S = {} THEN [x \in DOMAIN m.byRun \ {r} |-> m.byRun[x]]
  ELSE [x \in DOMAIN m.byRun \cup {r} |-> IF x = r THEN S ELSE m.byRun[x]]

\* A set of timers, one after the other.
UpsertAll(h, es) == FoldLeft(Upsert, h, SetToSeq(es))
DeleteAll(h, ks) == FoldLeft(Delete, h, SetToSeq(ks))

UpsertTimers(m, r, es) ==
  [m EXCEPT !.heap = UpsertAll(@, es), !.byRun = WithByRun(m, r, ByRun(m, r) \cup {e.key : e \in es})]

\* Fault: the reverse index keeps a deleted timer.
RemoveTimersKeepReverse(m, r, ks) == [m EXCEPT !.heap = DeleteAll(@, ks)]

RemoveTimers(m, r, ks) ==
  [m EXCEPT !.heap = DeleteAll(@, ks), !.byRun = WithByRun(m, r, ByRun(m, r) \ ks)]

DropRunTimers(m, r) ==
  [m EXCEPT !.heap = DeleteAll(@, ByRun(m, r)), !.byRun = WithByRun(m, r, {})]

\* Fault: the IDs of a batch need not continue the log.
ValidAppendSparse(x, q) ==
  q.events = <<>> \/
    /\ x.rec.closedAt = 0
    /\ \A i \in DOMAIN q.events : q.events[i] >= (IF i = 1 THEN x.lastEvent ELSE q.events[i - 1])

\* The rules for a batch: nothing after the close, dense IDs, time that does not go back.
ValidAppend(x, q) ==
  q.events = <<>> \/
    /\ x.rec.closedAt = 0 /\ q.first = x.rec.last + 1
    /\ \A i \in DOMAIN q.events : q.events[i] >= (IF i = 1 THEN x.lastEvent ELSE q.events[i - 1])

\* A write may only touch timers of its own run.
OwnTimers(q) == q.delete # {} \/ q.upsert # {} => q.timersOf = q.run

\* Status is absorbing; the close time is the last event's unless the run is open.
MutableFields(rec, closes, lastTime) ==
  IF rec.closedAt # 0 \/ ~closes THEN rec ELSE [rec EXCEPT !.closedAt = lastTime]

NewRun(at) ==
  [rec |-> [started |-> at, closedAt |-> 0, version |-> 1, last |-> 1],
   events |-> <<at>>, lastEvent |-> at]

CreateMem(m, r, at, timers) ==
  LET written == [m EXCEPT !.runs = [x \in DOMAIN m.runs \cup {r} |->
                                       IF x = r THEN NewRun(at) ELSE m.runs[x]]]
  IN UpsertTimers(written, r, {Entry(r, t) : t \in timers})

AnswerMem(m, q) ==
  IF m.closed THEN "closed"
  ELSE IF q.run \notin DOMAIN m.runs THEN "notFound"
  ELSE LET x == m.runs[q.run]
       IN IF x.rec.version # q.version THEN "conflict"
          ELSE IF ~ValidAppend(x, q) THEN "invalidHistory"
          ELSE IF ~OwnTimers(q) THEN "invalidIdentifier" ELSE "ok"

AppendMem(m, q) ==
  IF AnswerMem(m, q) # "ok" THEN m
  ELSE LET x == m.runs[q.run]
           n == Len(q.events)
           lastEvent == IF n = 0 THEN x.lastEvent ELSE q.events[n]
           rec == MutableFields([x.rec EXCEPT !.version = @ + 1, !.last = IF n = 0 THEN @ ELSE q.first + n - 1],
                                q.closes, lastEvent)
           written == [m EXCEPT !.runs[q.run] =
                         [rec |-> rec, events |-> x.events \o q.events, lastEvent |-> lastEvent]]
           timed == UpsertTimers(RemoveTimers(written, q.run, {TimerKey(q.run, k) : k \in q.delete}),
                                 q.run, {Entry(q.run, t) : t \in q.upsert})
       IN IF rec.closedAt # 0 THEN DropRunTimers(timed, q.run) ELSE timed

GetMem(m, r) ==
  IF m.closed THEN "closed" ELSE IF r \notin DOMAIN m.runs THEN "notFound" ELSE m.runs[r].rec

\* selectRange clamps the range to the stored events.
ReadMem(m, r, from, to) ==
  LET events == m.runs[r].events
      last == Len(events)
      f == IF from < 1 THEN 1 ELSE from
      t == IF to <= 0 \/ to > last THEN last ELSE to
  IN IF f > last \/ t < f THEN <<>> ELSE SubSeq(events, f, t)

\* byRecency: newest first, ties on the run ID; a cursor has both.
Recency(a, b) == a.started > b.started \/ (a.started = b.started /\ a.run > b.run)
Cursor(rec, r) == [started |-> rec.started, run |-> r]

Matches(rec, open) == open => rec.closedAt = 0

\* The rows after the cursor; an empty cursor is the first page.
After(c, cursor) == cursor = <<>> \/ Recency(cursor[1], c)

\* Rows in order: the i-th is the one that i - 1 of the rows come before.
Ordered(rows, comesBefore(_, _)) ==
  [i \in 1 .. Cardinality(rows) |->
     CHOOSE c \in rows : Cardinality({d \in rows : comesBefore(d, c)}) = i - 1]

Newest(rows) == Ordered(rows, Recency)

\* ListExecutions sorts every match, skips to the first one after the cursor (a binary
\* search), and cuts the page.
ListMem(m, open, cursor, size) ==
  LET match == {Cursor(m.runs[r].rec, r) : r \in {x \in DOMAIN m.runs : Matches(m.runs[x].rec, open)}}
      sorted == Newest(match)
      n == Len(sorted)
      first == CHOOSE i \in 1 .. n + 1 : \A j \in 1 .. n : After(sorted[j], cursor) <=> j >= i
      rest == SubSeq(sorted, first, n)
  IN IF Len(rest) > size THEN [rows |-> SubSeq(rest, 1, size), more |-> TRUE]
     ELSE [rows |-> rest, more |-> FALSE]

-------------------------------------------------------------------------------
\* The SQLite driver.

EmptySql == [executions |-> {}, events |-> {}, timers |-> {}, closed |-> FALSE]

Row(s, r) == CHOOSE e \in s.executions : e.run = r
HasRow(s, r) == \E e \in s.executions : e.run = r

NewRow(r, at) ==
  [run |-> r, started |-> at, closedAt |-> 0, version |-> 1, last |-> 1, lastTime |-> at]

ValidAppendRow(row, q) ==
  LET n == Len(q.events)
      times == <<row.lastTime>> \o q.events
  IN n > 0 => /\ row.closedAt = 0
              /\ q.first = row.last + 1
              /\ \A i \in 1 .. n : times[i] <= times[i + 1]

RowTimersOwned(q) == q.timersOf = q.run \/ (q.delete = {} /\ q.upsert = {})

\* The row after a batch; a closed run keeps its close time.
NextRow(row, q) ==
  LET n == Len(q.events)
      next == [row EXCEPT !.version = @ + 1, !.last = IF n > 0 THEN q.first + n - 1 ELSE @,
                          !.lastTime = IF n > 0 THEN q.events[n] ELSE @]
  IN [next EXCEPT !.closedAt = IF row.closedAt = 0 /\ q.closes THEN next.lastTime ELSE @]

InsertEvents(rows, r, first, events) ==
  rows \cup {<<r, first + i - 1, events[i]>> : i \in DOMAIN events}

UpsertRows(rows, new) == {e \in rows : \A f \in new : f.key # e.key} \cup new
DeleteRows(rows, r, ns) == {e \in rows : \A n \in ns : e.key # TimerKey(r, n)}
DropRunRows(rows, r) == {e \in rows : Owner(e.key) # r}

CreateSql(s, r, at, timers) ==
  [s EXCEPT !.executions = @ \cup {NewRow(r, at)},
            !.events = InsertEvents(@, r, 1, <<at>>),
            !.timers = UpsertRows(@, {Entry(r, t) : t \in timers})]

AnswerSql(s, q) ==
  IF s.closed THEN "closed"
  ELSE IF ~HasRow(s, q.run) THEN "notFound"
  ELSE IF Row(s, q.run).version # q.version THEN "conflict"
  ELSE IF ~ValidAppendRow(Row(s, q.run), q) THEN "invalidHistory"
  ELSE IF ~RowTimersOwned(q) THEN "invalidIdentifier" ELSE "ok"

\* Fault: the deletes are applied after the upserts.
TimerRowsUpsertFirst(rows, q) ==
  DeleteRows(UpsertRows(rows, {Entry(q.run, t) : t \in q.upsert}), q.run, q.delete)

TimerRows(rows, q) ==
  UpsertRows(DeleteRows(rows, q.run, q.delete), {Entry(q.run, t) : t \in q.upsert})

\* One transaction: the row, the events, the timers, and for a closed run none of them.
AppendSql(s, q) ==
  IF AnswerSql(s, q) # "ok" THEN s
  ELSE LET row == Row(s, q.run)
           next == NextRow(row, q)
           timers == TimerRows(s.timers, q)
       IN [s EXCEPT
            !.executions = (@ \ {row}) \cup {next},
            !.events = InsertEvents(@, q.run, q.first, q.events),
            !.timers = IF next.closedAt # 0 THEN DropRunRows(timers, q.run) ELSE timers]

GetSql(s, r) ==
  IF s.closed THEN "closed"
  ELSE IF ~HasRow(s, r) THEN "notFound"
  ELSE LET row == Row(s, r)
       IN [started |-> row.started, closedAt |-> row.closedAt, version |-> row.version,
           last |-> row.last]

\* Fault: the upper end of the range is exclusive.
InRangeExclusive(id, from, to) == id >= from /\ (to > 0 => id < to)

InRange(id, from, to) == id >= from /\ (to > 0 => id <= to)

\* WHERE event_id >= from AND event_id <= to ORDER BY event_id
ReadSql(s, r, from, to) ==
  LET rows == {e \in s.events : e[1] = r /\ InRange(e[2], IF from < 1 THEN 1 ELSE from, to)}
      sorted == Ordered(rows, LAMBDA a, b : a[2] < b[2])
  IN [i \in DOMAIN sorted |-> sorted[i][3]]

\* WHERE filter AND after the cursor ORDER BY recency LIMIT size + 1
ListSql(s, open, cursor, size) ==
  LET rows == {Cursor(e, e.run) : e \in {x \in s.executions : Matches(x, open)}}
      sorted == Newest({c \in rows : After(c, cursor)})
      n == Len(sorted)
  IN [rows |-> SubSeq(sorted, 1, IF n < size THEN n ELSE size), more |-> n > size]

-------------------------------------------------------------------------------
\* Writes, to both drivers.

\* Walks in progress can no longer be expected to find a run that stops matching.
Unsteady(r) ==
  /\ walk' = [walk EXCEPT !.steady = @ \ (IF walk.open THEN {r} ELSE {})]
  /\ scan' = [scan EXCEPT !.steady = @ \ {r}]

Writes == FoldSet(LAMBDA r, n : mem.runs[r].rec.version + n, 0, DOMAIN mem.runs)

Create(r, at, timers) ==
  /\ ~mem.closed /\ r \notin DOMAIN mem.runs /\ Writes < MaxWrites
  /\ mem' = CreateMem(mem, r, at, timers)
  /\ sql' = CreateSql(sql, r, at, timers)
  /\ agreed' = TRUE
  /\ UNCHANGED <<walk, scan>>

\* AppendHistory; the caller's version and first event ID may be stale.
AppendHistory(r, req, version, first) ==
  /\ Writes < MaxWrites
  /\ LET q == [run |-> r, version |-> version, first |-> first, events |-> req.events,
               closes |-> req.closes, delete |-> req.delete, upsert |-> req.upsert,
               timersOf |-> IF req.alien THEN r + 1 ELSE r]
     IN /\ mem' = AppendMem(mem, q)
        /\ sql' = AppendSql(sql, q)
        /\ agreed' = (AnswerMem(mem, q) = AnswerSql(sql, q))
        /\ IF AnswerMem(mem, q) = "ok" /\ q.closes THEN Unsteady(r) ELSE UNCHANGED <<walk, scan>>

\* DeleteTimers, by the timer service; a key that is gone is no error.
DeleteTimers(r, n) ==
  /\ ~mem.closed
  /\ mem' = RemoveTimers(mem, r, {TimerKey(r, n)})
  /\ sql' = [sql EXCEPT !.timers = DeleteRows(@, r, {n})]
  /\ agreed' = TRUE
  /\ UNCHANGED <<walk, scan>>

\* Close: the memory driver forgets everything, the file stays.
Close ==
  /\ ~mem.closed
  /\ mem' = [EmptyMem EXCEPT !.closed = TRUE]
  /\ sql' = [sql EXCEPT !.closed = TRUE]
  /\ agreed' = TRUE
  /\ UNCHANGED <<walk, scan>>

-------------------------------------------------------------------------------
\* Walks.

NoWalk == [at |-> "off", open |-> FALSE, cursor |-> <<>>, seen |-> <<>>, steady |-> {}]
NoScan == [at |-> "off", cursor |-> <<>>, mem |-> <<>>, sql |-> <<>>, steady |-> {}]

RunsOf(rows) == [i \in DOMAIN rows |-> rows[i].run]
OpenRuns == {r \in DOMAIN mem.runs : mem.runs[r].rec.closedAt = 0}

BeginWalk(open) ==
  /\ walk.at = "off" /\ scan.at = "off" /\ ~mem.closed
  /\ walk' = [NoWalk EXCEPT !.at = "on", !.open = open,
                            !.steady = IF open THEN OpenRuns ELSE DOMAIN mem.runs]
  /\ UNCHANGED <<mem, sql, agreed, scan>>

\* Fault: the token is an offset.
NextPageByOffset ==
  /\ walk.at = "on" /\ ~mem.closed
  /\ LET skip == Len(walk.seen)
         page == ListSql(sql, walk.open, <<>>, skip + PageSize)
     IN walk' = [walk EXCEPT !.seen = @ \o SubSeq(RunsOf(page.rows), skip + 1, Len(page.rows)),
                   !.at = IF page.more THEN "on" ELSE "over"]
  /\ UNCHANGED <<mem, sql, agreed, scan>>

\* The next page, with the token of the last one.
NextPage ==
  /\ walk.at = "on" /\ ~mem.closed
  /\ LET page == ListSql(sql, walk.open, walk.cursor, PageSize)
     IN walk' = [walk EXCEPT !.seen = @ \o RunsOf(page.rows),
                   !.cursor = IF page.more THEN <<Last(page.rows)>> ELSE @,
                   !.at = IF page.more THEN "on" ELSE "over"]
  /\ UNCHANGED <<mem, sql, agreed, scan>>

\* OpenExecutions: the memory driver copies the open runs and visits the copy; SQLite
\* reads a page at a time.
BeginScan ==
  /\ scan.at = "off" /\ walk.at = "off" /\ ~mem.closed
  /\ LET open == Newest({Cursor(mem.runs[r].rec, r) : r \in OpenRuns})
     IN scan' = [NoScan EXCEPT !.at = "on", !.mem = RunsOf(open), !.steady = OpenRuns]
  /\ UNCHANGED <<mem, sql, agreed, walk>>

\* Fault: a full page is taken for the last one.
VisitPageStopsEarly ==
  /\ scan.at = "on" /\ ~sql.closed
  /\ LET page == ListSql(sql, TRUE, scan.cursor, ScanPageSize).rows
     IN scan' = [scan EXCEPT !.sql = @ \o RunsOf(page), !.at = "over"]
  /\ UNCHANGED <<mem, sql, agreed, walk>>

\* The callback gets the runs of the next page; a short page is the last one.
VisitPage ==
  /\ scan.at = "on" /\ ~sql.closed
  /\ LET page == ListSql(sql, TRUE, scan.cursor, ScanPageSize).rows
     IN scan' = [scan EXCEPT !.sql = @ \o RunsOf(page),
                   !.at = IF Len(page) < ScanPageSize THEN "over" ELSE "on",
                   !.cursor = IF page = <<>> THEN @ ELSE <<Last(page)>>]
  /\ UNCHANGED <<mem, sql, agreed, walk>>

-------------------------------------------------------------------------------
StoreInit ==
  /\ mem = EmptyMem /\ sql = EmptySql /\ agreed = TRUE
  /\ walk = NoWalk /\ scan = NoScan

\* The version and first event ID a caller may hold: the current ones or older.
Held(r) == IF r \in DOMAIN mem.runs THEN mem.runs[r].rec ELSE [version |-> 1, last |-> 1]

StoreNext ==
  \/ \E r \in Runs, at \in Stamps : Create(r, at, {[n |-> 1, at |-> Deadline]})
  \/ \E r \in Runs, req \in Requests, stale \in {<<0, 0>>, <<1, 0>>, <<0, 1>>} :
       AppendHistory(r, req, Held(r).version - stale[1], Held(r).last + 1 - stale[2])
  \/ \E r \in Runs, n \in 1 .. TimersPerRun : DeleteTimers(r, n)
  \/ Close
  \/ \E open \in BOOLEAN : BeginWalk(open)
  \/ NextPage \/ BeginScan \/ VisitPage

StoreSpec == StoreInit /\ [][StoreNext]_storeVars

-------------------------------------------------------------------------------
\* Types; the row's last event ID is the length of the log.
StoreTypeOK ==
  /\ DOMAIN mem.runs \subseteq Runs
  /\ \A r \in DOMAIN mem.runs : Len(mem.runs[r].events) = mem.runs[r].rec.last
  /\ walk.at \in {"off", "on", "over"} /\ scan.at \in {"off", "on", "over"}

\* After any sequence of calls, stale and late ones included, both drivers give the
\* same answer and hold the same rows and timers (AppendHistory, GetExecution).
DriversAgree ==
  /\ agreed
  /\ \A r \in Runs : GetMem(mem, r) = GetSql(sql, r)
  /\ ~mem.closed => Range(mem.heap) = sql.timers

\* For every range, page and time both drivers read the same: clamping is the WHERE
\* clause, sorting and cutting is LIMIT size + 1, the heap walk is ORDER BY fire_at
\* (ReadHistory, ListExecutions, DueTimers).
ReadsAgree ==
  ~mem.closed =>
    /\ \A r \in DOMAIN mem.runs, from \in 0 .. 3, to \in 0 .. 3 :
         ReadMem(mem, r, from, to) = ReadSql(sql, r, from, to)
    /\ \A open \in BOOLEAN, size \in 1 .. 2 :
         \A cursor \in {<<>>} \cup {<<Cursor(e, e.run)>> : e \in sql.executions} :
           ListMem(mem, open, cursor, size) = ListSql(sql, open, cursor, size)
    /\ \A t \in Stamps, n \in 1 .. Len(mem.heap) :
         Due(mem.heap, t, n) = DueRows(sql.timers, t, n)

\* Inserting, moving and removing entries in any order keeps the heap a heap with one
\* entry per key (timerIndex.upsert, remove).
HeapSound ==
  /\ \A i \in DOMAIN mem.heap : i > 1 => Less(mem.heap[i \div 2], mem.heap[i])
  /\ Cardinality(KeysIn(mem.heap)) = Len(mem.heap)

\* Every timer in the index belongs to an open run, and the reverse index, which a
\* close relies on to find them, knows exactly these (upsertTimer, dropRunTimers).
TimersOwned ==
  /\ KeysIn(mem.heap) = UNION {mem.byRun[r] : r \in DOMAIN mem.byRun}
  /\ \A r \in DOMAIN mem.byRun : r \in OpenRuns /\ \A k \in mem.byRun[r] : Owner(k) = r

\* The memory driver's rows and indexes fit together: dense logs, a heap, and a reverse
\* index that finds the timers of open runs (AppendHistory, timerIndex).
IndexesSound == StoreTypeOK /\ HeapSound /\ TimersOwned

\* A client that follows page tokens sees no run twice, and sees every run that
\* matched from its first page to its last, whatever is written meanwhile
\* (ListExecutions pages by key, not by offset).
WalkIsComplete ==
  /\ Cardinality(Range(walk.seen)) = Len(walk.seen)
  /\ walk.at = "over" => walk.steady \subseteq Range(walk.seen)

\* Recovery's scan visits once every run that stays open while it lasts, in either
\* driver (OpenExecutions), so no run is left without its tasks and timers.
ScanIsComplete ==
  /\ Cardinality(Range(scan.mem)) = Len(scan.mem)
  /\ Cardinality(Range(scan.sql)) = Len(scan.sql)
  /\ scan.at = "over" => scan.steady \subseteq Range(scan.mem) \cap Range(scan.sql)

\* Whoever reads page after page misses nothing that stays and meets nothing twice, a
\* listing client or recovery (ListExecutions, OpenExecutions).
PagesComplete == WalkIsComplete /\ ScanIsComplete
===============================================================================
