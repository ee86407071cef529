--------------------------- MODULE DispatcherProofs ---------------------------
(***************************************************************************)
(* For any programs and any capacity, the dispatcher of Dispatcher.tla     *)
(* keeps the channel's order and never reports everything blocked while a  *)
(* coroutine could go on.  The second fact does not rest on what each call *)
(* marks: a coroutine gives control away only by finishing or by entering  *)
(* a call that blocks, and both of them mark progress, so whatever it did  *)
(* before is followed by another pass.                                     *)
(***************************************************************************)
EXTENDS Dispatcher, SequenceTheorems, TLAPS

Values == Nat \X Nat

Coroutines == [code : Seq(Ops), pc : Nat, entered : BOOLEAN, done : BOOLEAN]

Worlds ==
  [co : Seq(Coroutines), cap : Nat, progress : BOOLEAN, panic : BOOLEAN,
   buffer : Seq(Values), senders : Seq(Values), chClosed : BOOLEAN,
   sent : Seq(Values), received : Seq(Values),
   signals : Nat, future : BOOLEAN, chained : BOOLEAN, x : BOOLEAN,
   root : BOOLEAN, child : {"none", "live", "canceled"}]

\* A coroutine that is not done has a call to make.
CoroutineSound(c) ==
  /\ c.pc \in 1 .. Len(c.code) + 1
  /\ ~c.done => c.pc <= Len(c.code)

\* The channel's books and the contexts, in any world.
Sound(v) ==
  /\ Len(v.buffer) <= v.cap
  /\ v.received \o v.buffer \o v.senders = v.sent
  /\ v.senders # <<>> => Len(v.buffer) = v.cap
  /\ v.root => v.child # "live"

\* Coroutine k is done, or in a call that cannot go on.
Blocked(v, k) ==
  v.co[k].done \/ (v.co[k].entered /\ ~Ready(v, k, v.co[k].code[v.co[k].pc]))

\* A pass that has made no progress leaves blocked coroutines behind it, unless the one
\* in control is between two calls.
PassSound ==
  phase = "pass" =>
    \/ w.progress
    \/ turn <= Len(w.co) /\ ~w.co[turn].done /\ ~w.co[turn].entered
    \/ \A k \in DOMAIN w.co : k < turn => Blocked(w, k)

Inv ==
  /\ w \in Worlds
  /\ Sound(w)
  /\ phase \in {"idle", "pass", "panicked", "closed"}
  /\ turn \in 0 .. Len(w.co) + 1
  /\ phase = "pass" => turn >= 1
  /\ \A k \in DOMAIN w.co : CoroutineSound(w.co[k])
  /\ events \in [n : Nat, fresh : BOOLEAN]
  /\ PassSound
  /\ NoLostWakeup

-------------------------------------------------------------------------------
\* Queues.

LEMMA MoveHead ==
  ASSUME NEW S, NEW a \in Seq(S), NEW b \in Seq(S), b # <<>>
  PROVE  Append(a, Head(b)) \o Tail(b) = a \o b
<1> DEFINE l == Append(a, Head(b)) \o Tail(b)
           r == a \o b
<1>1. Head(b) \in S /\ Tail(b) \in Seq(S) /\ Len(Tail(b)) = Len(b) - 1
      /\ Head(b) = b[1] /\ Len(b) \in Nat \ {0}
      /\ \A i \in 1 .. Len(Tail(b)) : Tail(b)[i] = b[i + 1]
  BY HeadTailProperties
<1>2. Append(a, Head(b)) \in Seq(S) /\ Len(Append(a, Head(b))) = Len(a) + 1
      /\ (\A i \in 1 .. Len(a) : Append(a, Head(b))[i] = a[i])
      /\ Append(a, Head(b))[Len(a) + 1] = b[1]
  BY <1>1, AppendProperties
<1>3. l \in Seq(S) /\ Len(l) = Len(a) + Len(b)
      /\ \A i \in 1 .. Len(l) :
           l[i] = IF i <= Len(a) + 1 THEN Append(a, Head(b))[i] ELSE Tail(b)[i - (Len(a) + 1)]
  BY <1>1, <1>2, ConcatProperties
<1>4. r \in Seq(S) /\ Len(r) = Len(a) + Len(b)
      /\ \A i \in 1 .. Len(r) : r[i] = IF i <= Len(a) THEN a[i] ELSE b[i - Len(a)]
  BY ConcatProperties
<1> HIDE DEF l, r
<1>5. ASSUME NEW i \in 1 .. Len(l) PROVE l[i] = r[i]
  <2>1. CASE i <= Len(a)
    BY <1>2, <1>3, <1>4, <2>1
  <2>2. CASE i = Len(a) + 1
    BY <1>2, <1>3, <1>4, <2>2
  <2>3. CASE i > Len(a) + 1
    <3>1. i - (Len(a) + 1) \in 1 .. Len(Tail(b)) /\ (i - (Len(a) + 1)) + 1 = i - Len(a)
      BY <1>1, <1>3, <2>3
    <3>2. Tail(b)[i - (Len(a) + 1)] = b[i - Len(a)]
      BY <1>1, <3>1
    <3> QED BY <1>3, <1>4, <2>3, <3>2
  <2> QED BY <2>1, <2>2, <2>3, <1>3
<1>6. l = r
  BY <1>3, <1>4, <1>5, SeqEqual
<1> QED BY <1>6 DEF l, r

LEMMA AppendLast ==
  ASSUME NEW S, NEW a \in Seq(S), NEW b \in Seq(S), NEW e \in S
  PROVE  a \o Append(b, e) = Append(a \o b, e)
<1>1. Append(b, e) = b \o <<e>> /\ <<e>> \in Seq(S) /\ a \o b \in Seq(S)
  BY AppendIsConcat, ConcatProperties
<1>2. Append(a \o b, e) = (a \o b) \o <<e>>
  BY <1>1, AppendIsConcat
<1> QED BY <1>1, <1>2, ConcatAssociative

\* Received, buffered and still held, with one value moved from the buffer's head.
LEMMA TakeBuffered ==
  \A r, b, h \in Seq(Values) :
    b # <<>> => Append(r, Head(b)) \o Tail(b) \o h = r \o b \o h
BY MoveHead

\* The sender blocked longest moves into the buffer.
LEMMA Promote ==
  \A r, b, h \in Seq(Values) :
    h # <<>> => r \o Append(b, Head(h)) \o Tail(h) = r \o b \o h
<1> SUFFICES ASSUME NEW r \in Seq(Values), NEW b \in Seq(Values), NEW h \in Seq(Values), h # <<>>
             PROVE  r \o Append(b, Head(h)) \o Tail(h) = r \o b \o h
  OBVIOUS
<1>1. Head(h) \in Values /\ Tail(h) \in Seq(Values)
  BY HeadTailProperties
<1>2. Append(b, Head(h)) \in Seq(Values)
  BY <1>1, AppendProperties
<1>3. r \o Append(b, Head(h)) \o Tail(h) = r \o (Append(b, Head(h)) \o Tail(h))
  BY <1>1, <1>2, ConcatAssociative, SMTT(30)
<1>4. Append(b, Head(h)) \o Tail(h) = b \o h
  BY MoveHead
<1>5. r \o b \o h = r \o (b \o h)
  BY ConcatAssociative
<1> QED BY <1>3, <1>4, <1>5

\* With an empty buffer a receiver takes from the sender blocked longest.
LEMMA TakeFromSender ==
  ASSUME NEW S, NEW r \in Seq(S), NEW b \in Seq(S), NEW h \in Seq(S), h # <<>>, b = <<>>
  PROVE  Append(r, Head(h)) \o b \o Tail(h) = r \o b \o h
<1>1. Head(h) \in S /\ Tail(h) \in Seq(S)
  BY HeadTailProperties
<1>2. Append(r, Head(h)) \in Seq(S)
  BY <1>1, AppendProperties
<1>3. Append(r, Head(h)) \o b = Append(r, Head(h)) /\ r \o b = r
  BY <1>2, ConcatEmptySeq
<1> QED BY <1>3, MoveHead

-------------------------------------------------------------------------------
\* What a call does to the shared objects keeps the books and leaves the coroutines.

Keeps(v, u) == u \in Worlds /\ Sound(u) /\ u.co = v.co

LEMMA MarkKeeps ==
  ASSUME NEW v \in Worlds, Sound(v)
  PROVE  Keeps(v, MarkProgress(v)) /\ MarkProgress(v).progress
BY DEF Keeps, Worlds, Sound, MarkProgress

LEMMA PanicKeeps ==
  ASSUME NEW v \in Worlds, Sound(v)
  PROVE  Keeps(v, Panic(v)) /\ Panic(v).panic
BY DEF Keeps, Worlds, Sound, Panic

LEMMA KeepsTransitive ==
  ASSUME NEW v, NEW u, NEW t, Keeps(v, u), Keeps(u, t)
  PROVE  Keeps(v, t)
BY DEF Keeps

\* A change of the channel alone.
LEMMA ChannelChange ==
  ASSUME NEW v \in Worlds, Sound(v), NEW u,
         NEW b \in Seq(Values), NEW h \in Seq(Values), NEW r \in Seq(Values), NEW s \in Seq(Values),
         u = [v EXCEPT !.buffer = b, !.senders = h, !.received = r, !.sent = s],
         Len(b) <= v.cap, r \o b \o h = s, h # <<>> => Len(b) = v.cap
  PROVE  Keeps(v, u)
<1>1. u \in Worlds
  BY DEF Worlds
<1>2. /\ u.co = v.co /\ u.buffer = b /\ u.senders = h /\ u.received = r /\ u.sent = s
      /\ u.cap = v.cap /\ u.root = v.root /\ u.child = v.child
  BY DEF Worlds
<1> QED BY <1>1, <1>2 DEF Keeps, Sound

LEMMA ReceiveKeeps ==
  ASSUME NEW v \in Worlds, Sound(v), v.buffer # <<>> \/ v.senders # <<>>
  PROVE  Keeps(v, ReceiveAsync(v))
<1> DEFINE b == v.buffer
           h == v.senders
           r == v.received
           s == v.sent
<1>1. /\ b \in Seq(Values) /\ h \in Seq(Values) /\ r \in Seq(Values) /\ s \in Seq(Values)
      /\ v.cap \in Nat
  BY DEF Worlds
<1>2. Len(b) <= v.cap /\ r \o b \o h = s /\ (h # <<>> => Len(b) = v.cap)
  BY DEF Sound
<1>3. CASE b # <<>>
  <2> DEFINE u == [v EXCEPT !.buffer = Tail(@), !.received = Append(@, Head(v.buffer))]
  <2>1. Head(b) \in Values /\ Tail(b) \in Seq(Values) /\ Len(Tail(b)) = Len(b) - 1 /\ Len(b) \in Nat \ {0}
    BY <1>1, <1>3, HeadTailProperties, EmptySeq
  <2>2. Append(r, Head(b)) \in Seq(Values)
    BY <1>1, <2>1, AppendProperties
  <2>3. Append(r, Head(b)) \o Tail(b) \o h = s
    <3> HIDE DEF b, h, r, s
    <3>1. Append(r, Head(b)) \o Tail(b) \o h = r \o b \o h
      BY <1>1, <1>3, TakeBuffered
    <3> QED BY <1>2, <3>1
  <2>4. ReceiveAsync(v) = MarkProgress(PromoteSender(u))
    BY <1>3 DEF ReceiveAsync
  <2>5. u \in Worlds /\ u.cap = v.cap /\ u.buffer = Tail(b) /\ u.senders = h
    BY <2>1, <2>2 DEF Worlds
  <2>6. CASE h = <<>>
    <3>1. PromoteSender(u) = u
      BY <2>5, <2>6 DEF PromoteSender
    <3>2. u = [v EXCEPT !.buffer = Tail(b), !.senders = h, !.received = Append(r, Head(b)), !.sent = s]
      BY DEF Worlds
    <3>3. Len(Tail(b)) <= v.cap
      BY <1>1, <1>2, <2>1
    <3>4. Keeps(v, u)
      <4> HIDE DEF u, b, h, r, s
      <4> QED BY <1>1, <2>1, <2>2, <2>3, <2>6, <3>2, <3>3, ChannelChange
    <3>5. Keeps(u, MarkProgress(u))
      BY <3>4, MarkKeeps DEF Keeps
    <3> QED BY <2>4, <3>1, <3>4, <3>5, KeepsTransitive
  <2>7. CASE h # <<>>
    <3> DEFINE nb == Append(Tail(b), Head(h))
               q == PromoteSender(u)
    <3>1. Head(h) \in Values /\ Tail(h) \in Seq(Values)
      BY <1>1, <2>7, HeadTailProperties
    <3>2. nb \in Seq(Values) /\ Len(nb) = Len(b)
      BY <2>1, <3>1, AppendProperties
    <3>3. v.cap # 0 /\ ~(Len(Tail(b)) >= v.cap)
      BY <1>1, <1>2, <2>1, <2>7
    <3>4. q = [u EXCEPT !.senders = Tail(@), !.buffer = Append(@, Head(u.senders))]
      BY <2>5, <2>7, <3>3 DEF PromoteSender
    <3>5. q = [v EXCEPT !.buffer = nb, !.senders = Tail(h), !.received = Append(r, Head(b)), !.sent = s]
      BY <3>4 DEF Worlds
    <3>6. Append(r, Head(b)) \o nb \o Tail(h) = s
      <4> DEFINE a == Append(r, Head(b))
                 t == Tail(b)
      <4>1. a \in Seq(Values) /\ t \in Seq(Values) /\ h \in Seq(Values) /\ h # <<>>
        BY <1>1, <2>1, <2>2, <2>7
      <4>2. a \o t \o h = s
        BY <2>3
      <4> HIDE DEF a, t, h, s
      <4>3. a \o Append(t, Head(h)) \o Tail(h) = a \o t \o h
        BY <4>1, Promote
      <4> QED BY <4>2, <4>3 DEF a, t
    <3>7. Len(nb) <= v.cap /\ Len(nb) = v.cap
      BY <1>1, <1>2, <2>7, <3>2
    <3>8. Keeps(v, q)
      <4> HIDE DEF q, nb, u, b, h, r, s
      <4> QED BY <1>1, <2>2, <3>1, <3>2, <3>5, <3>6, <3>7, ChannelChange
    <3>9. Keeps(q, MarkProgress(q))
      BY <3>8, MarkKeeps DEF Keeps
    <3> QED BY <2>4, <3>8, <3>9, KeepsTransitive
  <2> QED BY <2>6, <2>7
<1>4. CASE b = <<>>
  <2> DEFINE u == [v EXCEPT !.senders = Tail(@), !.received = Append(@, Head(v.senders))]
  <2>1. h # <<>> /\ Head(h) \in Values /\ Tail(h) \in Seq(Values)
    BY <1>1, <1>4, HeadTailProperties
  <2>2. Append(r, Head(h)) \in Seq(Values)
    BY <1>1, <2>1, AppendProperties
  <2>3. Append(r, Head(h)) \o b \o Tail(h) = s
    <3> HIDE DEF b, h, r, s
    <3>1. Append(r, Head(h)) \o b \o Tail(h) = r \o b \o h
      BY <1>1, <1>4, <2>1, TakeFromSender
    <3> QED BY <1>2, <3>1
  <2>4. u = [v EXCEPT !.buffer = b, !.senders = Tail(h), !.received = Append(r, Head(h)), !.sent = s]
    BY DEF Worlds
  <2>5. Keeps(v, u)
    <3> HIDE DEF u, b, h, r, s
    <3> QED BY <1>1, <1>2, <2>1, <2>2, <2>3, <2>4, ChannelChange
  <2>6. Keeps(u, MarkProgress(u))
    BY <2>5, MarkKeeps DEF Keeps
  <2>7. ReceiveAsync(v) = MarkProgress(u)
    BY <1>4 DEF ReceiveAsync
  <2> QED BY <2>5, <2>6, <2>7, KeepsTransitive
<1> QED BY <1>3, <1>4

LEMMA SendKeeps ==
  ASSUME NEW v \in Worlds, Sound(v), NEW k \in DOMAIN v.co
  PROVE  /\ Keeps(v, SendOrBlock(v, k))
         /\ v.progress => SendOrBlock(v, k).progress
<1> DEFINE b == v.buffer
           h == v.senders
           r == v.received
           s == v.sent
           e == Value(v, k)
           u == [v EXCEPT !.sent = Append(@, e)]
<1>1. /\ b \in Seq(Values) /\ h \in Seq(Values) /\ r \in Seq(Values) /\ s \in Seq(Values)
      /\ v.cap \in Nat /\ v.co \in Seq(Coroutines)
  BY DEF Worlds
<1>2. Len(b) <= v.cap /\ r \o b \o h = s /\ (h # <<>> => Len(b) = v.cap)
  BY DEF Sound
<1>3. e \in Values
  <2>1. k \in Nat /\ v.co[k] \in Coroutines
    BY <1>1
  <2> QED BY <2>1 DEF Value, Values, Coroutines
<1>4. Append(s, e) \in Seq(Values) /\ Append(b, e) \in Seq(Values) /\ Append(h, e) \in Seq(Values)
      /\ Len(Append(b, e)) = Len(b) + 1 /\ Len(b) \in Nat
  BY <1>1, <1>3, AppendProperties, LenProperties
<1>5. CASE v.chClosed
  BY <1>5, PanicKeeps DEF SendOrBlock, Panic, Worlds
<1>6. CASE ~v.chClosed /\ HasRoom(v)
  <2> DEFINE q == [u EXCEPT !.buffer = Append(@, e)]
  <2>1. SendOrBlock(v, k) = MarkProgress(q)
    BY <1>6 DEF SendOrBlock
  <2>2. h = <<>> /\ Len(Append(b, e)) <= v.cap
    BY <1>1, <1>2, <1>4, <1>6 DEF HasRoom
  <2>3. r \o Append(b, e) \o h = Append(s, e)
    <3> HIDE DEF b, h, r, s, e
    <3>1. r \o b \in Seq(Values)
      BY <1>1, ConcatProperties
    <3>2. (r \o b) \o <<>> = r \o b
      BY <3>1, ConcatEmptySeq
    <3>3. r \o b = s
      BY <1>2, <2>2, <3>2
    <3>4. r \o Append(b, e) = Append(r \o b, e)
      BY <1>1, <1>3, AppendLast
    <3>5. r \o Append(b, e) = Append(s, e)
      BY <3>3, <3>4
    <3> QED BY <1>4, <2>2, <3>5, ConcatEmptySeq
  <2>4. q = [v EXCEPT !.buffer = Append(b, e), !.senders = h, !.received = r, !.sent = Append(s, e)]
    BY DEF Worlds
  <2>5. Keeps(v, q)
    <3> HIDE DEF q, u, e, b, h, r, s
    <3> QED BY <1>1, <1>4, <2>2, <2>3, <2>4, ChannelChange
  <2>6. Keeps(q, MarkProgress(q)) /\ MarkProgress(q).progress
    BY <2>5, MarkKeeps DEF Keeps
  <2> QED BY <2>1, <2>5, <2>6, KeepsTransitive
<1>7. CASE ~v.chClosed /\ ~HasRoom(v)
  <2> DEFINE q == [u EXCEPT !.senders = Append(@, e)]
  <2>1. SendOrBlock(v, k) = q
    BY <1>7 DEF SendOrBlock
  <2>2. Len(b) = v.cap
    BY <1>1, <1>2, <1>4, <1>7 DEF HasRoom
  <2>3. r \o b \o Append(h, e) = Append(s, e)
    <3> HIDE DEF b, h, r, s, e
    <3>1. r \o b \in Seq(Values)
      BY <1>1, ConcatProperties
    <3>2. (r \o b) \o Append(h, e) = Append((r \o b) \o h, e)
      BY <1>1, <1>3, <3>1, AppendLast, SMTT(30)
    <3> QED BY <1>2, <3>2
  <2>4. q = [v EXCEPT !.buffer = b, !.senders = Append(h, e), !.received = r, !.sent = Append(s, e)]
    BY DEF Worlds
  <2>5. Keeps(v, q)
    <3> HIDE DEF q, u, e, b, h, r, s
    <3> QED BY <1>1, <1>2, <1>4, <2>2, <2>3, <2>4, ChannelChange
  <2>6. q.progress = v.progress
    BY DEF Worlds
  <2> QED BY <2>1, <2>5, <2>6
<1> QED BY <1>5, <1>6, <1>7

LEMMA ContextKeeps ==
  ASSUME NEW v \in Worlds, Sound(v)
  PROVE  /\ Keeps(v, CloseChannel(v)) /\ Keeps(v, SetFuture(v))
         /\ Keeps(v, WithCancel(v)) /\ Keeps(v, Cancel(v))
         /\ Keeps(v, [v EXCEPT !.x = TRUE])
         /\ \A n \in Nat : Keeps(v, [v EXCEPT !.signals = n])
<1>1. Keeps(v, CloseChannel(v))
  <2> DEFINE u == [v EXCEPT !.chClosed = TRUE]
  <2>1. Keeps(v, u)
    BY DEF Keeps, Worlds, Sound
  <2>2. Keeps(u, MarkProgress(u))
    BY <2>1, MarkKeeps DEF Keeps
  <2> QED BY <2>1, <2>2, PanicKeeps, KeepsTransitive DEF CloseChannel
<1>2. Keeps(v, SetFuture(v))
  <2> DEFINE u == [v EXCEPT !.future = TRUE, !.chained = TRUE]
  <2>1. Keeps(v, u) /\ Keeps(v, v)
    BY DEF Keeps, Worlds, Sound
  <2>2. Keeps(u, MarkProgress(u))
    BY <2>1, MarkKeeps DEF Keeps
  <2> QED BY <2>1, <2>2, KeepsTransitive DEF SetFuture
<1>3. Keeps(v, WithCancel(v))
  <2> DEFINE u == [v EXCEPT !.child = "canceled"]
             l == [v EXCEPT !.child = "live"]
  <2>1. Keeps(v, u) /\ Keeps(v, v) /\ (~v.root => Keeps(v, l))
    BY DEF Keeps, Worlds, Sound
  <2>2. Keeps(u, MarkProgress(u))
    BY <2>1, MarkKeeps DEF Keeps
  <2> QED BY <2>1, <2>2, KeepsTransitive DEF WithCancel
<1>4. Keeps(v, Cancel(v))
  <2> DEFINE u == [v EXCEPT !.root = TRUE, !.child = IF @ = "live" THEN "canceled" ELSE @]
  <2>1. Keeps(v, v)
    BY DEF Keeps
  <2>2. u \in Worlds /\ u.child # "live" /\ u.root
    BY DEF Worlds
  <2>3. /\ u.co = v.co /\ u.buffer = v.buffer /\ u.senders = v.senders /\ u.received = v.received
        /\ u.sent = v.sent /\ u.cap = v.cap
    BY DEF Worlds
  <2>4. Keeps(v, u)
    <3> HIDE DEF u
    <3> QED BY <2>2, <2>3 DEF Keeps, Sound
  <2>5. Keeps(u, MarkProgress(u))
    BY <2>4, MarkKeeps DEF Keeps
  <2> QED BY <2>1, <2>4, <2>5, KeepsTransitive DEF Cancel
<1>5. Keeps(v, [v EXCEPT !.x = TRUE])
  BY DEF Keeps, Worlds, Sound
<1>6. ASSUME NEW n \in Nat PROVE Keeps(v, [v EXCEPT !.signals = n])
  BY DEF Keeps, Worlds, Sound
<1> QED BY <1>1, <1>2, <1>3, <1>4, <1>5, <1>6

LEMMA PerformKeeps ==
  ASSUME NEW v \in Worlds, Sound(v), NEW k, NEW op, Ready(v, k, op)
  PROVE  Keeps(v, Perform(v, k, op))
<1> DEFINE u == [v EXCEPT !.signals = @ - 1]
<1>1. Keeps(v, v) /\ Keeps(v, MarkProgress(v))
  BY MarkKeeps DEF Keeps
<1>2. v.signals > 0 => Keeps(v, u) /\ Keeps(v, MarkProgress(u))
  <2> SUFFICES ASSUME v.signals > 0 PROVE Keeps(v, u) /\ Keeps(v, MarkProgress(u))
    OBVIOUS
  <2>1. v.signals - 1 \in Nat
    BY DEF Worlds
  <2>2. Keeps(v, u)
    BY <2>1, ContextKeeps
  <2>3. Keeps(u, MarkProgress(u))
    BY <2>2, MarkKeeps DEF Keeps
  <2> QED BY <2>2, <2>3, KeepsTransitive
<1> HIDE DEF u
<1>3. CASE op = "recv"
  <2>1. Perform(v, k, op) = IF v.buffer # <<>> \/ v.senders # <<>> THEN ReceiveAsync(v) ELSE v
    BY <1>3 DEF Perform
  <2> QED BY <1>1, <2>1, ReceiveKeeps
<1>4. CASE op = "recvSignal"
  <2>1. Perform(v, k, op) = MarkProgress(u) /\ v.signals > 0
    BY <1>4 DEF Perform, Ready, u
  <2> QED BY <1>2, <2>1
<1>5. CASE op = "select"
  <2>1. Perform(v, k, op) = IF v.signals > 0 THEN MarkProgress(u) ELSE v
    BY <1>5 DEF Perform, u
  <2> QED BY <1>1, <1>2, <2>1
<1>6. CASE op = "selectDefault"
  <2>1. Perform(v, k, op) = MarkProgress(IF v.signals > 0 THEN u ELSE v)
    BY <1>6 DEF Perform, u
  <2> QED BY <1>1, <1>2, <2>1
<1>7. CASE op \in {"close", "set", "write", "withCancel", "cancel"}
  BY <1>7, ContextKeeps DEF Perform
<1>8. CASE op \notin {"recv", "recvSignal", "select", "selectDefault",
                      "close", "set", "write", "withCancel", "cancel"}
  <2>1. Perform(v, k, op) = v
    BY <1>8 DEF Perform
  <2> QED BY <1>1, <2>1
<1> QED BY <1>3, <1>4, <1>5, <1>6, <1>7, <1>8

\* Entering a call that may block marks progress, even when it blocks at once.
LEMMA EnterMarks ==
  ASSUME NEW v \in Worlds, Sound(v), NEW k \in DOMAIN v.co, NEW op
  PROVE  /\ Keeps(v, Enter(v, k, op))
         /\ op \in Blocking => Enter(v, k, op).progress
<1> DEFINE m == MarkProgress(v)
<1>1. Keeps(v, v) /\ Keeps(v, m) /\ m.progress /\ m \in Worlds /\ Sound(m) /\ k \in DOMAIN m.co
  BY MarkKeeps DEF Keeps
<1>2. Keeps(m, SendOrBlock(m, k)) /\ SendOrBlock(m, k).progress
  <2> HIDE DEF m
  <2> QED BY <1>1, SendKeeps
<1>3. Keeps(v, SendOrBlock(m, k))
  BY <1>1, <1>2, KeepsTransitive
<1> QED BY <1>1, <1>2, <1>3 DEF Enter

LEMMA OnlyBlockingWait ==
  ASSUME NEW v, NEW k, NEW op, ~Ready(v, k, op)
  PROVE  op \in Blocking
BY DEF Ready, Blocking

-------------------------------------------------------------------------------
\* One call.

\* A change of the coroutines alone.
LEMMA CoroutinesChange ==
  ASSUME NEW v \in Worlds, Sound(v), NEW c \in Seq(Coroutines)
  PROVE  LET u == [v EXCEPT !.co = c] IN
         /\ u \in Worlds /\ Sound(u) /\ u.co = c
         /\ u.progress = v.progress /\ u.panic = v.panic
BY DEF Worlds, Sound

\* Setting one coroutine's place.
LEMMA PlaceChange ==
  ASSUME NEW v \in Worlds, Sound(v), NEW k \in DOMAIN v.co, NEW c \in Coroutines, NEW u,
         u = [v EXCEPT !.co = [v.co EXCEPT ![k] = c]]
  PROVE  /\ u \in Worlds /\ Sound(u) /\ DOMAIN u.co = DOMAIN v.co /\ Len(u.co) = Len(v.co)
         /\ u.co[k] = c /\ \A j \in DOMAIN v.co : j # k => u.co[j] = v.co[j]
         /\ u.progress = v.progress /\ u.panic = v.panic
<1>1. v.co \in Seq(Coroutines)
  BY DEF Worlds
<1> DEFINE d == [v.co EXCEPT ![k] = c]
<1>2. d \in Seq(Coroutines) /\ Len(d) = Len(v.co) /\ DOMAIN d = DOMAIN v.co
      /\ d[k] = c /\ \A j \in DOMAIN v.co : j # k => d[j] = v.co[j]
  BY <1>1
<1> HIDE DEF d
<1>3. u = [v EXCEPT !.co = d]
  BY DEF d
<1>4. u \in Worlds /\ Sound(u) /\ u.co = d /\ u.progress = v.progress /\ u.panic = v.panic
  BY <1>2, <1>3, CoroutinesChange
<1> QED BY <1>2, <1>4

LEMMA SpawnSound ==
  ASSUME NEW v \in Worlds, Sound(v), \A j \in DOMAIN v.co : CoroutineSound(v.co[j])
  PROVE  LET u == Spawn(v) IN
         /\ u \in Worlds /\ Sound(u) /\ Len(u.co) = Len(v.co) + 1
         /\ \A j \in DOMAIN v.co : j \in DOMAIN u.co /\ u.co[j] = v.co[j]
         /\ \A j \in DOMAIN u.co : CoroutineSound(u.co[j])
<1> DEFINE c == Coroutine(<<"write", "recv">>)
           d == Append(v.co, c)
           q == [v EXCEPT !.co = d]
<1>1. c \in Coroutines /\ CoroutineSound(c)
  <2>1. <<"write", "recv">> \in Seq(Ops) /\ Len(<<"write", "recv">>) = 2
    BY DEF Ops, Blocking
  <2> DEFINE g == <<"write", "recv">>
  <2>2. c = Coroutine(g) /\ g \in Seq(Ops) /\ Len(g) = 2
    BY <2>1
  <2> HIDE DEF g, c
  <2>3. c \in Coroutines
    BY <2>2 DEF Coroutine, Coroutines
  <2>4. c.pc = 1 /\ c.code = g
    BY <2>2 DEF Coroutine
  <2>5. CoroutineSound(c)
    BY <2>2, <2>4, SMTT(30) DEF CoroutineSound
  <2> QED BY <2>3, <2>5
<1>2. v.co \in Seq(Coroutines)
  BY DEF Worlds
<1> HIDE DEF c
<1>3. /\ d \in Seq(Coroutines) /\ Len(d) = Len(v.co) + 1 /\ DOMAIN d = 1 .. Len(v.co) + 1
      /\ Len(v.co) \in Nat /\ DOMAIN v.co = 1 .. Len(v.co)
      /\ d[Len(v.co) + 1] = c /\ \A j \in DOMAIN v.co : d[j] = v.co[j]
  BY <1>1, <1>2
<1> HIDE DEF d
<1>4. q \in Worlds /\ Sound(q) /\ q.co = d
  BY <1>3, CoroutinesChange
<1>5. Keeps(q, MarkProgress(q))
  BY <1>4, MarkKeeps
<1>6. Spawn(v) = MarkProgress(q)
  BY DEF Spawn, d, c
<1>7. \A j \in DOMAIN d : CoroutineSound(d[j])
  BY <1>1, <1>3
<1> HIDE DEF q
<1> QED BY <1>3, <1>4, <1>5, <1>6, <1>7 DEF Keeps

\* A call ends in a panic, blocks anew and has marked progress, is found still blocked
\* and changes nothing, or goes on to the next call.
LEMMA CallSound ==
  ASSUME NEW v \in Worlds, Sound(v), NEW k \in DOMAIN v.co, ~v.co[k].done,
         \A j \in DOMAIN v.co : CoroutineSound(v.co[j])
  PROVE  LET r == Call(v, k) IN
         /\ r \in Worlds /\ Sound(r) /\ Len(v.co) <= Len(r.co)
         /\ \A j \in DOMAIN r.co : j # k => CoroutineSound(r.co[j])
         /\ ~r.co[k].done /\ r.co[k].pc \in 1 .. Len(r.co[k].code) + 1
         /\ \/ r.panic
            \/ r.co[k].entered /\ r.progress
            \/ r.co[k].entered /\ r = v /\ Blocked(v, k)
            \/ ~r.co[k].entered
<1> DEFINE op == v.co[k].code[v.co[k].pc]
           e == IF v.co[k].entered THEN v ELSE Enter(v, k, op)
           r == Call(v, k)
           t == IF op = "go" THEN Spawn(e) ELSE Perform(e, k, op)
           Goal(x) == /\ x \in Worlds /\ Sound(x) /\ Len(v.co) <= Len(x.co)
                      /\ \A j \in DOMAIN x.co : j # k => CoroutineSound(x.co[j])
                      /\ ~x.co[k].done /\ x.co[k].pc \in 1 .. Len(x.co[k].code) + 1
                      /\ \/ x.panic
                         \/ x.co[k].entered /\ x.progress
                         \/ x.co[k].entered /\ x = v /\ Blocked(v, k)
                         \/ ~x.co[k].entered
<1> SUFFICES Goal(r)
  OBVIOUS
<1>1. /\ v.co \in Seq(Coroutines) /\ v.co[k] \in Coroutines /\ Len(v.co) \in Nat
      /\ DOMAIN v.co = 1 .. Len(v.co)
  BY DEF Worlds
<1>2. /\ v.co[k].pc \in Nat /\ v.co[k].code \in Seq(Ops) /\ v.co[k].entered \in BOOLEAN
      /\ v.co[k].pc >= 1 /\ v.co[k].pc <= Len(v.co[k].code)
  BY <1>1 DEF Coroutines, CoroutineSound
<1>2a. /\ v.co[k].pc \in 1 .. Len(v.co[k].code) + 1 /\ Len(v.co) <= Len(v.co)
  <2>1. \A p, q \in Nat : p >= 1 /\ p <= q => p \in 1 .. q + 1
    OBVIOUS
  <2>2. Len(v.co[k].code) \in Nat /\ \A p \in Nat : p <= p
    BY <1>2
  <2> QED BY <1>1, <1>2, <2>1, <2>2, Zenon
<1>3. Keeps(v, e) /\ (~v.co[k].entered /\ op \in Blocking => e.progress)
  <2>1. Keeps(v, v)
    BY DEF Keeps
  <2> QED BY <2>1, EnterMarks
<1>4. e \in Worlds /\ Sound(e) /\ e.co = v.co
  BY <1>3 DEF Keeps
<1>5. CASE e.panic
  <2>1. r = e
    BY <1>5, Zenon DEF Call
  <2> HIDE DEF e, r
  <2> QED BY <1>2a, <1>4, <1>5, <2>1, Zenon
<1>6. CASE ~e.panic /\ ~Ready(e, k, op)
  <2>1. CASE op = "send" /\ e.chClosed
    <3>1. r = Panic(e)
      BY <1>6, <2>1, Zenon DEF Call
    <3>2. Keeps(e, r) /\ r.panic
      BY <1>4, <3>1, PanicKeeps
    <3>3. r \in Worlds /\ Sound(r) /\ r.co = v.co
      BY <1>4, <3>2 DEF Keeps
    <3> HIDE DEF e, r
    <3> QED BY <1>2a, <3>2, <3>3, Zenon
  <2>2. CASE ~(op = "send" /\ e.chClosed)
    <3> DEFINE c == [v.co[k] EXCEPT !.entered = TRUE]
    <3>1. r = Yield(e, k)
      BY <1>6, <2>2, Zenon DEF Call
    <3>2. c \in Coroutines /\ c.entered /\ ~c.done /\ c.pc = v.co[k].pc /\ c.code = v.co[k].code
      BY <1>1, Zenon DEF Coroutines
    <3>3. r = [e EXCEPT !.co = [e.co EXCEPT ![k] = c]]
      BY <1>4, <3>1, Zenon DEF Yield
    <3> HIDE DEF c, r, e
    <3>4. /\ r \in Worlds /\ Sound(r) /\ DOMAIN r.co = DOMAIN e.co /\ Len(r.co) = Len(e.co)
          /\ r.co[k] = c /\ \A j \in DOMAIN e.co : j # k => r.co[j] = e.co[j]
          /\ r.progress = e.progress
      BY <1>4, <3>2, <3>3, PlaceChange
    <3>5. op \in Blocking
      BY <1>6, OnlyBlockingWait
    <3>6. ASSUME v.co[k].entered PROVE r = v /\ Blocked(v, k)
      <4>1. e = v
        BY <3>6 DEF e
      <4>2. c = v.co[k]
        BY <1>1, <3>6 DEF c, Coroutines
      <4>3. [v.co EXCEPT ![k] = c] = v.co
        BY <1>1, <4>2
      <4>4. r = [v EXCEPT !.co = v.co]
        BY <3>3, <4>1, <4>3
      <4>5. r = v
        BY <4>4 DEF Worlds
      <4> QED BY <1>6, <3>6, <4>1, <4>5 DEF Blocked
    <3>7. ~v.co[k].entered => r.progress
      BY <1>3, <3>4, <3>5
    <3> QED BY <1>2a, <1>4, <3>2, <3>4, <3>6, <3>7, Zenon
  <2> QED BY <2>1, <2>2
<1>7. CASE ~e.panic /\ Ready(e, k, op)
  <2> DEFINE c == [t.co[k] EXCEPT !.pc = @ + 1, !.entered = FALSE]
  <2>1. r = [t EXCEPT !.co[k].pc = @ + 1, !.co[k].entered = FALSE]
    BY <1>7, ZenonT(30) DEF Call
  <2> HIDE DEF e
  <2>2. /\ t \in Worlds /\ Sound(t) /\ Len(t.co) >= Len(v.co) /\ Len(t.co) \in Nat
        /\ DOMAIN t.co = 1 .. Len(t.co)
        /\ \A j \in DOMAIN v.co : j \in DOMAIN t.co /\ t.co[j] = v.co[j]
        /\ \A j \in DOMAIN t.co : CoroutineSound(t.co[j])
    <3>1. CASE op = "go"
      <4>1. t = Spawn(e)
        BY <3>1
      <4> HIDE DEF t
      <4>2. t \in Worlds /\ Sound(t) /\ Len(t.co) = Len(v.co) + 1
            /\ (\A j \in DOMAIN v.co : j \in DOMAIN t.co /\ t.co[j] = v.co[j])
            /\ \A j \in DOMAIN t.co : CoroutineSound(t.co[j])
        BY <1>4, <4>1, SpawnSound
      <4>3. t.co \in Seq(Coroutines)
        BY <4>2 DEF Worlds
      <4> QED BY <1>1, <4>2, <4>3
    <3>2. CASE op # "go"
      <4>1. t = Perform(e, k, op)
        BY <3>2
      <4>2. Keeps(e, t)
        <5> HIDE DEF op
        <5> QED BY <1>4, <1>7, <4>1, PerformKeeps
      <4> HIDE DEF t
      <4> QED BY <1>1, <1>4, <4>2 DEF Keeps
    <3> QED BY <3>1, <3>2
  <2> HIDE DEF t
  <2>3. k \in DOMAIN t.co /\ t.co[k] = v.co[k] /\ t.co \in Seq(Coroutines)
    BY <2>2 DEF Worlds
  <2>4. r = [t EXCEPT !.co = [t.co EXCEPT ![k] = c]]
    BY <2>1, <2>3
  <2>5. c \in Coroutines /\ ~c.entered /\ ~c.done /\ c.pc = v.co[k].pc + 1 /\ c.code = v.co[k].code
    <3>1. v.co[k].pc + 1 \in Nat
      BY <1>2
    <3> QED BY <1>1, <2>3, <3>1 DEF Coroutines
  <2> HIDE DEF c, r
  <2>6. /\ r \in Worlds /\ Sound(r) /\ DOMAIN r.co = DOMAIN t.co /\ Len(r.co) = Len(t.co)
        /\ r.co[k] = c /\ \A j \in DOMAIN t.co : j # k => r.co[j] = t.co[j]
    BY <2>2, <2>3, <2>4, <2>5, PlaceChange
  <2>7. c.pc \in 1 .. Len(c.code) + 1
    BY <1>2, <2>5
  <2>8. Len(v.co) <= Len(r.co)
    BY <2>2, <2>6
  <2>9. \A j \in DOMAIN r.co : j # k => CoroutineSound(r.co[j])
    BY <2>2, <2>6, Zenon
  <2> QED BY <2>5, <2>6, <2>7, <2>8, <2>9, Zenon
<1> QED BY <1>5, <1>6, <1>7

-------------------------------------------------------------------------------
\* The invariant.

LEMMA InitInv == Init => Inv
<1> SUFFICES ASSUME Init PROVE Inv
  OBVIOUS
<1>1. PICK progs \in Programs, cap \in Capacities : w = NewWorld(progs, cap)
  BY DEF Init
<1>2. progs \in Seq(Seq(Ops) \ {<<>>}) /\ cap \in Nat
  BY DispatcherAssumption
<1> DEFINE c == [k \in DOMAIN progs |-> Coroutine(progs[k])]
<1>3. ASSUME NEW k \in DOMAIN progs
      PROVE  Coroutine(progs[k]) \in Coroutines /\ CoroutineSound(Coroutine(progs[k]))
  <2> DEFINE g == progs[k]
  <2>1. g \in Seq(Ops) /\ g # <<>>
    BY <1>2
  <2> HIDE DEF g
  <2>2. Len(g) \in Nat \ {0}
    BY <2>1, EmptySeq
  <2>3. Coroutine(g) \in Coroutines
    BY <2>1 DEF Coroutine, Coroutines
  <2>4. Coroutine(g).pc = 1 /\ Coroutine(g).code = g
    BY DEF Coroutine
  <2>5. CoroutineSound(Coroutine(g))
    BY <2>2, <2>4 DEF CoroutineSound
  <2> QED BY <2>3, <2>5 DEF g
<1>4. c \in Seq(Coroutines) /\ DOMAIN c = DOMAIN progs /\ Len(c) \in Nat
      /\ \A k \in DOMAIN c : CoroutineSound(c[k])
  <2>1. DOMAIN progs = 1 .. Len(progs) /\ Len(progs) \in Nat
    BY <1>2
  <2>2. c \in [1 .. Len(progs) -> Coroutines]
    BY <1>3, <2>1
  <2> QED BY <1>3, <2>1, <2>2
<1>5. /\ w.co = c /\ w.cap = cap /\ w.buffer = <<>> /\ w.senders = <<>>
      /\ w.sent = <<>> /\ w.received = <<>> /\ w.root = FALSE
  BY <1>1 DEF NewWorld
<1> HIDE DEF c
<1>6. w \in Worlds
  BY <1>1, <1>2, <1>4 DEF NewWorld, Worlds, c
<1>7. Sound(w)
  <2>1. <<>> \o <<>> \o <<>> = <<>>
    BY ConcatEmptySeq, EmptySeq
  <2> QED BY <1>2, <1>5, <2>1 DEF Sound
<1>8. turn = 0 /\ phase = "idle" /\ events = [n |-> 0, fresh |-> TRUE]
  BY DEF Init
<1>9. events \in [n : Nat, fresh : BOOLEAN] /\ events.fresh
  BY <1>8
<1>10. PassSound /\ NoLostWakeup
  BY <1>8, <1>9 DEF PassSound, NoLostWakeup
<1> HIDE DEF Init
<1> QED BY <1>4, <1>5, <1>6, <1>7, <1>8, <1>9, <1>10 DEF Inv

\* The progress flag is no part of what a coroutine waits for.
LEMMA FlagChange ==
  ASSUME w \in Worlds, Sound(w), NEW b \in BOOLEAN, w' = [w EXCEPT !.progress = b]
  PROVE  /\ w' \in Worlds /\ Sound(w') /\ w'.co = w.co /\ w'.progress = b
         /\ \A k \in DOMAIN w.co : Blocked(w, k) => Blocked(w', k)
<1>1. w' \in Worlds
  BY DEF Worlds
<1>2. /\ w'.co = w.co /\ w'.buffer = w.buffer /\ w'.senders = w.senders
      /\ w'.received = w.received /\ w'.sent = w.sent /\ w'.cap = w.cap
      /\ w'.root = w.root /\ w'.child = w.child /\ w'.chClosed = w.chClosed
      /\ w'.signals = w.signals /\ w'.future = w.future /\ w'.chained = w.chained
      /\ w'.x = w.x /\ w'.progress = b
  BY DEF Worlds
<1>3. Sound(w')
  BY <1>2 DEF Sound
<1>4. ASSUME NEW k \in DOMAIN w.co, NEW op PROVE Ready(w', k, op) <=> Ready(w, k, op)
  BY <1>2 DEF Ready, Pending, Value
<1> QED BY <1>1, <1>2, <1>3, <1>4 DEF Blocked

LEMMA ExecuteKeepsInv ==
  ASSUME Inv, Execute
  PROVE  Inv'
<1> DEFINE r == Call(w, turn)
<1>1. /\ phase = "pass" /\ turn <= Len(w.co) /\ ~w.co[turn].done
      /\ w' = (IF Finished(r, turn) THEN MarkProgress([r EXCEPT !.co[turn].done = TRUE]) ELSE r)
      /\ turn' = (IF r.co[turn].entered \/ Finished(r, turn) THEN turn + 1 ELSE turn)
      /\ phase' = (IF r.panic THEN "panicked" ELSE phase)
      /\ events' = events
  BY DEF Execute
<1>2. /\ w \in Worlds /\ Sound(w) /\ turn \in 0 .. Len(w.co) + 1 /\ turn >= 1
      /\ \A j \in DOMAIN w.co : CoroutineSound(w.co[j])
      /\ events \in [n : Nat, fresh : BOOLEAN] /\ PassSound
  BY <1>1 DEF Inv
<1>3. turn \in DOMAIN w.co /\ w.co \in Seq(Coroutines) /\ Len(w.co) \in Nat
      /\ DOMAIN w.co = 1 .. Len(w.co)
  BY <1>1, <1>2 DEF Worlds
<1>4. /\ r \in Worlds /\ Sound(r) /\ Len(w.co) <= Len(r.co)
      /\ \A j \in DOMAIN r.co : j # turn => CoroutineSound(r.co[j])
      /\ ~r.co[turn].done /\ r.co[turn].pc \in 1 .. Len(r.co[turn].code) + 1
      /\ \/ r.panic
         \/ r.co[turn].entered /\ r.progress
         \/ r.co[turn].entered /\ r = w /\ Blocked(w, turn)
         \/ ~r.co[turn].entered
  BY <1>1, <1>2, <1>3, CallSound
<1> HIDE DEF r
<1>5. /\ r.co \in Seq(Coroutines) /\ Len(r.co) \in Nat /\ DOMAIN r.co = 1 .. Len(r.co)
      /\ turn \in DOMAIN r.co
  BY <1>2, <1>3, <1>4, SMTT(30) DEF Worlds
<1>6. /\ r.co[turn] \in Coroutines /\ r.co[turn].pc \in Nat /\ r.co[turn].code \in Seq(Ops)
      /\ Len(r.co[turn].code) \in Nat
  <2>1. r.co[turn] \in Coroutines
    BY <1>5
  <2>2. r.co[turn].pc \in Nat /\ r.co[turn].code \in Seq(Ops)
    BY <2>1 DEF Coroutines
  <2> QED BY <2>1, <2>2
<1>7. phase' \in {"idle", "pass", "panicked", "closed"} /\ turn' >= 1
      /\ turn' \in 0 .. Len(r.co) + 1 /\ NoLostWakeup'
  <2>1. turn + 1 \in 0 .. Len(r.co) + 1 /\ turn \in 0 .. Len(r.co) + 1 /\ turn + 1 >= 1
    BY <1>2, <1>5
  <2>2. turn' \in 0 .. Len(r.co) + 1 /\ turn' >= 1
    BY <1>1, <1>2, <2>1
  <2>3. phase' # "idle" /\ phase' \in {"idle", "pass", "panicked", "closed"}
    BY <1>1
  <2> QED BY <2>2, <2>3 DEF NoLostWakeup
<1>8. CASE Finished(r, turn)
  <2> DEFINE c == [r.co[turn] EXCEPT !.done = TRUE]
             u == [r EXCEPT !.co[turn].done = TRUE]
  <2>1. c \in Coroutines /\ c.done /\ c.pc = r.co[turn].pc /\ c.code = r.co[turn].code
    BY <1>6 DEF Coroutines
  <2>2. u = [r EXCEPT !.co = [r.co EXCEPT ![turn] = c]]
    OBVIOUS
  <2> HIDE DEF c, u
  <2>3. /\ u \in Worlds /\ Sound(u) /\ DOMAIN u.co = DOMAIN r.co /\ Len(u.co) = Len(r.co)
        /\ u.co[turn] = c /\ \A j \in DOMAIN r.co : j # turn => u.co[j] = r.co[j]
    BY <1>4, <1>5, <2>1, <2>2, PlaceChange
  <2>4. Keeps(u, w') /\ w'.progress
    BY <1>1, <1>8, <2>3, MarkKeeps DEF u
  <2>5. w' \in Worlds /\ Sound(w') /\ w'.co = u.co
    BY <2>4 DEF Keeps
  <2>6. CoroutineSound(c)
    BY <1>4, <2>1 DEF CoroutineSound
  <2>7. \A j \in DOMAIN w'.co : CoroutineSound(w'.co[j])
    BY <1>4, <2>3, <2>5, <2>6
  <2>8. PassSound'
    BY <2>4 DEF PassSound
  <2> QED BY <1>1, <1>2, <1>7, <2>3, <2>5, <2>7, <2>8 DEF Inv
<1>9. CASE ~Finished(r, turn)
  <2>1. w' = r /\ turn' = IF r.co[turn].entered THEN turn + 1 ELSE turn
    BY <1>1, <1>9
  <2>2. CoroutineSound(r.co[turn])
    BY <1>4, <1>6, <1>9 DEF CoroutineSound, Finished
  <2>3. \A j \in DOMAIN w'.co : CoroutineSound(w'.co[j])
    BY <1>4, <2>1, <2>2
  <2>4. PassSound'
    <3>1. CASE r.panic
      BY <1>1, <3>1 DEF PassSound
    <3>2. CASE r.co[turn].entered /\ r.progress
      BY <2>1, <3>2 DEF PassSound
    <3>3. CASE r.co[turn].entered /\ r = w /\ Blocked(w, turn)
      <4>1. turn' = turn + 1 /\ w' = w
        BY <2>1, <3>3
      <4>2. w.progress \/ \A k \in DOMAIN w.co : k < turn => Blocked(w, k)
        BY <1>1, <1>2, <3>3 DEF PassSound
      <4>3. w.progress \/ \A k \in DOMAIN w.co : k < turn + 1 => Blocked(w, k)
        BY <1>2, <1>3, <3>3, <4>2
      <4> HIDE DEF Blocked
      <4>4. w'.progress \/ \A k \in DOMAIN w'.co : k < turn' => Blocked(w', k)
        BY <4>1, <4>3
      <4> QED BY <4>4 DEF PassSound
    <3>4. CASE ~r.co[turn].entered
      BY <1>4, <1>5, <2>1, <3>4 DEF PassSound
    <3> QED BY <1>4, <3>1, <3>2, <3>3, <3>4
  <2> QED BY <1>1, <1>2, <1>4, <1>7, <2>1, <2>3, <2>4 DEF Inv
<1> QED BY <1>8, <1>9

\* Between tasks, what history delivers changes the objects and no coroutine.
LEMMA HappensKeepsInv ==
  ASSUME Inv, NEW v, Keeps(w, v), Happens(v)
  PROVE  Inv'
<1>1. /\ phase = "idle" /\ w' = v /\ events' = [n |-> events.n + 1, fresh |-> TRUE]
      /\ turn' = turn /\ phase' = phase
  BY DEF Happens
<1>2. v \in Worlds /\ Sound(v) /\ v.co = w.co
  BY DEF Keeps
<1>3. events' \in [n : Nat, fresh : BOOLEAN] /\ events'.fresh
  <2>1. events.n + 1 \in Nat
    BY DEF Inv
  <2> QED BY <1>1, <2>1
<1>4. PassSound' /\ NoLostWakeup'
  BY <1>1, <1>3 DEF PassSound, NoLostWakeup
<1> QED BY <1>1, <1>2, <1>3, <1>4 DEF Inv

LEMMA NextInv == Inv /\ [Next]_vars => Inv'
<1> SUFFICES ASSUME Inv, [Next]_vars PROVE Inv'
  OBVIOUS
<1>0. /\ w \in Worlds /\ Sound(w) /\ turn \in 0 .. Len(w.co) + 1
      /\ phase \in {"idle", "pass", "panicked", "closed"} /\ (phase = "pass" => turn >= 1)
      /\ \A j \in DOMAIN w.co : CoroutineSound(w.co[j])
      /\ events \in [n : Nat, fresh : BOOLEAN] /\ PassSound /\ NoLostWakeup
  BY DEF Inv
<1>a. w.co \in Seq(Coroutines) /\ Len(w.co) \in Nat /\ DOMAIN w.co = 1 .. Len(w.co)
  BY <1>0 DEF Worlds
<1>1. CASE BeginRun
  <2>1. /\ phase' = "pass" /\ turn' = 1 /\ w' = [w EXCEPT !.progress = FALSE]
        /\ events' = [events EXCEPT !.fresh = FALSE]
    BY <1>1 DEF BeginRun
  <2>2. w' \in Worlds /\ Sound(w') /\ w'.co = w.co
    BY <1>0, <2>1, FlagChange
  <2>3. events' \in [n : Nat, fresh : BOOLEAN]
    BY <1>0, <2>1
  <2>4. PassSound' /\ NoLostWakeup'
    BY <1>a, <2>1, <2>2 DEF PassSound, NoLostWakeup
  <2> QED BY <1>0, <1>a, <2>1, <2>2, <2>3, <2>4 DEF Inv
<1>2. CASE Execute
  BY <1>2, ExecuteKeepsInv
<1>3. CASE SkipDone
  <2>1. /\ phase = "pass" /\ turn <= Len(w.co) /\ w.co[turn].done /\ turn' = turn + 1
        /\ w' = w /\ phase' = phase /\ events' = events
    BY <1>3 DEF SkipDone
  <2>2. w.progress \/ \A k \in DOMAIN w.co : k < turn => Blocked(w, k)
    BY <1>0, <2>1 DEF PassSound
  <2>3. Blocked(w, turn)
    BY <2>1 DEF Blocked
  <2>4. w.progress \/ \A k \in DOMAIN w.co : k < turn + 1 => Blocked(w, k)
    BY <1>0, <1>a, <2>2, <2>3
  <2> HIDE DEF Blocked
  <2>5. w'.progress \/ \A k \in DOMAIN w'.co : k < turn' => Blocked(w', k)
    BY <2>1, <2>4
  <2>6. PassSound' /\ NoLostWakeup'
    BY <2>1, <2>5 DEF PassSound, NoLostWakeup
  <2> QED BY <1>0, <1>a, <2>1, <2>6 DEF Inv
<1>4. CASE EndPass
  <2>1. /\ phase = "pass" /\ turn > Len(w.co) /\ events' = events
        /\ w' = [w EXCEPT !.progress = FALSE]
    BY <1>4 DEF EndPass
  <2>2. /\ w' \in Worlds /\ Sound(w') /\ w'.co = w.co
        /\ \A k \in DOMAIN w.co : Blocked(w, k) => Blocked(w', k)
    BY <1>0, <2>1, FlagChange
  <2>3. CASE w.progress
    <3>1. phase' = "pass" /\ turn' = 1
      BY <1>4, <2>1, <2>3 DEF EndPass
    <3>2. PassSound' /\ NoLostWakeup'
      BY <1>a, <2>2, <3>1 DEF PassSound, NoLostWakeup
    <3> QED BY <1>0, <1>a, <2>1, <2>2, <3>1, <3>2 DEF Inv
  <2>4. CASE ~w.progress
    <3>1. phase' = "idle" /\ turn' = 0
      BY <1>4, <2>4 DEF EndPass
    <3>2. \A k \in DOMAIN w.co : Blocked(w, k)
      <4>1. \A k \in DOMAIN w.co : k < turn => Blocked(w, k)
        BY <1>0, <1>a, <2>1, <2>4 DEF PassSound
      <4> QED BY <1>0, <1>a, <2>1, <4>1
    <3>3. \A k \in DOMAIN w'.co : Blocked(w', k)
      BY <2>2, <3>2
    <3>4. NoLostWakeup'
      BY <3>3 DEF NoLostWakeup, Blocked
    <3>5. PassSound'
      BY <3>1 DEF PassSound
    <3> QED BY <1>0, <1>a, <2>1, <2>2, <3>1, <3>4, <3>5 DEF Inv
  <2> QED BY <2>3, <2>4
<1>5. CASE DeliverSignal
  <2> DEFINE u == [w EXCEPT !.signals = @ + 1]
  <2>1. w.signals + 1 \in Nat
    BY <1>0 DEF Worlds
  <2>2. Keeps(w, u)
    BY <1>0, <2>1, ContextKeeps
  <2>3. Keeps(u, MarkProgress(u))
    BY <2>2, MarkKeeps DEF Keeps
  <2>4. Keeps(w, MarkProgress(u))
    BY <2>2, <2>3, KeepsTransitive
  <2>5. Happens(MarkProgress(u))
    BY <1>5 DEF DeliverSignal
  <2> HIDE DEF u
  <2> QED BY <2>4, <2>5, HappensKeepsInv
<1>6. CASE ResolveFuture
  <2>1. Keeps(w, SetFuture(w)) /\ Happens(SetFuture(w))
    BY <1>0, <1>6, ContextKeeps DEF ResolveFuture
  <2> QED BY <2>1, HappensKeepsInv
<1>7. CASE CancelRoot
  <2>1. Keeps(w, Cancel(w)) /\ Happens(Cancel(w))
    BY <1>0, <1>7, ContextKeeps DEF CancelRoot
  <2> QED BY <2>1, HappensKeepsInv
<1>8. CASE CloseDispatcher
  <2> DEFINE c == [k \in DOMAIN w.co |-> [w.co[k] EXCEPT !.done = TRUE]]
  <2>1. phase' = "closed" /\ turn' = turn /\ events' = events /\ w' = [w EXCEPT !.co = c]
    BY <1>8 DEF CloseDispatcher
  <2>2. ASSUME NEW k \in DOMAIN w.co
        PROVE  [w.co[k] EXCEPT !.done = TRUE] \in Coroutines
               /\ CoroutineSound([w.co[k] EXCEPT !.done = TRUE])
    <3> DEFINE d == [w.co[k] EXCEPT !.done = TRUE]
    <3>1. w.co[k] \in Coroutines /\ CoroutineSound(w.co[k])
      BY <1>0, <1>a
    <3>2. d \in Coroutines /\ d.pc = w.co[k].pc /\ d.code = w.co[k].code /\ d.done
      BY <3>1 DEF Coroutines
    <3> HIDE DEF d
    <3>3. CoroutineSound(d)
      BY <3>1, <3>2 DEF CoroutineSound
    <3> QED BY <3>2, <3>3 DEF d
  <2>3. /\ c \in Seq(Coroutines) /\ DOMAIN c = DOMAIN w.co /\ Len(c) = Len(w.co)
        /\ \A k \in DOMAIN c : CoroutineSound(c[k])
    <3>1. c \in [1 .. Len(w.co) -> Coroutines]
      BY <1>a, <2>2
    <3>2. c \in Seq(Coroutines) /\ DOMAIN c = 1 .. Len(w.co)
      BY <1>a, <3>1
    <3> QED BY <1>a, <2>2, <3>2
  <2> HIDE DEF c
  <2>4. w' \in Worlds /\ Sound(w') /\ w'.co = c
    BY <1>0, <2>1, <2>3, CoroutinesChange
  <2>5. PassSound' /\ NoLostWakeup'
    BY <2>1 DEF PassSound, NoLostWakeup
  <2> QED BY <1>0, <2>1, <2>3, <2>4, <2>5 DEF Inv
<1>9. CASE UNCHANGED vars
  <2>1. w' = w /\ turn' = turn /\ phase' = phase /\ events' = events
    BY <1>9 DEF vars
  <2>2. PassSound'
    BY <1>0, <2>1 DEF PassSound
  <2>3. NoLostWakeup'
    BY <1>0, <2>1 DEF NoLostWakeup
  <2> QED BY <1>0, <2>1, <2>2, <2>3 DEF Inv
<1> QED BY <1>1, <1>2, <1>3, <1>4, <1>5, <1>6, <1>7, <1>8, <1>9 DEF Next

LEMMA InvHolds == Spec => []Inv
<1> QED BY InitInv, NextInv, PTL DEF Spec

\* The channel loses, repeats and reorders nothing, stays within its capacity and
\* blocks a sender only when it is full, whatever the programs and the capacity.
THEOREM ChannelKeepsOrder == Spec => []ChannelSound
<1>1. Inv => ChannelSound
  BY DEF Inv, Sound, CoroutineSound, ChannelSound, TypeOK, ChannelIsFIFO, BlockedOnlyWhenFull
<1> QED BY <1>1, InvHolds, PTL

\* When ExecuteUntilAllBlocked returns, every coroutine that is left is in a call that
\* cannot go on, and a cancellation has reached what was derived from the context.
THEOREM NobodySleepsOn == Spec => []AllBlocked
<1>1. Inv => AllBlocked
  BY DEF Inv, Sound, AllBlocked, CancelReachesChildren
<1> QED BY <1>1, InvHolds, PTL
===============================================================================
