---------------------------- MODULE MatchingProofs ----------------------------
(***************************************************************************)
(* For any set of tasks and pollers and any backlog capacity, the queue of *)
(* Matching.tla loses and duplicates nothing and implements TaskPool.      *)
(* TypeOK, Conservation and WaitersMatchPolls together are inductive:      *)
(* Conservation needs WaitersMatchPolls to know that the channel a task is *)
(* sent into, or that Park replaces, is empty.                             *)
(***************************************************************************)
EXTENDS Matching, TLAPS

-------------------------------------------------------------------------------
\* Sequences without repetitions.

\* Appending a new element to a sequence without repetitions.
LEMMA AppendElements ==
  ASSUME NEW S, NEW s \in Seq(S), NEW x \in S, IsInjective(s), x \notin ToSet(s)
  PROVE  /\ Append(s, x) \in Seq(S)
         /\ Len(Append(s, x)) = Len(s) + 1
         /\ ToSet(Append(s, x)) = ToSet(s) \cup {x}
         /\ IsInjective(Append(s, x))
<1> DEFINE u == Append(s, x)
<1>1. /\ u \in Seq(S)
      /\ Len(u) = Len(s) + 1
      /\ DOMAIN u = 1 .. (Len(s) + 1)
      /\ \A i \in 1 .. Len(s) : u[i] = s[i]
      /\ u[Len(s) + 1] = x
      /\ DOMAIN s = 1 .. Len(s)
      /\ Len(s) \in Nat
  OBVIOUS
<1> HIDE DEF u
<1>2. ToSet(u) = ToSet(s) \cup {x}
  <2>1. \A i \in DOMAIN u : u[i] \in ToSet(s) \cup {x}
    BY <1>1 DEF ToSet
  <2>2. Len(s) + 1 \in DOMAIN u /\ DOMAIN s \subseteq DOMAIN u
    BY <1>1
  <2>3. \A i \in DOMAIN s : u[i] = s[i]
    BY <1>1
  <2> QED BY <1>1, <2>1, <2>2, <2>3 DEF ToSet
<1>3. IsInjective(u)
  BY <1>1 DEF IsInjective, ToSet
<1> QED BY <1>1, <1>2, <1>3 DEF u

\* Popping the head of a sequence without repetitions removes that element only.
LEMMA TailElements ==
  ASSUME NEW S, NEW s \in Seq(S), IsInjective(s), s # <<>>
  PROVE  /\ Head(s) \in S
         /\ Head(s) \in ToSet(s)
         /\ Tail(s) \in Seq(S)
         /\ Len(Tail(s)) = Len(s) - 1
         /\ ToSet(Tail(s)) = ToSet(s) \ {Head(s)}
         /\ IsInjective(Tail(s))
<1> DEFINE u == Tail(s)
           h == Head(s)
<1>1. /\ u \in Seq(S)
      /\ Len(u) = Len(s) - 1
      /\ DOMAIN u = 1 .. (Len(s) - 1)
      /\ \A i \in 1 .. (Len(s) - 1) : u[i] = s[i + 1]
      /\ DOMAIN s = 1 .. Len(s)
      /\ Len(s) \in Nat \ {0}
      /\ h = s[1]
      /\ h \in S
  OBVIOUS
<1> HIDE DEF u, h
<1>2. h \in ToSet(s)
  BY <1>1 DEF ToSet
<1>3. IsInjective(u)
  BY <1>1 DEF IsInjective
<1>4. ASSUME NEW i \in DOMAIN u PROVE u[i] \in ToSet(s) /\ u[i] # h
  <2>1. i + 1 \in DOMAIN s /\ 1 \in DOMAIN s /\ i + 1 # 1 /\ u[i] = s[i + 1]
    BY <1>1
  <2> QED BY <1>1, <2>1 DEF ToSet, IsInjective
<1>5. ASSUME NEW i \in DOMAIN s, s[i] # h PROVE s[i] \in ToSet(u)
  <2>1. i - 1 \in DOMAIN u /\ u[i - 1] = s[i]
    BY <1>1, <1>5
  <2> QED BY <2>1 DEF ToSet
<1>6. ToSet(u) = ToSet(s) \ {h}
  BY <1>4, <1>5 DEF ToSet
<1> QED BY <1>1, <1>2, <1>3, <1>6 DEF u, h

\* Unlinking one element of a sequence without repetitions removes that element
\* and nothing else.
LEMMA UnlinkElement ==
  ASSUME NEW S, NEW s \in Seq(S), NEW k \in DOMAIN s, IsInjective(s)
  PROVE  LET u == SubSeq(s, 1, k - 1) \o SubSeq(s, k + 1, Len(s)) IN
         /\ u \in Seq(S)
         /\ ToSet(u) = ToSet(s) \ {s[k]}
         /\ IsInjective(u)
<1> DEFINE u == SubSeq(s, 1, k - 1) \o SubSeq(s, k + 1, Len(s))
<1>1. /\ u \in Seq(S)
      /\ DOMAIN u = 1 .. (Len(s) - 1)
      /\ \A i \in DOMAIN u : u[i] = IF i < k THEN s[i] ELSE s[i + 1]
  <2> DEFINE a == SubSeq(s, 1, k - 1)
             b == SubSeq(s, k + 1, Len(s))
  <2>1. a \in Seq(S) /\ Len(a) = k - 1 /\ \A i \in 1 .. (k - 1) : a[i] = s[i]
    OBVIOUS
  <2>2. /\ b \in Seq(S)
        /\ Len(b) = Len(s) - k
        /\ \A i \in 1 .. (Len(s) - k) : b[i] = s[i + k]
    OBVIOUS
  <2> HIDE DEF a, b
  <2>3. /\ a \o b \in Seq(S)
        /\ Len(a \o b) = Len(s) - 1
        /\ \A i \in 1 .. (Len(s) - 1) :
             (a \o b)[i] = IF i < k THEN a[i] ELSE b[i - (k - 1)]
    BY <2>1, <2>2, SMTT(30)
  <2>4. DOMAIN (a \o b) = 1 .. (Len(s) - 1)
    BY <2>3
  <2>5. \A i \in 1 .. (Len(s) - 1) : (a \o b)[i] = IF i < k THEN s[i] ELSE s[i + 1]
    <3> TAKE i \in 1 .. (Len(s) - 1)
    <3>1. CASE i < k
      <4>1. i \in 1 .. (k - 1)
        BY <3>1
      <4> QED BY <2>1, <2>3, <3>1, <4>1
    <3>2. CASE ~(i < k)
      <4>1. i - (k - 1) \in 1 .. (Len(s) - k) /\ (i - (k - 1)) + k = i + 1
        BY <3>2
      <4>2. b[i - (k - 1)] = s[i + 1]
        BY <2>2, <4>1
      <4> QED BY <2>3, <3>2, <4>2
    <3> QED BY <3>1, <3>2
  <2> QED BY <2>3, <2>4, <2>5 DEF a, b
<1> HIDE DEF u
<1>2. IsInjective(u)
  BY <1>1 DEF IsInjective
<1>3. ASSUME NEW i \in DOMAIN s, s[i] # s[k] PROVE s[i] \in ToSet(u)
  <2>1. CASE i < k
    <3>1. i \in DOMAIN u /\ u[i] = s[i]
      BY <1>1, <1>3, <2>1
    <3> QED BY <3>1 DEF ToSet
  <2>2. CASE i > k
    <3>1. i - 1 \in DOMAIN u /\ u[i - 1] = s[i]
      BY <1>1, <1>3, <2>2
    <3> QED BY <3>1 DEF ToSet
  <2> QED BY <1>3, <2>1, <2>2
<1>4. ASSUME NEW i \in DOMAIN u PROVE u[i] \in ToSet(s) /\ u[i] # s[k]
  BY <1>1 DEF ToSet, IsInjective
<1>5. ToSet(u) = ToSet(s) \ {s[k]}
  BY <1>3, <1>4 DEF ToSet
<1> QED BY <1>1, <1>2, <1>5 DEF u

-------------------------------------------------------------------------------
\* The empty queue satisfies the invariant.
LEMMA InitInv == Init => QueueSound
BY BacklogAssumption, NoTaskAssumption
   DEF Init, QueueSound, TypeOK, Conservation, WaitersMatchPolls, Queued, Buffered,
       ToSet, IsInjective

\* A poll that takes the task out of its channel keeps the books balanced.
LEMMA ChannelReturn ==
  ASSUME QueueSound, NEW p \in Pollers, ch[p] # NoTask,
         ch' = [ch EXCEPT ![p] = NoTask],
         returned' = [returned EXCEPT ![ch[p]] = @ + 1],
         UNCHANGED <<adding, backlog, dropped>>
  PROVE  /\ Conservation'
         /\ ch[p] \in Buffered
         /\ Buffered' = Buffered \ {ch[p]}
<1> DEFINE t == ch[p]
<1>1. t \in Tasks /\ t \in Buffered /\ Queued' = Queued
  BY DEF QueueSound, TypeOK, Buffered, Queued
<1>2. Buffered' = Buffered \ {t}
  BY <1>1 DEF QueueSound, TypeOK, Conservation, Buffered
<1>3. returned[t] = 0 /\ t \notin Queued /\ t \notin dropped /\ adding[t] = "accepted"
  BY <1>1 DEF QueueSound, TypeOK, Conservation
<1>4. returned' \in [Tasks -> Nat] /\ returned'[t] = 1
      /\ \A x \in Tasks \ {t} : returned'[x] = returned[x]
  BY <1>1, <1>3 DEF QueueSound, TypeOK
<1>5. \A q, r \in Pollers : ch'[q] = ch'[r] /\ ch'[q] # NoTask => q = r
  BY DEF QueueSound, TypeOK, Conservation
<1> HIDE DEF t
<1>6. Conservation'
  BY <1>1, <1>2, <1>3, <1>4, <1>5 DEF QueueSound, TypeOK, Conservation
<1> QED BY <1>1, <1>2, <1>6 DEF t

\* Every step of Add, Poll and Close preserves the invariant.
LEMMA StepInv == QueueSound /\ [Next]_vars => QueueSound'
<1> SUFFICES ASSUME QueueSound, [Next]_vars PROVE QueueSound'
  OBVIOUS
<1> USE BacklogAssumption, NoTaskAssumption
<1>1. ASSUME NEW t \in Tasks, BeginAdd(t) PROVE QueueSound'
  <2>1. TypeOK'
    BY <1>1 DEF QueueSound, TypeOK, BeginAdd
  <2>2. Conservation'
    BY <1>1 DEF QueueSound, TypeOK, BeginAdd, Conservation, Queued, Buffered
  <2>3. WaitersMatchPolls'
    BY <1>1 DEF QueueSound, BeginAdd, WaitersMatchPolls
  <2> QED BY <2>1, <2>2, <2>3 DEF QueueSound
<1>2. ASSUME NEW t \in Tasks, Offer(t) PROVE QueueSound'
  <2>0. /\ t \notin Queued /\ t \notin Buffered /\ t \notin dropped
        /\ returned[t] = 0 /\ adding[t] = "checked"
    <3>1. adding[t] = "checked"
      BY <1>2 DEF Offer
    <3>2. ~(t \in Queued \/ t \in Buffered \/ returned[t] > 0 \/ t \in dropped)
      BY <3>1 DEF QueueSound, Conservation
    <3>3. returned[t] \in Nat
      BY DEF QueueSound, TypeOK
    <3> QED BY <3>1, <3>2, <3>3
  <2>a. \A i \in DOMAIN waiters : waiters[i] \notin settled
    BY DEF QueueSound, WaitersMatchPolls, ToSet
  <2>1. ASSUME NEW k \in DOMAIN waiters, SyncMatch(t, k) PROVE QueueSound'
    <3>1. k = 1 /\ waiters # <<>>
      <4>1. DOMAIN waiters = 1 .. Len(waiters) /\ Len(waiters) \in Nat
        BY DEF QueueSound, TypeOK
      <4>2. k \in Nat /\ 1 \in DOMAIN waiters /\ waiters # <<>>
        BY <4>1
      <4>3. k # 1 => 1 \in 1 .. (k - 1)
        BY <4>1, <4>2
      <4> QED BY <2>1, <2>a, <4>2, <4>3 DEF SyncMatch
    <3>2. waiters' = Tail(waiters) /\ waiters[k] = Head(waiters)
      BY <2>1, <3>1 DEF SyncMatch, QueueSound, TypeOK
    <3> DEFINE p == waiters[k]
    <3>3. p \in Pollers /\ p \notin settled /\ ch[p] = NoTask
          /\ pc[p] \in {"parked", "leaving"}
      BY <2>1 DEF QueueSound, TypeOK, WaitersMatchPolls, SyncMatch, ToSet
    <3>4. /\ waiters' \in Seq(Pollers)
          /\ ToSet(waiters') = ToSet(waiters) \ {p}
          /\ IsInjective(waiters')
      BY <3>1, <3>2, TailElements DEF QueueSound, TypeOK, WaitersMatchPolls
    <3>5. /\ settled' = settled \cup {p}
          /\ ch' = [ch EXCEPT ![p] = t]
          /\ adding' = [adding EXCEPT ![t] = "accepted"]
          /\ UNCHANGED <<backlog, pc, returned, dropped, phase>>
      BY <1>2, <2>1 DEF SyncMatch, Offer
    <3> HIDE DEF p
    <3>6. TypeOK'
      BY <3>3, <3>4, <3>5 DEF QueueSound, TypeOK
    <3>7. WaitersMatchPolls'
      BY <3>3, <3>4, <3>5 DEF QueueSound, TypeOK, WaitersMatchPolls
    <3>8. Queued' = Queued /\ Buffered' = Buffered \cup {t}
      BY <3>3, <3>5 DEF QueueSound, TypeOK, Queued, Buffered
    <3>9. \A q, r \in Pollers : ch'[q] = ch'[r] /\ ch'[q] # NoTask => q = r
      BY <2>0, <3>3, <3>5 DEF QueueSound, TypeOK, Conservation, Buffered
    <3>10. Conservation'
      BY <2>0, <3>5, <3>8, <3>9 DEF QueueSound, TypeOK, Conservation
    <3> QED BY <3>6, <3>7, <3>10 DEF QueueSound
  <2>2. ASSUME Enqueue(t) PROVE QueueSound'
    <3>1. waiters = <<>> /\ waiters' = waiters
      BY <2>2, <2>a DEF Enqueue, QueueSound, TypeOK
    <3>2. WaitersMatchPolls'
      BY <1>2, <2>2, <3>1 DEF QueueSound, WaitersMatchPolls, Enqueue, Offer
    <3>3. CASE Len(backlog) >= MaxBacklog
      <4>1. /\ adding' = [adding EXCEPT ![t] = "refused"]
            /\ UNCHANGED <<backlog, waiters, settled, ch, pc, returned, dropped, phase>>
        BY <1>2, <2>2, <3>1, <3>3 DEF Enqueue, Offer
      <4>2. TypeOK'
        BY <4>1 DEF QueueSound, TypeOK
      <4>3. Conservation'
        BY <2>0, <4>1 DEF QueueSound, TypeOK, Conservation, Queued, Buffered
      <4> QED BY <3>2, <4>2, <4>3 DEF QueueSound
    <3>4. CASE ~(Len(backlog) >= MaxBacklog)
      <4>1. /\ adding' = [adding EXCEPT ![t] = "accepted"]
            /\ backlog' = Append(backlog, t)
            /\ UNCHANGED <<waiters, settled, ch, pc, returned, dropped, phase>>
        BY <1>2, <2>2, <3>1, <3>4 DEF Enqueue, Offer
      <4>2. /\ backlog' \in Seq(Tasks)
            /\ Len(backlog') = Len(backlog) + 1
            /\ ToSet(backlog') = ToSet(backlog) \cup {t}
            /\ IsInjective(backlog')
        BY <2>0, <4>1, AppendElements DEF QueueSound, TypeOK, Conservation, Queued
      <4>3. TypeOK'
        BY <3>4, <4>1, <4>2 DEF QueueSound, TypeOK
      <4>4. Queued' = Queued \cup {t} /\ Buffered' = Buffered
        BY <4>1, <4>2 DEF Queued, Buffered
      <4>5. Conservation'
        BY <2>0, <4>1, <4>2, <4>4 DEF QueueSound, TypeOK, Conservation
      <4> QED BY <3>2, <4>3, <4>5 DEF QueueSound
    <3> QED BY <3>3, <3>4
  <2> QED BY <1>2, <2>1, <2>2 DEF Offer
<1>3. ASSUME NEW p \in Pollers, BeginPoll(p) PROVE QueueSound'
  <2>1. TypeOK'
    BY <1>3 DEF QueueSound, TypeOK, BeginPoll
  <2>2. Conservation'
    BY <1>3 DEF QueueSound, BeginPoll, Conservation, Queued, Buffered
  <2>3. WaitersMatchPolls'
    BY <1>3 DEF QueueSound, TypeOK, BeginPoll, WaitersMatchPolls
  <2> QED BY <2>1, <2>2, <2>3 DEF QueueSound
<1>4. ASSUME NEW p \in Pollers, TakeBacklog(p) PROVE QueueSound'
  <2>1. WaitersMatchPolls'
    BY <1>4 DEF QueueSound, TypeOK, TakeBacklog, WaitersMatchPolls
  <2>2. CASE backlog = <<>>
    <3>1. /\ pc' = [pc EXCEPT ![p] = "missed"]
          /\ UNCHANGED <<adding, backlog, waiters, settled, ch, returned, dropped, phase>>
      BY <1>4, <2>2 DEF TakeBacklog
    <3>2. TypeOK'
      BY <3>1 DEF QueueSound, TypeOK
    <3>3. Conservation'
      BY <3>1 DEF QueueSound, Conservation, Queued, Buffered
    <3> QED BY <2>1, <3>2, <3>3 DEF QueueSound
  <2>3. CASE backlog # <<>>
    <3> DEFINE h == Head(backlog)
    <3>1. /\ backlog' = Tail(backlog)
          /\ returned' = [returned EXCEPT ![h] = @ + 1]
          /\ pc' = [pc EXCEPT ![p] = "idle"]
          /\ UNCHANGED <<adding, waiters, settled, ch, dropped, phase>>
      BY <1>4, <2>3 DEF TakeBacklog
    <3>2. /\ h \in Tasks /\ h \in ToSet(backlog)
          /\ backlog' \in Seq(Tasks)
          /\ Len(backlog') = Len(backlog) - 1
          /\ ToSet(backlog') = ToSet(backlog) \ {h}
          /\ IsInjective(backlog')
      BY <2>3, <3>1, TailElements DEF QueueSound, TypeOK, Conservation
    <3> HIDE DEF h
    <3>3. Queued' = Queued \ {h} /\ Buffered' = Buffered /\ h \in Queued
      BY <3>1, <3>2 DEF Queued, Buffered
    <3>4. returned[h] = 0
      BY <3>2, <3>3 DEF QueueSound, TypeOK, Conservation
    <3>5. TypeOK'
      BY <3>1, <3>2 DEF QueueSound, TypeOK
    <3>6. Conservation'
      BY <3>1, <3>2, <3>3, <3>4 DEF QueueSound, TypeOK, Conservation
    <3> QED BY <2>1, <3>5, <3>6 DEF QueueSound
  <2> QED BY <2>2, <2>3
<1>5. ASSUME NEW p \in Pollers, Park(p) PROVE QueueSound'
  <2>1. ch[p] = NoTask /\ p \notin ToSet(waiters)
    BY <1>5 DEF QueueSound, TypeOK, WaitersMatchPolls, Park
  <2>2. ch' = ch
    BY <1>5, <2>1 DEF QueueSound, TypeOK, Park
  <2>3. /\ waiters' \in Seq(Pollers)
        /\ ToSet(waiters') = ToSet(waiters) \cup {p}
        /\ IsInjective(waiters')
    <3>1. waiters' = Append(waiters, p)
      BY <1>5 DEF Park
    <3>2. waiters \in Seq(Pollers) /\ IsInjective(waiters)
      BY DEF QueueSound, TypeOK, WaitersMatchPolls
    <3> QED BY <2>1, <3>1, <3>2, AppendElements
  <2>4. TypeOK'
    BY <1>5, <2>3 DEF QueueSound, TypeOK, Park
  <2>5. Conservation'
    BY <1>5, <2>2 DEF QueueSound, Park, Conservation, Queued, Buffered
  <2>6. WaitersMatchPolls'
    BY <1>5, <2>1, <2>2, <2>3 DEF QueueSound, TypeOK, WaitersMatchPolls, Park
  <2> QED BY <2>4, <2>5, <2>6 DEF QueueSound
<1>6. ASSUME NEW p \in Pollers, Receive(p) PROVE QueueSound'
  <2>1. Conservation'
    BY <1>6, ChannelReturn DEF Receive
  <2>2. ch[p] \in Tasks
    BY <1>6 DEF QueueSound, TypeOK, Receive
  <2>3. TypeOK'
    BY <1>6, <2>2 DEF QueueSound, TypeOK, Receive
  <2>4. WaitersMatchPolls'
    BY <1>6 DEF QueueSound, TypeOK, WaitersMatchPolls, Receive
  <2> QED BY <2>1, <2>3, <2>4 DEF QueueSound
<1>7. ASSUME NEW p \in Pollers, StopWaiting(p) PROVE QueueSound'
  <2>1. TypeOK'
    BY <1>7 DEF QueueSound, TypeOK, StopWaiting
  <2>2. Conservation'
    BY <1>7 DEF QueueSound, StopWaiting, Conservation, Queued, Buffered
  <2>3. WaitersMatchPolls'
    BY <1>7 DEF QueueSound, TypeOK, StopWaiting, WaitersMatchPolls
  <2> QED BY <2>1, <2>2, <2>3 DEF QueueSound
<1>8. ASSUME NEW p \in Pollers, Unpark(p) PROVE QueueSound'
  <2>0. /\ pc[p] = "leaving" /\ pc' = [pc EXCEPT ![p] = "idle"]
        /\ UNCHANGED <<adding, backlog, dropped, phase>>
    BY <1>8 DEF Unpark
  <2>1. CASE p \in settled
    <3>1. /\ ch' = [ch EXCEPT ![p] = NoTask]
          /\ UNCHANGED <<waiters, settled>>
          /\ returned' = IF ch[p] = NoTask THEN returned
                         ELSE [returned EXCEPT ![ch[p]] = @ + 1]
      BY <1>8, <2>1 DEF Unpark
    <3>2. WaitersMatchPolls'
      BY <2>0, <2>1, <3>1 DEF QueueSound, TypeOK, WaitersMatchPolls
    <3>3. CASE ch[p] # NoTask
      <4>1. Conservation'
        BY <2>0, <3>1, <3>3, ChannelReturn
      <4>2. ch[p] \in Tasks
        BY <3>3 DEF QueueSound, TypeOK
      <4>3. TypeOK'
        BY <2>0, <3>1, <3>3, <4>2 DEF QueueSound, TypeOK
      <4> QED BY <3>2, <4>1, <4>3 DEF QueueSound
    <3>4. CASE ch[p] = NoTask
      <4>1. ch' = ch /\ returned' = returned
        BY <3>1, <3>4 DEF QueueSound, TypeOK
      <4>2. Conservation'
        BY <2>0, <4>1 DEF QueueSound, Conservation, Queued, Buffered
      <4>3. TypeOK'
        BY <2>0, <3>1, <4>1 DEF QueueSound, TypeOK
      <4> QED BY <3>2, <4>2, <4>3 DEF QueueSound
    <3> QED BY <3>3, <3>4
  <2>2. CASE p \notin settled
    <3>1. settled' = settled \cup {p} /\ UNCHANGED <<ch, returned>> /\ ch[p] = NoTask
      BY <1>8, <2>2 DEF QueueSound, WaitersMatchPolls, Unpark
    <3>2. PICK k \in DOMAIN waiters :
            /\ waiters[k] = p
            /\ waiters' = SubSeq(waiters, 1, k - 1) \o SubSeq(waiters, k + 1, Len(waiters))
      BY <1>8, <2>2 DEF Unpark, RemoveElem
    <3>3. /\ waiters' \in Seq(Pollers)
          /\ ToSet(waiters') = ToSet(waiters) \ {p}
          /\ IsInjective(waiters')
      BY <3>2, UnlinkElement DEF QueueSound, TypeOK, WaitersMatchPolls
    <3>4. TypeOK'
      BY <2>0, <3>1, <3>3 DEF QueueSound, TypeOK
    <3>5. Conservation'
      BY <2>0, <3>1 DEF QueueSound, Conservation, Queued, Buffered
    <3>6. WaitersMatchPolls'
      BY <2>0, <3>1, <3>3 DEF QueueSound, TypeOK, WaitersMatchPolls
    <3> QED BY <3>4, <3>5, <3>6 DEF QueueSound
  <2> QED BY <2>1, <2>2
<1>9. ASSUME BeginClose PROVE QueueSound'
  BY <1>9
     DEF QueueSound, TypeOK, Conservation, WaitersMatchPolls, Queued, Buffered, BeginClose
<1>10. ASSUME Drain PROVE QueueSound'
  <2>1. ToSet(<<>>) = {} /\ IsInjective(<<>>)
    BY DEF ToSet, IsInjective
  <2>2. Queued' = {} /\ Buffered' = Buffered /\ dropped' = dropped \cup Queued
    BY <1>10, <2>1 DEF Drain, Queued, Buffered
  <2>3. Queued \subseteq Tasks /\ ToSet(waiters) \subseteq Pollers
    BY DEF QueueSound, TypeOK, Queued, ToSet
  <2>4. TypeOK'
    BY <1>10, <2>2, <2>3 DEF QueueSound, TypeOK, Drain
  <2>5. Conservation'
    BY <1>10, <2>1, <2>2 DEF QueueSound, TypeOK, Conservation, Drain
  <2>6. WaitersMatchPolls'
    BY <1>10, <2>1 DEF QueueSound, TypeOK, WaitersMatchPolls, Drain
  <2> QED BY <2>4, <2>5, <2>6 DEF QueueSound
<1>11. CASE UNCHANGED vars
  BY <1>11
     DEF QueueSound, TypeOK, Conservation, WaitersMatchPolls, Queued, Buffered, vars
<1> QED
  BY <1>1, <1>2, <1>3, <1>4, <1>5, <1>6, <1>7, <1>8, <1>9, <1>10, <1>11 DEF Next

\* The queue's books are balanced in every reachable state.
THEOREM QueueIsSound == Spec => []QueueSound
BY InitInv, StepInv, PTL DEF Spec

\* The shape of the queue's state, and the bound Config.MaxBacklog, hold in every
\* reachable state.
THEOREM TypeCorrect == Spec => []TypeOK
<1>1. QueueSound => TypeOK
  BY DEF QueueSound
<1> QED BY InitInv, StepInv, <1>1, PTL DEF Spec

\* No accepted task is lost or returned twice, whatever the interleaving of
\* offer, poll timeout, cancellation and shutdown ("a task is never lost on poll
\* timeout", the comment in poll).
THEOREM NothingLost == Spec => []Conservation
<1>1. QueueSound => Conservation
  BY DEF QueueSound
<1> QED BY InitInv, StepInv, <1>1, PTL DEF Spec

\* offer only ever meets waiters that still wait.
THEOREM WaitersAreLive == Spec => []WaitersMatchPolls
<1>1. QueueSound => WaitersMatchPolls
  BY DEF QueueSound
<1> QED BY InitInv, StepInv, <1>1, PTL DEF Spec

-------------------------------------------------------------------------------
\* Every step of the queue is a step of TaskPool or leaves the pool alone.
LEMMA StepPool == QueueSound /\ QueueSound' /\ [Next]_vars => [Pool!Next]_<<Queued \cup Buffered, returned, phase = "open">>
<1> SUFFICES ASSUME QueueSound, QueueSound', [Next]_vars
             PROVE  \/ Pool!Next
                    \/ /\ (Queued \cup Buffered)' = Queued \cup Buffered
                       /\ returned' = returned
                       /\ (phase = "open")' = (phase = "open")
  OBVIOUS
<1> USE NoTaskAssumption
<1> DEFINE Same == /\ (Queued \cup Buffered)' = Queued \cup Buffered
                   /\ returned' = returned
                   /\ (phase = "open")' = (phase = "open")
<1>1. ASSUME NEW t \in Tasks, BeginAdd(t) PROVE Same
  BY <1>1 DEF BeginAdd, Queued, Buffered
<1>2. ASSUME NEW t \in Tasks, Offer(t) PROVE Pool!Accept(t) \/ Same
  <2>1. returned[t] = 0
    BY <1>2 DEF QueueSound, TypeOK, Conservation, Offer
  <2>2. UNCHANGED <<returned, phase>>
    BY <1>2 DEF Offer
  <2>3. ASSUME NEW k \in DOMAIN waiters, SyncMatch(t, k)
        PROVE  (Queued \cup Buffered)' = Queued \cup Buffered \cup {t}
    <3>1. waiters[k] \in Pollers /\ ch[waiters[k]] = NoTask
      BY <2>3 DEF QueueSound, TypeOK, WaitersMatchPolls, SyncMatch
    <3> QED BY <2>3, <3>1 DEF QueueSound, TypeOK, SyncMatch, Queued, Buffered
  <2>4. ASSUME Enqueue(t)
        PROVE  \/ (Queued \cup Buffered)' = Queued \cup Buffered \cup {t}
               \/ Same
    <3>1. CASE Len(backlog) >= MaxBacklog
      BY <2>2, <2>4, <3>1 DEF Enqueue, Queued, Buffered
    <3>2. CASE ~(Len(backlog) >= MaxBacklog)
      <4>1. backlog' = Append(backlog, t) /\ ch' = ch
        BY <2>4, <3>2 DEF Enqueue
      <4>2. t \notin ToSet(backlog)
        BY <1>2 DEF QueueSound, TypeOK, Conservation, Queued, Offer
      <4>3. ToSet(backlog') = ToSet(backlog) \cup {t}
        BY <4>1, <4>2, AppendElements DEF QueueSound, TypeOK, Conservation
      <4> QED BY <4>1, <4>3 DEF Queued, Buffered
    <3> QED BY <3>1, <3>2
  <2>5. \/ (Queued \cup Buffered)' = Queued \cup Buffered \cup {t}
        \/ Same
    BY <1>2, <2>3, <2>4 DEF Offer
  <2> QED BY <2>1, <2>2, <2>5 DEF Pool!Accept
<1>3. ASSUME NEW p \in Pollers, BeginPoll(p) \/ Park(p) \/ StopWaiting(p) PROVE Same
  <2>1. ch' = ch
    <3>1. CASE Park(p)
      <4>1. ch[p] = NoTask
        BY <3>1 DEF Park, QueueSound, WaitersMatchPolls
      <4> QED BY <3>1, <4>1 DEF Park, QueueSound, TypeOK
    <3> QED BY <1>3, <3>1 DEF BeginPoll, StopWaiting
  <2> QED BY <1>3, <2>1 DEF BeginPoll, Park, StopWaiting, Queued, Buffered
<1>4. ASSUME NEW p \in Pollers, TakeBacklog(p)
      PROVE  (\E t \in Tasks : Pool!Return(t)) \/ Same
  <2>1. CASE backlog = <<>>
    BY <1>4, <2>1 DEF TakeBacklog, Queued, Buffered
  <2>2. CASE backlog # <<>>
    <3> DEFINE h == Head(backlog)
    <3>1. /\ backlog' = Tail(backlog) /\ ch' = ch /\ phase' = phase
          /\ returned' = [returned EXCEPT ![h] = @ + 1]
      BY <1>4, <2>2 DEF TakeBacklog
    <3>2. /\ h \in Tasks /\ h \in Queued
          /\ Queued' = Queued \ {h}
      BY <2>2, <3>1, TailElements DEF QueueSound, TypeOK, Conservation, Queued
    <3>3. h \notin Buffered /\ Buffered' = Buffered
      BY <3>1, <3>2 DEF QueueSound, Conservation, Buffered
    <3> HIDE DEF h
    <3>4. Pool!Return(h)
      BY <3>1, <3>2, <3>3 DEF Pool!Return
    <3> QED BY <3>2, <3>4
  <2> QED BY <2>1, <2>2
<1>5. ASSUME NEW p \in Pollers, ch[p] # NoTask,
             ch' = [ch EXCEPT ![p] = NoTask],
             returned' = [returned EXCEPT ![ch[p]] = @ + 1],
             UNCHANGED <<adding, backlog, dropped, phase>>
      PROVE  \E t \in Tasks : Pool!Return(t)
  <2>1. ch[p] \in Buffered /\ Buffered' = Buffered \ {ch[p]}
    BY <1>5, ChannelReturn
  <2>2. ch[p] \in Tasks /\ ch[p] \notin Queued /\ Queued' = Queued
    BY <1>5, <2>1 DEF QueueSound, TypeOK, Conservation, Queued
  <2>3. Pool!Return(ch[p])
    BY <1>5, <2>1, <2>2 DEF Pool!Return
  <2> QED BY <2>2, <2>3
<1>6. ASSUME NEW p \in Pollers, Receive(p) PROVE \E t \in Tasks : Pool!Return(t)
  BY <1>5, <1>6 DEF Receive
<1>7. ASSUME NEW p \in Pollers, Unpark(p)
      PROVE  (\E t \in Tasks : Pool!Return(t)) \/ Same
  <2>1. CASE p \in settled /\ ch[p] # NoTask
    BY <1>5, <1>7, <2>1 DEF Unpark
  <2>2. CASE ~(p \in settled /\ ch[p] # NoTask)
    <3>1. ch' = ch /\ returned' = returned /\ UNCHANGED <<backlog, phase>>
      BY <1>7, <2>2 DEF Unpark, QueueSound, TypeOK
    <3> QED BY <3>1 DEF Queued, Buffered
  <2> QED BY <2>1, <2>2
<1>8. ASSUME BeginClose PROVE Pool!Shut
  BY <1>8 DEF BeginClose, Pool!Shut, Queued, Buffered
<1>9. ASSUME Drain PROVE Pool!Discard
  <2>1. Queued' = {} /\ Buffered' = Buffered /\ returned' = returned
    BY <1>9 DEF Drain, Queued, Buffered, ToSet
  <2>2. phase # "open" /\ phase' # "open"
    BY <1>9 DEF Drain
  <2> QED BY <2>1, <2>2 DEF Pool!Discard
<1>10. CASE UNCHANGED vars
  BY <1>10 DEF vars, Queued, Buffered
<1> QED
  BY <1>1, <1>2, <1>3, <1>4, <1>6, <1>7, <1>8, <1>9, <1>10 DEF Next, Pool!Next

\* The queue implements the abstract task pool, for any number of producers and
\* pollers and any capacity.
THEOREM Implements == Spec => ImplementsPool
<1>1. Init => Pool!Init
  BY DEF Init, Pool!Init, Queued, Buffered, ToSet
<1> QED
  BY InitInv, StepInv, StepPool, <1>1, PTL DEF Spec, ImplementsPool, Pool!Spec

===============================================================================
