-------------------------- MODULE TickGroupProofs --------------------------
(***************************************************************************)
(* TLAPS proofs about TickGroup, for any number of workers, any bounds and *)
(* any set of faults: its properties, and that it implements TickLifecycle.*)
(***************************************************************************)
EXTENDS TickGroup, TLAPS

\* The set of what was delivered is written out wherever it occurs.
USE DEF delivered

\* What one PublishAlert adds to the stream.
LEMMA StoredBound == \A w \in Worker : Stored(w) \subseteq 0 .. Sends /\ Sends \in Nat
BY TickGroupAssumption DEF Stored

\* One alert more allows as many copies more as the client sends.
LEMMA OneMore == \A k \in Nat : Sends * (k + 1) = Sends * k + Sends /\ Sends * k \in Nat
BY TickGroupAssumption

\* More alerts allow more copies.
LEMMA MoreAlerts ==
  ASSUME NEW k \in Nat, NEW n \in Nat, k <= n
  PROVE  Sends * k <= Sends * n
BY TickGroupAssumption

\* Before any container has started nothing is delivered, held or counted.
LEMMA InitIInv == Init => IInv
<1> SUFFICES ASSUME Init PROVE IInv
  OBVIOUS
<1> USE TickGroupAssumption DEF Init, Tick
<1>1. TypeOK
  <2>1. tail \in 0 .. MaxTick /\ trimmed \in 0 .. MaxTick /\ lastDelivered \in 0 .. MaxTick
    OBVIOUS
  <2>8. groupExists \in BOOLEAN
    OBVIOUS
  <2>2. owner \in [Tick -> Worker \cup {NoWorker}]
    OBVIOUS
  <2>3. pc \in [Worker -> Pc] /\ cancelled \subseteq Worker
    BY DEF Pc, Stopped
  <2>4. /\ cursor \in [Worker -> 1 .. MaxTick + 1]
        /\ upto \in [Worker -> 0 .. MaxTick]
        /\ todo \in [Worker -> 0 .. MaxAlert]
    OBVIOUS
  <2>5. runs \in [Tick -> Nat] /\ published \in [Tick -> Nat]
    OBVIOUS
  <2>6. raised \in [Tick -> 0 .. MaxAlert]
    OBVIOUS
  <2>7. QED
    BY <2>1, <2>2, <2>3, <2>4, <2>5, <2>6, <2>8 DEF TypeOK
<1>2. StreamInv
  BY DEF StreamInv
<1>3. BatchInv
  BY DEF BatchInv, BatchOf, Busy, Held
<1>4. HistoryInv
  BY DEF HistoryInv, HistoryOf, Handled, Untouched, Undecoded
<1>5. StrandedOnlyByFault /\ NothingForgotten /\ AlertsAccountedFor
  BY DEF StrandedOnlyByFault, NothingForgotten, AlertsAccountedFor
<1>6. QED
  BY <1>1, <1>2, <1>3, <1>4, <1>5 DEF IInv

\* Every step keeps the types; a batch bounds the cursor, and a delivered entry the tail.
LEMMA TypeStep == TypeOK /\ StreamInv /\ BatchInv /\ [Next]_vars => TypeOK'
<1> SUFFICES ASSUME TypeOK, StreamInv, BatchInv, [Next]_vars
             PROVE  TypeOK'
  OBVIOUS
<1>t. /\ tail \in 0 .. MaxTick /\ trimmed \in 0 .. MaxTick
      /\ lastDelivered \in 0 .. MaxTick
      /\ MaxTick \in Nat /\ MaxAlert \in Nat
  BY TickGroupAssumption DEF TypeOK
<1>o. owner \in [Tick -> Worker \cup {NoWorker}]
  BY DEF TypeOK
<1>p. pc \in [Worker -> Pc]
  BY DEF TypeOK
<1>c. /\ cursor \in [Worker -> 1 .. MaxTick + 1]
      /\ upto \in [Worker -> 0 .. MaxTick]
      /\ todo \in [Worker -> 0 .. MaxAlert]
  BY DEF TypeOK
<1>h. runs \in [Tick -> Nat] /\ published \in [Tick -> Nat]
  BY DEF TypeOK
<1>r. raised \in [Tick -> 0 .. MaxAlert]
  BY DEF TypeOK
<1>b. ASSUME NEW w \in Worker, pc[w] \in Busy PROVE cursor[w] \in Tick
  <2>1. cursor[w] <= upto[w]
    BY <1>b DEF BatchInv, BatchOf
  <2>2. QED
    BY <1>t, <1>c, <2>1 DEF Tick
<1>1. CASE UNCHANGED vars
  BY <1>1 DEF TypeOK, vars, redis, proc, hist
<1>2. CASE Publish
  <2>1. tail' \in 0 .. MaxTick /\ trimmed' \in 0 .. MaxTick
    BY <1>2, <1>t DEF Publish, TrimPoints, StreamInv
  <2>2. QED
    BY <1>2, <2>1 DEF TypeOK, Publish, proc, hist
<1>3. ASSUME NEW w \in Worker, Start(w) PROVE TypeOK'
  BY <1>3 DEF TypeOK, Start, redis, hist, Pc, Stopped
<1>4. ASSUME NEW w \in Worker, CreateGroup(w) PROVE TypeOK'
  <2>1. groupExists' \in BOOLEAN
    BY <1>4 DEF CreateGroup, GroupStart
  <2>2. lastDelivered' \in 0 .. MaxTick /\ pc' \in [Worker -> Pc]
    BY <1>4, <1>t, <1>p DEF CreateGroup, Pc, Stopped, GroupStart
  <2>3. QED
    BY <1>4, <2>1, <2>2 DEF TypeOK, CreateGroup, GroupStart, hist
<1>5. ASSUME NEW w \in Worker, CreateFails(w) PROVE TypeOK'
  BY <1>5 DEF TypeOK, CreateFails, redis, hist, Pc, Stopped
<1>6. ASSUME NEW w \in Worker, Call(w) PROVE TypeOK'
  BY <1>6 DEF TypeOK, Call, AfterError, redis, hist, Pc, Stopped
<1>7. ASSUME NEW w \in Worker, NEW n \in Replies, Take(w, n)
      PROVE  /\ n \in 0 .. MaxTick /\ NextNew \in 1 .. MaxTick + 1
             /\ lastDelivered' \in 0 .. MaxTick
             /\ owner' \in [Tick -> Worker \cup {NoWorker}]
             /\ delivered' \subseteq Tick
  <2>1. n \in 0 .. MaxTick /\ NextNew \in 1 .. MaxTick + 1 /\ NextNew .. n \subseteq Tick
    BY <1>t DEF Replies, NextNew, Tick
  <2>2. delivered' \subseteq Tick
    BY <1>7, <2>1 DEF Take, TypeOK
  <2>3. owner' \in [Tick -> Worker \cup {NoWorker}]
    BY <1>7, <1>o DEF Take
  <2>4. QED
    BY <1>7, <2>1, <2>2, <2>3 DEF Take
<1>8. ASSUME NEW w \in Worker, Receive(w) PROVE TypeOK'
  <2>1. PICK n \in Replies : Take(w, n) /\ upto' = [upto EXCEPT ![w] = n]
    BY <1>8 DEF Receive
  <2>2. upto' \in [Worker -> 0 .. MaxTick]
    BY <2>1, <1>7, <1>c
  <2>3. cursor' \in [Worker -> 1 .. MaxTick + 1]
    BY <1>8, <2>1, <1>7, <1>c DEF Receive
  <2>4. pc' \in [Worker -> Pc]
    BY <1>8, <1>p DEF Receive, Pc
  <2>5. QED
    BY <1>8, <2>1, <1>7, <2>2, <2>3, <2>4 DEF TypeOK, Receive, Take
<1>9. ASSUME NEW w \in Worker, ReplyLost(w) PROVE TypeOK'
  <2>1. PICK n \in Replies : Take(w, n)
    BY <1>9 DEF ReplyLost, AfterError
  <2>2. pc' \in [Worker -> Pc]
    BY <1>9, <1>p DEF ReplyLost, Pc, Stopped, AfterError
  <2>3. QED
    BY <1>9, <2>1, <1>7, <2>2 DEF TypeOK, ReplyLost, Take, AfterError
<1>10. ASSUME NEW w \in Worker, ReceiveNothing(w) PROVE TypeOK'
  BY <1>10 DEF TypeOK, ReceiveNothing, AfterError, redis, hist, Pc, Stopped
<1>11. ASSUME NEW w \in Worker, HandleBad(w) PROVE TypeOK'
  <2>1. cursor[w] \in Tick
    BY <1>11, <1>b DEF HandleBad, Busy, AfterBad
  <2>2. QED
    BY <1>11, <2>1 DEF TypeOK, HandleBad, AfterBad, redis, Pc
<1>12. ASSUME NEW w \in Worker, Handle(w) PROVE TypeOK'
  <2>1. PICK n \in 0 .. MaxAlert :
          /\ raised' = [raised EXCEPT ![cursor[w]] = n]
          /\ todo' = [todo EXCEPT ![w] = n]
          /\ pc' = [pc EXCEPT ![w] = IF n > 0 THEN "publish" ELSE "ack"]
    BY <1>12 DEF Handle
  <2>2. raised' \in [Tick -> 0 .. MaxAlert] /\ todo' \in [Worker -> 0 .. MaxAlert]
    BY <2>1, <1>r, <1>c
  <2>3. runs' \in [Tick -> Nat]
    BY <1>12, <1>b, <1>h DEF Handle, Busy
  <2>4. pc' \in [Worker -> Pc]
    BY <2>1, <1>p DEF Pc
  <2>5. QED
    BY <1>12, <2>2, <2>3, <2>4 DEF TypeOK, Handle, redis
<1>13. ASSUME NEW w \in Worker, PublishAlert(w) PROVE TypeOK'
  <2>1. todo[w] > 0
    BY <1>13 DEF PublishAlert, BatchInv, BatchOf
  <2>2. published' \in [Tick -> Nat]
    BY <1>13, <1>b, <1>h, StoredBound DEF PublishAlert, Busy
  <2>3. todo' \in [Worker -> 0 .. MaxAlert]
    BY <1>13, <2>1, <1>t, <1>c DEF PublishAlert
  <2>4. pc' \in [Worker -> Pc]
    BY <1>13, <1>p DEF PublishAlert, Pc
  <2>5. QED
    BY <1>13, <2>2, <2>3, <2>4 DEF TypeOK, PublishAlert, redis
<1>14. ASSUME NEW w \in Worker, pc[w] = "ack", Advance(w)
       PROVE  /\ cursor[w] \in Tick
              /\ cursor' \in [Worker -> 1 .. MaxTick + 1]
              /\ pc' \in [Worker -> Pc]
  <2>1. cursor[w] \in Tick
    BY <1>14, <1>b DEF Busy
  <2>2. cursor' \in [Worker -> 1 .. MaxTick + 1]
    BY <1>14, <2>1, <1>t, <1>c DEF Advance, Tick, AfterAck
  <2>3. pc' \in [Worker -> Pc]
    BY <1>14, <1>p DEF Advance, Pc, AfterAck
  <2>4. QED
    BY <2>1, <2>2, <2>3
<1>15. ASSUME NEW w \in Worker, Ack(w) PROVE TypeOK'
  <2>1. owner' \in [Tick -> Worker \cup {NoWorker}]
    BY <1>15, <1>o DEF Ack, AckId
  <2>2. acked' \subseteq Tick
    BY <1>15, <1>14 DEF Ack, TypeOK, AckId
  <2>3. QED
    BY <1>15, <1>14, <2>1, <2>2 DEF TypeOK, Ack, Advance, AfterAck, AckId
<1>16. ASSUME NEW w \in Worker, AckFails(w) PROVE TypeOK'
  BY <1>16, <1>14 DEF TypeOK, AckFails, Advance, AfterAck, redis
<1>17. ASSUME NEW w \in Worker, Crash(w) PROVE TypeOK'
  <2>1. pc' \in [Worker -> Pc] /\ faulted' \subseteq Worker
    BY <1>17 DEF TypeOK, Crash, Pc, Stopped, KeepPending
  <2>2. cursor' \in [Worker -> 1 .. MaxTick + 1] /\ upto' \in [Worker -> 0 .. MaxTick]
    BY <1>17, <1>t, <1>c DEF Crash, KeepPending
  <2>3. todo' \in [Worker -> 0 .. MaxAlert]
    BY <1>17, <1>t, <1>c DEF Crash, KeepPending
  <2>4. QED
    BY <1>17, <2>1, <2>2, <2>3 DEF TypeOK, Crash, KeepPending, redis
<1>18. ASSUME NEW w \in Worker, Sigint(w) PROVE TypeOK'
  BY <1>18 DEF TypeOK, Sigint, redis, hist
<1>19. CASE Wipe
  <2>1. trimmed' \in 0 .. MaxTick /\ lastDelivered' \in 0 .. MaxTick
    BY <1>19, <1>t DEF Wipe
  <2>2. groupExists' \in BOOLEAN
    BY <1>19 DEF Wipe
  <2>3. owner' \in [Tick -> Worker \cup {NoWorker}]
    BY <1>19 DEF Wipe
  <2>4. QED
    BY <1>19, <2>1, <2>2, <2>3 DEF TypeOK, Wipe, proc, hist
<1>20. QED
  BY <1>1, <1>2, <1>3, <1>4, <1>5, <1>6, <1>8, <1>9, <1>10, <1>11, <1>12, <1>13,
     <1>15, <1>16, <1>17, <1>18, <1>19 DEF Next, WorkerStep

\* XREADGROUP moves the last-delivered id over what it takes, trimming and a wipe
\* leave what was delivered behind the trim point.
LEMMA StreamStep == TypeOK /\ StreamInv /\ [Next]_vars => StreamInv'
<1> SUFFICES ASSUME TypeOK, StreamInv, [Next]_vars
             PROVE  StreamInv'
  OBVIOUS
<1>t. /\ tail \in Nat /\ trimmed \in Nat /\ lastDelivered \in Nat /\ BatchSize \in Nat
      /\ delivered \subseteq Nat
  BY TickGroupAssumption DEF TypeOK, Tick
<1>1. CASE UNCHANGED <<redis, delivered>>
  BY <1>1 DEF StreamInv, redis
<1>2. CASE Publish
  BY <1>2, <1>t DEF Publish, TrimPoints, StreamInv, hist
<1>3. ASSUME NEW w \in Worker, CreateGroup(w) PROVE StreamInv'
  <2>1. lastDelivered' = lastDelivered /\ groupExists'
    BY <1>3 DEF CreateGroup, StreamInv, GroupStart
  <2>2. QED
    BY <1>3, <2>1 DEF CreateGroup, StreamInv, GroupStart, hist
<1>4. ASSUME NEW w \in Worker, NEW n \in Replies, Take(w, n) PROVE StreamInv'
  <2>1. lastDelivered < n /\ n <= tail
    BY <1>t DEF Replies, NextNew
  <2>2. \A i \in delivered' : i <= n \/ i \in delivered
    BY <1>4, <1>t DEF Take, NextNew, Replies
  <2>3. \A i \in delivered' : i <= tail /\ (i <= trimmed \/ i <= n)
    BY <2>1, <2>2, <1>4, <1>t DEF StreamInv, Take, NextNew, Replies
  <2>4. QED
    BY <1>4, <2>1, <2>3 DEF StreamInv, Take
<1>5. CASE Wipe
  BY <1>5, <1>t DEF Wipe, StreamInv, hist
<1>6. ASSUME NEW w \in Worker, Ack(w) PROVE StreamInv'
  BY <1>6 DEF Ack, StreamInv, AckId
<1>7. QED
  BY <1>1, <1>2, <1>3, <1>4, <1>5, <1>6
  DEF Next, WorkerStep, vars, hist, Start, CreateFails, Call, Receive, ReplyLost,
      ReceiveNothing, HandleBad, Handle, PublishAlert, AckFails, Crash, KeepPending, Sigint

\* Once Redis has lost its data, it has.
LEMMA WipedStays == [Next]_vars => (wiped => wiped')
BY DEF Next, WorkerStep, vars, redis, proc, hist, Publish, Start, CreateGroup, CreateFails,
       Call, Receive, ReplyLost, ReceiveNothing, HandleBad, Handle, PublishAlert, Ack,
       AckFails, Crash, KeepPending, Sigint, Wipe

\* A worker's part of BatchInv survives whatever leaves its own state and the
\* entries it holds alone (a wipe takes the entries out of the pending list).
LEMMA BatchFrame ==
  ASSUME NEW v \in Worker, BatchOf(v),
         pc'[v] = pc[v], cursor'[v] = cursor[v], upto'[v] = upto[v], todo'[v] = todo[v],
         wiped => wiped',
         \A i \in Held(v) :
           /\ i \in delivered' /\ i \notin acked'
           /\ owner'[i] = owner[i] \/ (owner'[i] = NoWorker /\ wiped')
           /\ runs'[i] = runs[i] /\ (i \in bad' <=> i \in bad)
  PROVE  BatchOf(v)'
BY DEF BatchOf, Held, Handled, Untouched, Undecoded

\* What XREADGROUP takes was never handed out before.
LEMMA TakesNew ==
  ASSUME TypeOK, StreamInv, NEW n \in Replies
  PROVE  /\ n \in Tick /\ NextNew \in Tick /\ NextNew <= n /\ n <= tail
         /\ trimmed < NextNew /\ lastDelivered < NextNew
         /\ \A i \in NextNew .. n : i \in Tick /\ i \notin delivered
<1>1. /\ tail \in 0 .. MaxTick /\ trimmed \in 0 .. MaxTick
      /\ lastDelivered \in 0 .. MaxTick
      /\ MaxTick \in Nat /\ BatchSize \in Nat /\ delivered \subseteq Tick
  BY TickGroupAssumption DEF TypeOK
<1>2. /\ n \in Tick /\ NextNew \in Tick /\ NextNew <= n /\ n <= tail
      /\ trimmed < NextNew /\ lastDelivered < NextNew
  BY <1>1 DEF Replies, NextNew, Tick
<1>3. \A i \in NextNew .. n : i \in Tick /\ i \notin delivered
  BY <1>1, <1>2 DEF StreamInv, Tick
<1>4. QED
  BY <1>2, <1>3

\* What XREADGROUP takes is delivered from then on, and counted once.
LEMMA TakesOnce ==
  ASSUME TypeOK, StreamInv, NEW w \in Worker, NEW n \in Replies, Take(w, n)
  PROVE  /\ delivered' = delivered \cup NextNew .. n
         /\ \A i \in Tick : deliveries'[i] > deliveries[i] => i \in NextNew .. n
<1>1. \A i \in NextNew .. n : i \in Tick
  BY TakesNew
<1>2. /\ deliveries \in [Tick -> Nat]
      /\ deliveries' = [i \in Tick |-> IF i \in NextNew .. n THEN deliveries[i] + 1
                                                          ELSE deliveries[i]]
  BY DEF TypeOK, Take
<1>3. QED
  BY <1>1, <1>2

\* Batches stay disjoint, delivered, their worker's own and untouched beyond the cursor.
LEMMA BatchStep ==
  TypeOK /\ StreamInv /\ BatchInv /\ HistoryInv /\ [Next]_vars => BatchInv'
<1> SUFFICES ASSUME TypeOK, StreamInv, BatchInv, HistoryInv, [Next]_vars
             PROVE  BatchInv'
  OBVIOUS
<1>t. /\ pc \in [Worker -> Pc] /\ todo \in [Worker -> 0 .. MaxAlert]
      /\ cursor \in [Worker -> 1 .. MaxTick + 1] /\ upto \in [Worker -> 0 .. MaxTick]
      /\ owner \in [Tick -> Worker \cup {NoWorker}]
      /\ runs \in [Tick -> Nat]
      /\ MaxTick \in Nat /\ MaxAlert \in Nat
  BY TickGroupAssumption DEF TypeOK
<1>h. \A w \in Worker : Held(w) \subseteq Tick
  BY <1>t DEF Held, Tick
<1>b. \A w \in Worker : BatchOf(w)
  BY DEF BatchInv
<1>w. wiped => wiped'
  BY WipedStays
<1>c. ASSUME NEW w \in Worker, pc[w] \in Busy
      PROVE  /\ cursor[w] \in Held(w) /\ cursor[w] \in Tick
             /\ \A v \in Worker \ {w} : cursor[w] \notin Held(v)
  <2>1. cursor[w] \in Held(w)
    BY <1>c, <1>b, <1>t DEF BatchOf, Held
  <2>2. QED
    BY <2>1, <1>h DEF BatchInv
<1>1. CASE UNCHANGED <<owner, pc, cursor, upto, todo, runs, bad, delivered, acked>>
  <2>1. \A w \in Worker : BatchOf(w)'
    BY <1>1, <1>b, <1>w DEF BatchOf, Held, Handled, Untouched, Undecoded
  <2>2. QED
    BY <1>1, <2>1 DEF BatchInv, Held
\* Steps that only move a worker that holds nothing.
<1>2. ASSUME NEW w \in Worker, pc[w] \notin Busy, pc'[w] \notin Busy,
             pc' = [pc EXCEPT ![w] = pc'[w]],
             UNCHANGED <<owner, cursor, upto, todo, runs, bad, delivered, acked>>
      PROVE  BatchInv'
  <2>1. ASSUME NEW v \in Worker PROVE BatchOf(v)'
    BY <1>2, <1>b, <1>w, <1>t DEF BatchOf, Held, Busy, Handled, Untouched, Undecoded
  <2>2. QED
    BY <1>2, <2>1 DEF BatchInv, Held
<1>3. ASSUME NEW w \in Worker, Receive(w) PROVE BatchInv'
  <2>1. PICK n \in Replies : Take(w, n) /\ upto' = [upto EXCEPT ![w] = n]
    BY <1>3 DEF Receive
  <2>2. pc[w] \notin Busy /\ pc' = [pc EXCEPT ![w] = "handle"]
        /\ cursor' = [cursor EXCEPT ![w] = NextNew]
        /\ UNCHANGED <<todo, runs, bad, acked>>
    BY <1>3 DEF Receive, Busy
  <2>3. ASSUME NEW v \in Worker, v # w PROVE BatchOf(v)' /\ Held(v)' = Held(v)
    <3>1. \A i \in Held(v) : i \in Tick /\ i \in delivered /\ i \notin acked
      BY <1>b, <1>h DEF BatchOf
    <3>2. \A i \in Held(v) : i \in delivered' /\ owner'[i] = owner[i]
      BY <3>1, <2>1, TakesNew DEF Take
    <3>3. QED
      BY <3>1, <3>2, <2>1, <2>2, <2>3, <1>b, <1>w, <1>t, BatchFrame DEF Held
  <2>4. Held(w)' = NextNew .. n
    BY <2>1, <2>2, <1>t DEF Held
  <2>5. BatchOf(w)'
    <3>1. /\ pc'[w] = "handle" /\ cursor'[w] = NextNew /\ upto'[w] = n /\ ~(todo'[w] > 0)
      BY <2>1, <2>2, <1>t, <1>b DEF BatchOf, Busy
    <3>2. \A i \in Held(w)' : /\ i \in delivered' /\ i \notin acked' /\ owner'[i] = w
                              /\ Untouched(i)'
      BY <2>1, <2>2, <2>4, TakesNew, TakesOnce DEF Take, HistoryInv, HistoryOf, Untouched
    <3>3. QED
      BY <3>1, <3>2, TakesNew DEF BatchOf, Busy
  <2>6. \A v \in Worker : v # w => Held(v)' \cap Held(w)' = {}
    <3>1. \A v \in Worker : \A i \in Held(v) : i \in delivered
      BY <1>b DEF BatchOf
    <3>2. QED
      BY <3>1, <2>3, <2>4, TakesNew
  <2>7. QED
    BY <2>3, <2>5, <2>6 DEF BatchInv
<1>4. ASSUME NEW w \in Worker, ReplyLost(w) PROVE BatchInv'
  <2>1. PICK n \in Replies : Take(w, n)
    BY <1>4 DEF ReplyLost, AfterError
  <2>2. /\ pc[w] \notin Busy /\ pc'[w] \notin Busy /\ pc[w] # "publish" /\ pc'[w] # "publish"
        /\ \A v \in Worker : v # w => pc'[v] = pc[v]
        /\ UNCHANGED <<cursor, upto, todo, runs, bad, acked>>
    BY <1>4, <1>t DEF ReplyLost, Busy, AfterError
  <2>3. ASSUME NEW v \in Worker, v # w PROVE BatchOf(v)'
    <3>1. \A i \in Held(v) : i \in Tick /\ i \in delivered /\ i \notin acked
      BY <1>b, <1>h DEF BatchOf
    <3>2. \A i \in Held(v) : i \in delivered' /\ owner'[i] = owner[i]
      BY <3>1, <2>1, TakesNew DEF Take
    <3>3. QED
      BY <3>1, <3>2, <2>2, <2>3, <1>b, <1>w, BatchFrame
  <2>4. BatchOf(w)'
    BY <2>2, <1>b, <1>t DEF BatchOf, Held
  <2>5. QED
    BY <2>2, <2>3, <2>4 DEF BatchInv, Held
\* Steps of a worker on the entry at its cursor, which nobody else holds.
<1>5. ASSUME NEW w \in Worker, pc[w] \in Busy,
             \A v \in Worker : v # w =>
               /\ pc'[v] = pc[v] /\ cursor'[v] = cursor[v]
               /\ upto'[v] = upto[v] /\ todo'[v] = todo[v],
             \A i \in Tick : i # cursor[w] =>
               /\ i \in acked' <=> i \in acked
               /\ owner'[i] = owner[i]
               /\ runs'[i] = runs[i] /\ (i \in bad' <=> i \in bad),
             delivered' = delivered, Held(w)' \subseteq Held(w), BatchOf(w)'
      PROVE  BatchInv'
  <2>1. ASSUME NEW v \in Worker, v # w PROVE BatchOf(v)' /\ Held(v)' = Held(v)
    <3>1. \A i \in Held(v) : i \in Tick /\ i # cursor[w] /\ i \in delivered /\ i \notin acked
      BY <1>5, <1>b, <1>c, <1>h, <2>1 DEF BatchOf
    <3>2. QED
      BY <3>1, <1>5, <2>1, <1>b, <1>w, BatchFrame DEF Held
  <2>2. QED
    BY <2>1, <1>5 DEF BatchInv
<1>6. ASSUME NEW w \in Worker, HandleBad(w) PROVE BatchInv'
  <2>1. BatchOf(w)' /\ Held(w)' = Held(w)
    BY <1>6, <1>b, <1>t, <1>c
    DEF HandleBad, BatchOf, Held, Busy, Handled, Untouched, Undecoded, AfterBad, redis
  <2>2. QED
    BY <2>1, <1>5, <1>6, <1>t DEF HandleBad, Busy, AfterBad, redis
<1>7. ASSUME NEW w \in Worker, Handle(w) PROVE BatchInv'
  <2>1. PICK m \in 0 .. MaxAlert :
          /\ todo' = [todo EXCEPT ![w] = m]
          /\ pc' = [pc EXCEPT ![w] = IF m > 0 THEN "publish" ELSE "ack"]
    BY <1>7 DEF Handle
  <2>2. /\ pc[w] = "handle" /\ runs' = [runs EXCEPT ![cursor[w]] = @ + 1]
        /\ UNCHANGED <<owner, cursor, upto, bad, delivered, acked>>
    BY <1>7 DEF Handle, redis
  <2>3. Held(w)' = Held(w) /\ cursor[w] \in Held(w) /\ cursor[w] \in Tick
    BY <2>2, <1>c DEF Held, Busy
  <2>4. \A i \in Held(w) : Untouched(i) /\ i \in Tick
    BY <2>2, <1>b, <1>h DEF BatchOf
  <2>5. Handled(cursor[w])' /\ \A i \in Held(w) : i # cursor[w] => Untouched(i)'
    BY <2>2, <2>3, <2>4, <1>t DEF Handled, Untouched
  <2>6. BatchOf(w)'
    BY <2>1, <2>2, <2>3, <2>5, <1>b, <1>w, <1>t DEF BatchOf, Busy, Held
  <2>7. QED
    BY <2>1, <2>2, <2>3, <2>6, <1>5, <1>t DEF Busy
<1>8. ASSUME NEW w \in Worker, PublishAlert(w) PROVE BatchInv'
  <2>1. /\ pc[w] = "publish" /\ todo' = [todo EXCEPT ![w] = @ - 1]
        /\ pc' = [pc EXCEPT ![w] = IF todo[w] > 1 THEN "publish" ELSE "ack"]
        /\ UNCHANGED <<owner, cursor, upto, runs, bad, delivered, acked>>
    BY <1>8 DEF PublishAlert, redis
  <2>2. BatchOf(w)' /\ Held(w)' = Held(w)
    BY <2>1, <1>b, <1>w, <1>t DEF BatchOf, Held, Busy, Handled, Untouched, Undecoded
  <2>3. QED
    BY <2>1, <2>2, <1>5, <1>t DEF Busy
<1>9. ASSUME NEW w \in Worker, pc[w] = "ack", Advance(w),
             \A i \in Tick : i # cursor[w] =>
               owner'[i] = owner[i] /\ (i \in acked' <=> i \in acked),
             UNCHANGED <<runs, bad, delivered>>
      PROVE  BatchInv'
  <2>1. /\ cursor' = [cursor EXCEPT ![w] = @ + 1]
        /\ pc' = [pc EXCEPT ![w] = IF cursor[w] < upto[w] THEN "handle" ELSE "call"]
        /\ UNCHANGED <<upto, todo>>
    BY <1>9 DEF Advance, AfterAck
  <2>2. Held(w)' = Held(w) \ {cursor[w]}
    BY <2>1, <1>t DEF Held
  <2>3. \A i \in Held(w)' :
          /\ i \in Tick /\ i # cursor[w] /\ i > cursor[w] /\ i \in Held(w)
          /\ Untouched(i)'
    <3>0. \A i \in Held(w) : i # cursor[w] => i > cursor[w]
      BY <1>t DEF Held
    <3>1. \A i \in Held(w)' : i \in Held(w) /\ i > cursor[w] /\ i \in Tick
      BY <2>2, <3>0, <1>h
    <3>2. \A i \in Held(w)' : Untouched(i)
      BY <3>1, <1>b DEF BatchOf
    <3>3. QED
      BY <3>1, <3>2, <1>9, <2>2 DEF Untouched
  <2>4. BatchOf(w)'
    <3>1. pc'[w] \in Busy <=> cursor'[w] <= upto'[w]
      BY <2>1, <1>t DEF Busy
    <3>2. todo'[w] > 0 <=> pc'[w] = "publish"
      BY <2>1, <1>9, <1>b, <1>t DEF BatchOf
    <3>3. pc'[w] # "publish" /\ pc'[w] # "ack"
      BY <2>1, <1>t
    <3>4. QED
      BY <3>1, <3>2, <3>3, <2>3, <1>9, <1>b, <1>w DEF BatchOf
  <2>5. QED
    BY <2>1, <2>2, <2>4, <1>5, <1>9, <1>t DEF Busy
<1>10. ASSUME NEW w \in Worker, Ack(w) PROVE BatchInv'
  BY <1>10, <1>9, <1>t DEF Ack, AckId
<1>11. ASSUME NEW w \in Worker, AckFails(w) PROVE BatchInv'
  BY <1>11, <1>9 DEF AckFails, redis
<1>12. ASSUME NEW w \in Worker, Crash(w) PROVE BatchInv'
  <2>1. /\ pc' = [pc EXCEPT ![w] = "down"] /\ cursor' = [cursor EXCEPT ![w] = 1]
        /\ upto' = [upto EXCEPT ![w] = 0] /\ todo' = [todo EXCEPT ![w] = 0]
        /\ UNCHANGED <<owner, runs, bad, delivered, acked>>
    BY <1>12 DEF Crash, KeepPending, redis
  <2>2. Held(w)' = {} /\ BatchOf(w)'
    BY <2>1, <1>t DEF Held, BatchOf, Busy
  <2>3. ASSUME NEW v \in Worker, v # w PROVE BatchOf(v)' /\ Held(v)' = Held(v)
    <3>1. \A i \in Held(v) : i \in delivered /\ i \notin acked
      BY <1>b DEF BatchOf
    <3>2. QED
      BY <3>1, <2>1, <2>3, <1>b, <1>w, <1>t, BatchFrame DEF Held
  <2>4. QED
    BY <2>2, <2>3 DEF BatchInv
<1>13. CASE Wipe
  <2>1. /\ owner' = [i \in Tick |-> NoWorker] /\ wiped'
        /\ UNCHANGED <<pc, cursor, upto, todo, runs, bad, delivered, acked>>
    BY <1>13 DEF Wipe, proc, hist
  <2>2. ASSUME NEW v \in Worker PROVE BatchOf(v)'
    <3>1. \A i \in Held(v) : i \in Tick /\ i \in delivered /\ i \notin acked
      BY <1>b, <1>h DEF BatchOf
    <3>2. QED
      BY <3>1, <2>1, <1>b, <1>w, BatchFrame
  <2>3. QED
    BY <2>1, <2>2 DEF BatchInv, Held
<1>14. ASSUME NEW w \in Worker,
              \/ Start(w) \/ CreateGroup(w) \/ CreateFails(w) \/ Call(w) \/ ReceiveNothing(w)
       PROVE  BatchInv'
  <2>1. pc[w] \notin Busy /\ pc'[w] \notin Busy /\ pc' = [pc EXCEPT ![w] = pc'[w]]
    BY <1>14, <1>t DEF Start, CreateGroup, CreateFails, Call, ReceiveNothing, Busy,
             GroupStart, AfterError
  <2>2. UNCHANGED <<owner, cursor, upto, todo, runs, bad, delivered, acked>>
    BY <1>14 DEF Start, CreateGroup, CreateFails, Call, ReceiveNothing, GroupStart,
             AfterError, redis, hist
  <2>3. QED
    BY <2>1, <2>2, <1>2
<1>15. CASE Publish \/ UNCHANGED vars \/ \E w \in Worker : Sigint(w)
  BY <1>1, <1>15 DEF Publish, Sigint, vars, redis, proc, hist
<1>16. QED
  BY <1>3, <1>4, <1>6, <1>7, <1>8, <1>10, <1>11, <1>12, <1>13, <1>14, <1>15
  DEF Next, WorkerStep

\* What happened to an entry goes on agreeing with what Redis says of it.
LEMMA HistoryStep ==
  TypeOK /\ StreamInv /\ BatchInv /\ HistoryInv /\ AlertsAccountedFor /\ [Next]_vars
    => HistoryInv'
<1> SUFFICES ASSUME TypeOK, StreamInv, BatchInv, HistoryInv, AlertsAccountedFor, [Next]_vars
             PROVE  HistoryInv'
  OBVIOUS
<1>t. /\ runs \in [Tick -> Nat] /\ published \in [Tick -> Nat]
      /\ raised \in [Tick -> 0 .. MaxAlert]
      /\ owner \in [Tick -> Worker \cup {NoWorker}]
      /\ cursor \in [Worker -> 1 .. MaxTick + 1] /\ upto \in [Worker -> 0 .. MaxTick]
      /\ MaxTick \in Nat /\ MaxAlert \in Nat /\ NoWorker \notin Worker
  BY TickGroupAssumption DEF TypeOK
<1>h. \A i \in Tick : HistoryOf(i)
  BY DEF HistoryInv
<1>c. ASSUME NEW w \in Worker, pc[w] \in Busy
      PROVE  cursor[w] \in Tick /\ cursor[w] \in Held(w) /\ cursor[w] \in delivered
  BY <1>c, <1>t DEF BatchInv, BatchOf, Held, Tick
<1>1. CASE UNCHANGED <<owner, runs, bad, delivered, acked, raised, published>>
  BY <1>1 DEF HistoryInv, HistoryOf, Handled, Untouched, Undecoded
<1>2. ASSUME NEW w \in Worker, NEW n \in Replies, Take(w, n),
             UNCHANGED <<runs, bad, acked, raised, published>>
      PROVE  HistoryInv'
  <2>1. \A i \in Tick : i \in NextNew .. n => i \notin delivered /\ i \in delivered'
    BY <1>2, TakesNew, TakesOnce
  <2>2. \A i \in Tick : i \notin NextNew .. n =>
          owner'[i] = owner[i] /\ (i \in delivered' <=> i \in delivered)
    BY <1>2, TakesOnce DEF Take
  <2>3. QED
    BY <2>1, <2>2, <1>2, <1>h
    DEF HistoryInv, HistoryOf, Handled, Untouched, Undecoded
<1>3. ASSUME NEW w \in Worker, HandleBad(w) PROVE HistoryInv'
  <2>1. Untouched(cursor[w]) /\ cursor[w] \in Tick /\ cursor[w] \in delivered
    BY <1>3, <1>c DEF HandleBad, BatchInv, BatchOf, Busy, AfterBad
  <2>2. /\ bad' = bad \cup {cursor[w]}
        /\ UNCHANGED <<owner, runs, delivered, acked, raised, published>>
    BY <1>3 DEF HandleBad, AfterBad, redis
  <2>3. QED
    BY <2>1, <2>2, <1>h, <1>t
    DEF HistoryInv, HistoryOf, Handled, Untouched, Undecoded
<1>4. ASSUME NEW w \in Worker, Handle(w) PROVE HistoryInv'
  <2>1. Untouched(cursor[w]) /\ cursor[w] \in Tick /\ cursor[w] \in delivered
    BY <1>4, <1>c DEF Handle, BatchInv, BatchOf, Busy
  <2>2. PICK m \in 0 .. MaxAlert : raised' = [raised EXCEPT ![cursor[w]] = m]
    BY <1>4 DEF Handle
  <2>3. /\ runs' = [runs EXCEPT ![cursor[w]] = @ + 1]
        /\ UNCHANGED <<owner, bad, delivered, acked, published>>
    BY <1>4 DEF Handle, redis
  <2>4. published[cursor[w]] = 0 /\ cursor[w] \notin acked
    <3>1. HistoryOf(cursor[w]) /\ ~Handled(cursor[w])
      BY <2>1, <1>h DEF Handled, Untouched
    <3>2. raised[cursor[w]] = 0 /\ cursor[w] \notin acked
      BY <2>1, <3>1, <1>t DEF HistoryOf
    <3>3. Sends * raised[cursor[w]] = 0
      BY <3>2, TickGroupAssumption
    <3>4. QED
      BY <2>1, <3>1, <3>2, <3>3, <1>t DEF HistoryOf
  <2>5. ASSUME NEW i \in Tick, i = cursor[w] PROVE HistoryOf(i)'
    <3>1. /\ runs'[i] = 1 /\ i \notin bad' /\ i \in delivered' /\ i \notin acked'
          /\ raised'[i] = m /\ published'[i] = 0
      BY <2>1, <2>2, <2>3, <2>4, <2>5, <1>t DEF Untouched
    <3>2. published'[i] <= Sends * raised'[i]
      BY <3>1, OneMore
    <3>3. QED
      BY <3>1, <3>2 DEF HistoryOf, Handled, Untouched, Undecoded
  <2>6. ASSUME NEW i \in Tick, i # cursor[w] PROVE HistoryOf(i)'
    <3>1. HistoryOf(i) /\ runs'[i] = runs[i] /\ raised'[i] = raised[i]
      BY <2>2, <2>3, <2>6, <1>h, <1>t
    <3>2. QED
      BY <3>1, <2>3 DEF HistoryOf, Handled, Untouched, Undecoded
  <2>7. QED
    BY <2>5, <2>6 DEF HistoryInv
<1>5. ASSUME NEW w \in Worker, PublishAlert(w) PROVE HistoryInv'
  <2>1. cursor[w] \in Tick /\ pc[w] = "publish"
    BY <1>5, <1>c DEF PublishAlert, Busy
  <2>2. PICK stored \in 0 .. Sends :
          published' = [published EXCEPT ![cursor[w]] = @ + stored]
    BY <1>5, StoredBound DEF PublishAlert
  <2> DEFINE k == raised[cursor[w]] - todo[w]
  <2>3. published[cursor[w]] + stored <= Sends * raised[cursor[w]]
    <3>1. /\ k \in Nat /\ raised[cursor[w]] \in Nat /\ k + 1 <= raised[cursor[w]]
          /\ published[cursor[w]] <= Sends * k
      BY <2>1, <1>t DEF AlertsAccountedFor, TypeOK
    <3>2. Sends * (k + 1) <= Sends * raised[cursor[w]] /\ Sends * raised[cursor[w]] \in Nat
      BY <3>1, MoreAlerts, OneMore
    <3>3. Sends * (k + 1) = Sends * k + Sends /\ Sends * k \in Nat
      BY <3>1, OneMore
    <3>4. QED
      BY <3>1, <3>2, <3>3, <2>1, <1>t, StoredBound
  <2>4. UNCHANGED <<owner, runs, bad, delivered, acked, raised>>
    BY <1>5 DEF PublishAlert, redis
  <2>5. \A i \in Tick : published'[i] <= Sends * raised[i]
    BY <2>1, <2>2, <2>3, <1>h, <1>t DEF HistoryOf
  <2>6. QED
    BY <2>4, <2>5, <1>h DEF HistoryInv, HistoryOf, Handled, Untouched, Undecoded
<1>6. ASSUME NEW w \in Worker, Ack(w) PROVE HistoryInv'
  <2>1. cursor[w] \in Tick /\ ~Untouched(cursor[w]) /\ cursor[w] \in delivered
    BY <1>6, <1>c DEF Ack, BatchInv, BatchOf, Busy, Handled, Untouched, Undecoded, AckId
  <2>2. /\ owner' = [owner EXCEPT ![cursor[w]] = NoWorker]
        /\ acked' = acked \/ acked' = acked \cup {cursor[w]}
        /\ UNCHANGED <<runs, bad, delivered, raised, published>>
    BY <1>6 DEF Ack, AckId
  <2>3. QED
    BY <2>1, <2>2, <1>h, <1>t DEF HistoryInv, HistoryOf, Handled, Untouched, Undecoded
<1>7. CASE Wipe
  BY <1>7, <1>h DEF Wipe, hist, HistoryInv, HistoryOf, Handled, Untouched, Undecoded
<1>8. QED
  BY <1>1, <1>2, <1>3, <1>4, <1>5, <1>6, <1>7
  DEF Next, WorkerStep, vars, redis, proc, hist, Publish, Start, CreateGroup, CreateFails,
      Call, Receive, ReplyLost, ReceiveNothing, AckFails, Crash, KeepPending, Sigint

\* A worker drops an entry that is still pending for it only when a fault hits it.
LEMMA StrandedStep ==
  TypeOK /\ StreamInv /\ BatchInv /\ StrandedOnlyByFault /\ [Next]_vars
    => StrandedOnlyByFault'
<1> SUFFICES ASSUME TypeOK, StreamInv, BatchInv, StrandedOnlyByFault, [Next]_vars
             PROVE  StrandedOnlyByFault'
  OBVIOUS
<1>t. /\ owner \in [Tick -> Worker \cup {NoWorker}]
      /\ cursor \in [Worker -> 1 .. MaxTick + 1] /\ upto \in [Worker -> 0 .. MaxTick]
      /\ MaxTick \in Nat /\ NoWorker \notin Worker
  BY TickGroupAssumption DEF TypeOK
<1>1. CASE UNCHANGED <<owner, cursor, upto, faulted>>
  BY <1>1 DEF StrandedOnlyByFault, Held
<1>2. ASSUME NEW w \in Worker, Receive(w) PROVE StrandedOnlyByFault'
  <2>1. PICK n \in Replies : Take(w, n) /\ upto' = [upto EXCEPT ![w] = n]
    BY <1>2 DEF Receive
  <2>2. pc[w] = "blocked" /\ cursor' = [cursor EXCEPT ![w] = NextNew] /\ faulted' = faulted
    BY <1>2 DEF Receive
  <2>3. Held(w) = {}
    BY <2>2, <1>t DEF BatchInv, BatchOf, Busy, Held
  <2>4. Held(w)' = NextNew .. n /\ \A v \in Worker : v # w => Held(v)' = Held(v)
    BY <2>1, <2>2, <1>t DEF Held
  <2>5. QED
    BY <2>1, <2>2, <2>3, <2>4 DEF StrandedOnlyByFault, Take
<1>3. ASSUME NEW w \in Worker, ReplyLost(w) PROVE StrandedOnlyByFault'
  <2>1. PICK n \in Replies : Take(w, n)
    BY <1>3 DEF ReplyLost, AfterError
  <2>2. faulted' = faulted \cup {w} /\ UNCHANGED <<cursor, upto>>
    BY <1>3 DEF ReplyLost, AfterError
  <2>3. QED
    BY <2>1, <2>2 DEF StrandedOnlyByFault, Take, Held
<1>4. ASSUME NEW w \in Worker, Advance(w)
      PROVE  /\ \A i \in Held(w) : i # cursor[w] => i \in Held(w)'
             /\ \A v \in Worker : v # w => Held(v)' = Held(v)
  BY <1>4, <1>t DEF Advance, Held, AfterAck
<1>5. ASSUME NEW w \in Worker, Ack(w) PROVE StrandedOnlyByFault'
  <2>1. owner' = [owner EXCEPT ![cursor[w]] = NoWorker] /\ faulted' = faulted
    BY <1>5 DEF Ack, AckId
  <2>2. QED
    BY <2>1, <1>4, <1>5, <1>t DEF Ack, StrandedOnlyByFault, AckId
<1>6. ASSUME NEW w \in Worker, AckFails(w) PROVE StrandedOnlyByFault'
  BY <1>4, <1>6 DEF AckFails, redis, StrandedOnlyByFault
<1>7. ASSUME NEW w \in Worker, Crash(w) PROVE StrandedOnlyByFault'
  <2>1. \A v \in Worker : v # w => Held(v)' = Held(v)
    BY <1>7, <1>t DEF Crash, Held, KeepPending
  <2>2. QED
    BY <2>1, <1>7 DEF Crash, KeepPending, redis, StrandedOnlyByFault
<1>8. CASE Wipe
  BY <1>8, <1>t DEF Wipe, StrandedOnlyByFault
<1>9. QED
  BY <1>1, <1>2, <1>3, <1>5, <1>6, <1>7, <1>8
  DEF Next, WorkerStep, vars, redis, proc, hist, Publish, Start, CreateGroup, CreateFails,
      Call, ReceiveNothing, HandleBad, Handle, PublishAlert, Sigint

\* Only an XACK takes an entry out of the pending list, or a wipe.
LEMMA ForgottenStep ==
  TypeOK /\ BatchInv /\ NothingForgotten /\ [Next]_vars => NothingForgotten'
<1> SUFFICES ASSUME TypeOK, BatchInv, NothingForgotten, [Next]_vars, ~wiped'
             PROVE  \A i \in delivered' : i \in acked' \/ owner'[i] # NoWorker
  BY DEF NothingForgotten
<1>t. /\ owner \in [Tick -> Worker \cup {NoWorker}] /\ delivered \subseteq Tick
      /\ cursor \in [Worker -> 1 .. MaxTick + 1] /\ upto \in [Worker -> 0 .. MaxTick]
      /\ MaxTick \in Nat /\ NoWorker \notin Worker
  BY TickGroupAssumption DEF TypeOK
<1>w. ~wiped
  BY WipedStays
<1>1. CASE UNCHANGED <<owner, delivered, acked>>
  BY <1>1, <1>w DEF NothingForgotten
<1>2. ASSUME NEW w \in Worker, NEW n \in Replies, Take(w, n), acked' = acked
      PROVE  \A i \in delivered' : i \in acked' \/ owner'[i] # NoWorker
  <2>1. NextNew .. n \subseteq Tick
    BY TickGroupAssumption DEF TypeOK, Replies, NextNew, Tick
  <2>2. QED
    BY <2>1, <1>2, <1>w, <1>t DEF Take, NothingForgotten
<1>3. ASSUME NEW w \in Worker, Ack(w)
      PROVE  \A i \in delivered' : i \in acked' \/ owner'[i] # NoWorker
  <2>1. cursor[w] \in Held(w) /\ owner[cursor[w]] = w
    BY <1>3, <1>t DEF Ack, BatchInv, BatchOf, Busy, Held, AckId
  <2>2. QED
    BY <2>1, <1>3, <1>w, <1>t DEF Ack, NothingForgotten, AckId
<1>4. QED
  BY <1>1, <1>2, <1>3
  DEF Next, WorkerStep, vars, redis, proc, hist, Publish, Start, CreateGroup, CreateFails,
      Call, Receive, ReplyLost, ReceiveNothing, HandleBad, Handle, PublishAlert, AckFails,
      Crash, KeepPending, Sigint, Wipe

\* What is stored is a copy of the alert just offered, which then is one of those done.
LEMMA AlertsStep ==
  TypeOK /\ BatchInv /\ HistoryInv /\ AlertsAccountedFor /\ [Next]_vars
    => AlertsAccountedFor'
<1> SUFFICES ASSUME TypeOK, BatchInv, HistoryInv, AlertsAccountedFor, [Next]_vars
             PROVE  AlertsAccountedFor'
  OBVIOUS
<1> DEFINE OfTick(i) == published[i] <= Sends * raised[i] /\ (raised[i] > 0 => runs[i] = 1)
           OfWorker(w) == pc[w] = "publish" =>
                            /\ todo[w] \in 1 .. raised[cursor[w]]
                            /\ published[cursor[w]]
                                 <= Sends * (raised[cursor[w]] - todo[w])
<1>t. /\ runs \in [Tick -> Nat] /\ published \in [Tick -> Nat]
      /\ raised \in [Tick -> 0 .. MaxAlert]
      /\ pc \in [Worker -> Pc] /\ todo \in [Worker -> 0 .. MaxAlert]
      /\ cursor \in [Worker -> 1 .. MaxTick + 1] /\ upto \in [Worker -> 0 .. MaxTick]
      /\ MaxTick \in Nat /\ MaxAlert \in Nat
  BY TickGroupAssumption DEF TypeOK
<1>a. /\ \A i \in Tick : OfTick(i)
      /\ \A w \in Worker : OfWorker(w)
  BY DEF AlertsAccountedFor
<1>c. ASSUME NEW w \in Worker, pc[w] \in Busy
      PROVE  /\ cursor[w] \in Tick /\ cursor[w] \in Held(w)
             /\ \A v \in Worker : v # w /\ pc[v] \in Busy => cursor[v] # cursor[w]
  <2>1. ASSUME NEW v \in Worker, pc[v] \in Busy
        PROVE  cursor[v] \in Held(v) /\ cursor[v] \in Tick
    <3>1. cursor[v] <= upto[v]
      BY <2>1 DEF BatchInv, BatchOf
    <3>2. cursor[v] \in 1 .. MaxTick + 1 /\ upto[v] \in 0 .. MaxTick /\ MaxTick \in Nat
      BY <1>t
    <3>3. QED
      BY <3>1, <3>2 DEF Held, Tick
  <2>2. QED
    BY <2>1, <1>c DEF BatchInv
<1>1. CASE UNCHANGED <<pc, cursor, todo, runs, raised, published>>
  BY <1>1 DEF AlertsAccountedFor
\* Steps that bring nobody to "publish".
<1>2. ASSUME NEW w \in Worker, pc'[w] # "publish",
             \A v \in Worker : v # w =>
               pc'[v] = pc[v] /\ cursor'[v] = cursor[v] /\ todo'[v] = todo[v],
             UNCHANGED <<runs, raised, published>>
      PROVE  AlertsAccountedFor'
  <2>1. \A i \in Tick : OfTick(i)'
    BY <1>2, <1>a
  <2>2. \A v \in Worker : OfWorker(v)'
    BY <1>2, <1>a
  <2>3. QED
    BY <2>1, <2>2 DEF AlertsAccountedFor
<1>3. ASSUME NEW w \in Worker, Handle(w) PROVE AlertsAccountedFor'
  <2>1. PICK m \in 0 .. MaxAlert :
          /\ raised' = [raised EXCEPT ![cursor[w]] = m]
          /\ todo' = [todo EXCEPT ![w] = m]
          /\ pc' = [pc EXCEPT ![w] = IF m > 0 THEN "publish" ELSE "ack"]
    BY <1>3 DEF Handle
  <2>2. /\ pc[w] = "handle" /\ runs' = [runs EXCEPT ![cursor[w]] = @ + 1]
        /\ UNCHANGED <<cursor, published>>
    BY <1>3 DEF Handle
  <2>3. /\ cursor[w] \in Tick /\ Untouched(cursor[w])
        /\ \A v \in Worker : v # w /\ pc[v] \in Busy => cursor[v] # cursor[w]
    BY <2>2, <1>c DEF BatchInv, BatchOf, Busy
  <2>4. runs[cursor[w]] = 0 /\ raised[cursor[w]] = 0 /\ published[cursor[w]] = 0
    <3>1. runs[cursor[w]] = 0 /\ raised[cursor[w]] = 0
      BY <2>3, <1>a, <1>t DEF Untouched
    <3>2. Sends * raised[cursor[w]] = 0
      BY <3>1, TickGroupAssumption
    <3>3. QED
      BY <3>1, <3>2, <2>3, <1>a, <1>t
  <2>5. ASSUME NEW i \in Tick PROVE OfTick(i)'
    <3>1. CASE i = cursor[w]
      <4>1. published'[i] = 0 /\ raised'[i] = m /\ runs'[i] = 1 /\ m \in Nat
        BY <3>1, <2>1, <2>2, <2>3, <2>4, <1>t
      <4>2. Sends * m \in Nat
        BY <4>1, OneMore
      <4>3. QED
        BY <4>1, <4>2
    <3>2. CASE i # cursor[w]
      BY <3>2, <2>1, <2>2, <1>a, <1>t
    <3>3. QED
      BY <3>1, <3>2
  <2>6. ASSUME NEW v \in Worker PROVE OfWorker(v)'
    <3>1. CASE v = w
      <4>1. /\ published'[cursor[w]] = 0 /\ raised'[cursor[w]] = m /\ todo'[w] = m
            /\ cursor'[w] = cursor[w] /\ m \in Nat
            /\ pc'[w] = "publish" => m > 0
        BY <2>1, <2>2, <2>3, <2>4, <1>t
      <4>2. Sends * (m - m) = 0
        BY <4>1, TickGroupAssumption
      <4>3. published'[cursor'[w]] <= Sends * (raised'[cursor'[w]] - todo'[w])
        BY <4>1, <4>2
      <4>4. QED
        BY <3>1, <4>1, <4>3
    <3>2. CASE v # w
      <4>1. pc'[v] = pc[v] /\ todo'[v] = todo[v]
        BY <3>2, <2>1, <1>t
      <4>2. pc[v] = "publish" => raised'[cursor[v]] = raised[cursor[v]]
        BY <3>2, <2>1, <2>3, <1>c, <1>t DEF Busy
      <4>3. QED
        BY <4>1, <4>2, <2>2, <1>a
    <3>3. QED
      BY <3>1, <3>2
  <2>7. QED
    BY <2>5, <2>6 DEF AlertsAccountedFor
<1>4. ASSUME NEW w \in Worker, PublishAlert(w) PROVE AlertsAccountedFor'
  <2>1. PICK stored \in 0 .. Sends :
          published' = [published EXCEPT ![cursor[w]] = @ + stored]
    BY <1>4, StoredBound DEF PublishAlert
  <2>2. /\ pc[w] = "publish" /\ todo' = [todo EXCEPT ![w] = @ - 1]
        /\ pc' = [pc EXCEPT ![w] = IF todo[w] > 1 THEN "publish" ELSE "ack"]
        /\ UNCHANGED <<cursor, runs, raised>>
    BY <1>4 DEF PublishAlert
  <2> DEFINE k == raised[cursor[w]] - todo[w]
  <2>3. /\ cursor[w] \in Tick /\ todo[w] \in 1 .. raised[cursor[w]]
        /\ published[cursor[w]] <= Sends * k
        /\ \A v \in Worker : v # w /\ pc[v] \in Busy => cursor[v] # cursor[w]
    BY <2>2, <1>a, <1>c DEF Busy
  <2>b. published[cursor[w]] + stored <= Sends * (k + 1)
        /\ published[cursor[w]] + stored <= Sends * raised[cursor[w]]
    <3>1. k \in Nat /\ raised[cursor[w]] \in Nat /\ k + 1 <= raised[cursor[w]]
      BY <2>3, <1>t
    <3>2. Sends * (k + 1) <= Sends * raised[cursor[w]] /\ Sends * raised[cursor[w]] \in Nat
      BY <3>1, MoreAlerts, OneMore
    <3>3. Sends * (k + 1) = Sends * k + Sends /\ Sends * k \in Nat
      BY <3>1, OneMore
    <3>4. QED
      BY <3>1, <3>2, <3>3, <2>3, <1>t, StoredBound
  <2>4. ASSUME NEW i \in Tick PROVE OfTick(i)'
    <3>1. CASE i = cursor[w]
      <4>1. published'[i] = published[i] + stored
        BY <3>1, <2>1, <1>t
      <4>2. published'[i] <= Sends * raised[i]
        BY <3>1, <4>1, <2>b
      <4>3. QED
        BY <4>2, <2>2, <1>a
    <3>2. CASE i # cursor[w]
      BY <3>2, <2>1, <2>2, <1>a, <1>t
    <3>3. QED
      BY <3>1, <3>2
  <2>5. ASSUME NEW v \in Worker PROVE OfWorker(v)'
    <3>1. CASE v = w
      <4>1. /\ published'[cursor[w]] = published[cursor[w]] + stored
            /\ cursor' = cursor /\ raised' = raised
            /\ todo'[w] = todo[w] - 1
            /\ pc'[w] = "publish" => todo[w] > 1
        BY <2>1, <2>2, <2>3, <1>t
      <4>2. raised[cursor[w]] - (todo[w] - 1) = k + 1
        BY <2>3, <1>t
      <4>3. todo[w] > 1 => todo[w] - 1 \in 1 .. raised[cursor[w]]
        BY <2>3, <1>t
      <4>4. published'[cursor'[w]] <= Sends * (raised'[cursor'[w]] - todo'[w])
        BY <4>1, <4>2, <2>b
      <4>5. QED
        BY <3>1, <4>1, <4>3, <4>4
    <3>2. CASE v # w
      <4>1. pc'[v] = pc[v] /\ todo'[v] = todo[v]
        BY <3>2, <2>2, <1>t
      <4>2. pc[v] = "publish" => published'[cursor[v]] = published[cursor[v]]
        BY <3>2, <2>1, <2>3, <1>c, <1>t DEF Busy
      <4>3. QED
        BY <4>1, <4>2, <2>2, <1>a
    <3>3. QED
      BY <3>1, <3>2
  <2>6. QED
    BY <2>4, <2>5 DEF AlertsAccountedFor
<1>5. ASSUME NEW w \in Worker,
             \/ Start(w) \/ CreateGroup(w) \/ CreateFails(w) \/ Call(w) \/ Receive(w)
             \/ ReplyLost(w) \/ ReceiveNothing(w) \/ HandleBad(w) \/ Crash(w)
      PROVE  AlertsAccountedFor'
  <2>1. pc'[w] # "publish" /\ UNCHANGED <<runs, raised, published>>
    BY <1>5, <1>t DEF Start, CreateGroup, CreateFails, Call, Receive, ReplyLost,
                      ReceiveNothing, HandleBad, Crash, GroupStart, AfterError, AfterBad,
                      KeepPending, hist
  <2>2. \A v \in Worker : v # w =>
          pc'[v] = pc[v] /\ cursor'[v] = cursor[v] /\ todo'[v] = todo[v]
    BY <1>5, <1>t DEF Start, CreateGroup, CreateFails, Call, Receive, ReplyLost,
                      ReceiveNothing, HandleBad, Crash, GroupStart, AfterError, AfterBad,
                      KeepPending
  <2>3. QED
    BY <2>1, <2>2, <1>2
<1>6. ASSUME NEW w \in Worker, Ack(w) \/ AckFails(w) PROVE AlertsAccountedFor'
  <2>1. Advance(w) /\ UNCHANGED <<runs, raised, published>>
    BY <1>6 DEF Ack, AckFails, AckId
  <2>2. pc'[w] # "publish" /\ \A v \in Worker : v # w =>
          pc'[v] = pc[v] /\ cursor'[v] = cursor[v] /\ todo'[v] = todo[v]
    BY <2>1, <1>t DEF Advance, AfterAck
  <2>3. QED
    BY <2>1, <2>2, <1>2
<1>7. QED
  BY <1>1, <1>3, <1>4, <1>5, <1>6
  DEF Next, WorkerStep, vars, proc, hist, Publish, Sigint, Wipe

\* IInv is inductive.
LEMMA StepIInv == IInv /\ [Next]_vars => IInv'
BY TypeStep, StreamStep, BatchStep, HistoryStep, StrandedStep, ForgottenStep, AlertsStep
DEF IInv

(***************************************************************************)
(* The theorems.                                                           *)
(***************************************************************************)

\* Every reachable state satisfies the inductive invariant: the life of each
\* entry in Redis, in the workers' batches and in the detectors agrees.
THEOREM Invariance == Spec => []IInv
BY InitIInv, StepIInv, PTL DEF Spec

\* Type correctness.
THEOREM TypeCorrect == Spec => []TypeOK
BY Invariance, PTL DEF IInv

\* No crash, restart, lost reply, failed acknowledgement or wiped Redis makes the
\* detectors see a tick twice (process(), cmd/detector/main.go:77-98).
THEOREM AtMostOnceHolds == Spec => []AtMostOnce
<1>1. IInv => AtMostOnce
  BY DEF IInv, HistoryInv, HistoryOf, AtMostOnce, Handled, Untouched, Undecoded
<1>2. QED
  BY Invariance, <1>1, PTL

\* No two workers hold the same entry, and none holds one pending for another.
THEOREM OneHolderHolds == Spec => []OneHolder
<1>1. IInv => OneHolder
  BY DEF IInv, BatchInv, BatchOf, OneHolder
<1>2. QED
  BY Invariance, <1>1, PTL

\* The acknowledgement of an entry comes after the detectors are done with it.
THEOREM AckAfterHandledHolds == Spec => []AckAfterHandled
<1>1. IInv => AckAfterHandled
  BY DEF IInv, TypeOK, BatchInv, BatchOf, HistoryInv, HistoryOf, AckAfterHandled,
         Handled, Untouched, Undecoded
<1>2. QED
  BY Invariance, <1>1, PTL

\* Entries are stranded in the pending list by faults only.
THEOREM StrandedOnlyByFaultHolds == Spec => []StrandedOnlyByFault
BY Invariance, PTL DEF IInv

\* While Redis keeps its data, the pending list forgets no entry.
THEOREM NothingForgottenHolds == Spec => []NothingForgotten
BY Invariance, PTL DEF IInv

\* What the stream has of a tick are copies of the alerts that one pass of the detectors
\* raised and the worker is through with, no more of each than the client sends.
THEOREM AlertsAccountedForHolds == Spec => []AlertsAccountedFor
BY Invariance, PTL DEF IInv

\* An XREADGROUP takes only entries newer than all that any took before.
THEOREM DeliveryInOrderHolds == Spec => DeliveryInOrder
<1> DEFINE InOrder == \A i \in Tick : deliveries'[i] > deliveries[i] =>
                                       \A j \in delivered : j < i
<1>1. IInv /\ [Next]_vars => InOrder \/ UNCHANGED vars
  <2> SUFFICES ASSUME IInv, Next PROVE InOrder
    BY DEF vars
  <2>1. ASSUME NEW w \in Worker, NEW n \in Replies, Take(w, n) PROVE InOrder
    <3>1. \A i \in Tick : deliveries'[i] > deliveries[i] => i \in NextNew .. n
      BY <2>1, TakesOnce DEF IInv
    <3>2. /\ NextNew \in Int /\ n \in Int /\ delivered \subseteq Int
          /\ trimmed \in Int /\ lastDelivered \in Int
          /\ trimmed < NextNew /\ lastDelivered < NextNew
      BY TakesNew DEF IInv, TypeOK, Tick
    <3>3. \A j \in delivered : j < NextNew
      BY <3>2 DEF IInv, StreamInv
    <3>4. QED
      BY <3>1, <3>2, <3>3 DEF Tick
  <2>2. CASE UNCHANGED deliveries
    <3>1. \A i \in Tick : deliveries[i] \in Nat
      BY DEF IInv, TypeOK
    <3>2. QED
      BY <2>2, <3>1
  <2>3. QED
    BY <2>1, <2>2
    DEF Next, WorkerStep, hist, Publish, Start, CreateGroup, CreateFails, Call, Receive,
        ReplyLost, ReceiveNothing, HandleBad, Handle, PublishAlert, Ack, AckFails, Crash,
        KeepPending, Sigint, Wipe
<1>2. QED
  BY Invariance, <1>1, PTL DEF Spec, DeliveryInOrder

(***************************************************************************)
(* The detector group implements TickLifecycle: whatever the workers,      *)
(* Redis and the faults do, each tick walks the life cycle.                *)
(***************************************************************************)
\* The six phases, one equation each: what PhaseOf says of an entry.
PhaseFacts(i) ==
  /\ i > tail => PhaseOf(i) = "unpublished"
  /\ i <= tail /\ i \in acked => PhaseOf(i) = "settled"
  /\ i \in delivered /\ i \notin acked /\ (runs[i] > 0 \/ i \in bad)
       => PhaseOf(i) = "handled"
  /\ i \in delivered /\ i \notin acked /\ Untouched(i) => PhaseOf(i) = "claimed"
  /\ i \notin delivered /\ trimmed < i /\ i <= tail => PhaseOf(i) = "queued"
  /\ i \notin delivered /\ i <= trimmed => PhaseOf(i) = "evicted"

\* In every state of the inductive invariant PhaseOf is what the equations say.
LEMMA PhaseCases == IInv => \A i \in Tick : PhaseFacts(i)
<1> SUFFICES ASSUME IInv, NEW i \in Tick PROVE PhaseFacts(i)
  OBVIOUS
<1>1. /\ tail \in Nat /\ trimmed \in Nat /\ trimmed <= tail /\ i \in Nat
      /\ i \in delivered => i <= tail
      /\ runs[i] \in Nat
  BY TickGroupAssumption DEF IInv, TypeOK, StreamInv, Tick
<1>2. i \notin delivered => i \notin acked
  BY DEF IInv, HistoryInv, HistoryOf
<1>3. Untouched(i) => ~(runs[i] > 0 \/ i \in bad)
  BY <1>1 DEF Untouched
<1>4. i > tail => PhaseOf(i) = "unpublished"
  BY <1>1, <1>2 DEF PhaseOf
<1>5. i <= tail /\ i \in acked => PhaseOf(i) = "settled"
  BY <1>1, <1>2 DEF PhaseOf
<1>6. ASSUME i \in delivered, i \notin acked, runs[i] > 0 \/ i \in bad
      PROVE  PhaseOf(i) = "handled"
  <2>1. ~(i > tail) /\ i \in delivered \ acked
    BY <1>1, <1>6
  <2>2. QED
    BY <2>1, <1>6, Zenon DEF PhaseOf
<1>7. ASSUME i \in delivered, i \notin acked, Untouched(i)
      PROVE  PhaseOf(i) = "claimed"
  <2>1. ~(i > tail) /\ i \in delivered \ acked
    BY <1>1, <1>7
  <2>2. QED
    BY <2>1, <1>3, <1>7 DEF PhaseOf
<1>8. i \notin delivered /\ trimmed < i /\ i <= tail => PhaseOf(i) = "queued"
  BY <1>1, <1>2 DEF PhaseOf
<1>9. i \notin delivered /\ i <= trimmed => PhaseOf(i) = "evicted"
  BY <1>1, <1>2 DEF PhaseOf
<1>10. QED
  BY <1>4, <1>5, <1>6, <1>7, <1>8, <1>9 DEF PhaseFacts

\* An entry keeps its phase when nothing that PhaseOf reads changes for it.
LEMMA PhaseFrame ==
  ASSUME NEW i \in Tick,
         (i > tail') <=> (i > tail), (i <= tail') <=> (i <= tail), (i \in acked') <=> (i \in acked),
         (i \in delivered') <=> (i \in delivered), runs'[i] = runs[i],
         (i \in bad') <=> (i \in bad),
         \/ i \in delivered
         \/ (trimmed' < i /\ i <= tail') <=> (trimmed < i /\ i <= tail)
  PROVE  PhaseOf(i)' = PhaseOf(i)
BY DEF PhaseOf

\* At the start every tick is unpublished and unseen.
LEMMA LifecycleInit == Init => Lifecycle!Init
<1> SUFFICES ASSUME Init PROVE Lifecycle!Init
  OBVIOUS
<1>1. \A i \in Tick : PhaseOf(i) = "unpublished"
  BY TickGroupAssumption DEF Init, PhaseOf, Tick
<1>2. runs = [i \in Tick |-> 0]
  BY DEF Init
<1>3. QED
  BY <1>1, <1>2 DEF Lifecycle!Init

\* Every step of TickGroup is a step of the life cycle or changes no phase.
LEMMA LifecycleStep ==
  IInv /\ IInv' /\ [Next]_vars
    => Lifecycle!Next \/ UNCHANGED <<[i \in Tick |-> PhaseOf(i)], runs>>
<1> DEFINE Goal == Lifecycle!Next \/ UNCHANGED <<[i \in Tick |-> PhaseOf(i)], runs>>
<1> SUFFICES ASSUME IInv, IInv', [Next]_vars PROVE Goal
  OBVIOUS
<1>t. /\ tail \in Nat /\ trimmed \in Nat /\ trimmed <= tail /\ MaxTick \in Nat
      /\ delivered \subseteq Tick /\ \A i \in delivered : i <= tail
      /\ cursor \in [Worker -> 1 .. MaxTick + 1] /\ upto \in [Worker -> 0 .. MaxTick]
  BY TickGroupAssumption DEF IInv, TypeOK, StreamInv
<1>r. runs \in [Tick -> Nat] /\ Tick \subseteq Nat
  BY DEF IInv, TypeOK, Tick
<1>p. (\A i \in Tick : PhaseFacts(i)) /\ (\A i \in Tick : PhaseFacts(i)')
  <2>1. (\A i \in Tick : PhaseFacts(i))'
    BY PhaseCases, PTL
  <2>2. QED
    BY <2>1, PhaseCases
<1>s. ASSUME \A i \in Tick : PhaseOf(i)' = PhaseOf(i), runs' = runs PROVE Goal
  BY <1>s
<1>m. ASSUME NEW S \in SUBSET Tick, NEW from, NEW to,
             \A i \in S : PhaseOf(i) = from /\ PhaseOf(i)' = to,
             \A i \in Tick \ S : PhaseOf(i)' = PhaseOf(i)
      PROVE  Lifecycle!Move(S, from, to)
  BY <1>m DEF Lifecycle!Move
<1>1. CASE UNCHANGED <<tail, trimmed, delivered, acked, runs, bad>>
  <2>1. \A i \in Tick : PhaseOf(i)' = PhaseOf(i)
    BY <1>1, PhaseFrame
  <2>2. QED
    BY <2>1, <1>1, <1>s
<1>2. CASE Publish
  <2>1. PICK k \in Tick, E \in SUBSET Tick :
          /\ k = tail + 1
          /\ E = {j \in Tick : trimmed < j /\ j <= trimmed' /\ j \notin delivered}
    <3>1. tail + 1 \in Tick
      BY <1>2, <1>t DEF Publish, Tick
    <3>2. {j \in Tick : trimmed < j /\ j <= trimmed' /\ j \notin delivered} \in SUBSET Tick
      OBVIOUS
    <3>3. QED
      BY <3>1, <3>2
  <2>2. /\ tail' = k /\ trimmed' \in Nat /\ trimmed <= trimmed' /\ trimmed' <= k
        /\ UNCHANGED <<runs, bad, delivered, acked>>
    BY <1>2, <2>1, <1>t, TickGroupAssumption DEF Publish, TrimPoints, hist
  <2>3. PhaseOf(k) = "unpublished" /\ k \notin delivered
    BY <2>1, <1>t, <1>p DEF PhaseFacts
  <2>4. \A j \in E \ {k} : PhaseOf(j) = "queued"
    BY <2>1, <2>2, <1>p, <1>t, <1>r DEF PhaseFacts
  <2>5. \A j \in E : PhaseOf(j)' = "evicted"
    BY <2>1, <2>2, <1>p DEF PhaseFacts
  <2>6. k \notin E => PhaseOf(k)' = "queued"
    <3>1. k \notin E => k \notin delivered' /\ trimmed' < k /\ k <= tail'
      BY <2>1, <2>2, <2>3, <1>t
    <3>2. QED
      BY <3>1, <1>p DEF PhaseFacts
  <2>7. ASSUME NEW j \in Tick, j \notin E, j # k PROVE PhaseOf(j)' = PhaseOf(j)
    <3>1. ((j > tail') <=> (j > tail)) /\ ((j <= tail') <=> (j <= tail))
      BY <2>1, <2>2, <2>7, <1>t, <1>r
    <3>2. \/ j \in delivered
          \/ (trimmed' < j /\ j <= tail') <=> (trimmed < j /\ j <= tail)
      BY <2>1, <2>2, <2>7, <3>1, <1>t, <1>r
    <3>3. QED
      BY <3>1, <3>2, <2>2, PhaseFrame
  <2>8. [j \in Tick |-> PhaseOf(j)]' = [j \in Tick |-> IF j \in E THEN "evicted"
                                          ELSE IF j = k THEN "queued" ELSE PhaseOf(j)]
    BY <2>5, <2>6, <2>7
  <2>9. Lifecycle!Publish
    BY <2>2, <2>3, <2>4, <2>8 DEF Lifecycle!Publish
  <2>10. QED
    BY <2>9 DEF Lifecycle!Next
<1>3. ASSUME NEW w \in Worker, NEW n \in Replies, Take(w, n),
             UNCHANGED <<runs, bad, acked>>
      PROVE  Goal
  <2> DEFINE S == NextNew .. n
  <2>1. /\ \A i \in S : i \in Tick /\ i \notin delivered /\ trimmed < i /\ i <= tail
        /\ S \in SUBSET Tick
    <3>1. /\ \A i \in NextNew .. n : i \in Tick /\ i \notin delivered
          /\ n \in Nat /\ NextNew \in Nat /\ n <= tail /\ trimmed < NextNew
      BY TakesNew, <1>r DEF IInv
    <3>2. \A i \in NextNew .. n : trimmed < i /\ i <= tail
      BY <3>1, <1>t
    <3>3. QED
      BY <3>1, <3>2
  <2>2. /\ delivered' = delivered \cup S
        /\ UNCHANGED <<tail, trimmed, runs, bad, acked>>
    BY <1>3, TakesOnce DEF Take, IInv
  <2> HIDE DEF S
  <2>3. \A i \in S : PhaseOf(i) = "queued"
    BY <2>1, <1>p DEF PhaseFacts
  <2>4. ASSUME NEW i \in S PROVE PhaseOf(i)' = "claimed"
    <3>1. i \in Tick /\ Untouched(i) /\ i \notin acked
      BY <2>1 DEF IInv, HistoryInv, HistoryOf
    <3>2. Untouched(i)' /\ i \in delivered' /\ i \notin acked'
      BY <3>1, <2>2 DEF Untouched
    <3>3. QED
      BY <3>1, <3>2, <1>p DEF PhaseFacts
  <2>5. \A i \in Tick \ S : PhaseOf(i)' = PhaseOf(i)
    BY <2>2, PhaseFrame
  <2>6. Lifecycle!Claim
    BY <2>1, <2>2, <2>3, <2>4, <2>5, <1>m DEF Lifecycle!Claim
  <2>7. QED
    BY <2>6 DEF Lifecycle!Next
<1>4. ASSUME NEW w \in Worker, pc[w] \in Busy
      PROVE  cursor[w] \in Tick /\ cursor[w] \in Held(w) /\ BatchOf(w)
  <2>1. BatchOf(w) /\ cursor[w] <= upto[w]
    BY <1>4 DEF IInv, BatchInv, BatchOf
  <2>2. QED
    BY <2>1, <1>t DEF Held, Tick
<1>5. ASSUME NEW w \in Worker, HandleBad(w) \/ Handle(w) PROVE Goal
  <2> DEFINE i == cursor[w]
  <2>1. i \in Tick /\ i \in delivered /\ i \notin acked /\ Untouched(i)
    BY <1>5, <1>4 DEF HandleBad, Handle, Busy, BatchOf, AfterBad
  <2>2. /\ UNCHANGED <<tail, trimmed, delivered, acked>>
        /\ \/ runs' = runs /\ bad' = bad \cup {i}
           \/ runs' = [runs EXCEPT ![i] = @ + 1] /\ bad' = bad
    BY <1>5 DEF HandleBad, Handle, AfterBad, redis
  <2> HIDE DEF i
  <2>3. PhaseOf(i) = "claimed"
    BY <2>1, <1>p DEF PhaseFacts
  <2>4. ASSUME NEW j \in {i} PROVE PhaseOf(j)' = "handled"
    <3>1. j \in Tick /\ j \in delivered' /\ j \notin acked' /\ (runs'[j] > 0 \/ j \in bad')
      BY <2>1, <2>2, <1>r DEF Untouched
    <3>2. QED
      BY <3>1, <1>p DEF PhaseFacts
  <2>5. \A j \in Tick \ {i} : PhaseOf(j)' = PhaseOf(j)
    <3>1. \A j \in Tick \ {i} : runs'[j] = runs[j] /\ (j \in bad' <=> j \in bad)
      BY <2>2, <1>r
    <3>2. QED
      BY <3>1, <2>2, PhaseFrame
  <2>6. Lifecycle!Move({i}, "claimed", "handled")
    BY <2>1, <2>3, <2>4, <2>5, <1>m
  <2>7. Lifecycle!Handle
    BY <2>1, <2>2, <2>6 DEF Lifecycle!Handle
  <2>8. QED
    BY <2>7 DEF Lifecycle!Next
<1>6. ASSUME NEW w \in Worker, Ack(w) PROVE Goal
  <2> DEFINE i == cursor[w]
  <2>1. i \in Tick /\ i \in delivered /\ i \notin acked /\ (runs[i] > 0 \/ i \in bad)
    BY <1>6, <1>4 DEF Ack, Busy, BatchOf, Handled, Undecoded, AckId
  <2>2. /\ UNCHANGED <<tail, trimmed, delivered, runs, bad>>
        /\ acked' = acked \/ acked' = acked \cup {i}
    BY <1>6 DEF Ack, AckId
  <2>3. CASE acked' = acked
    BY <2>2, <2>3, <1>1
  <2>4. CASE acked' = acked \cup {i}
    <3> HIDE DEF i
    <3>1. PhaseOf(i) = "handled"
      BY <2>1, <1>p DEF PhaseFacts
    <3>2. ASSUME NEW j \in {i} PROVE PhaseOf(j)' = "settled"
      <4>1. j \in Tick /\ j <= tail' /\ j \in acked'
        BY <2>1, <2>2, <2>4, <1>t
      <4>2. QED
        BY <4>1, <1>p DEF PhaseFacts
    <3>3. \A j \in Tick \ {i} : PhaseOf(j)' = PhaseOf(j)
      BY <2>2, <2>4, PhaseFrame
    <3>4. Lifecycle!Move({i}, "handled", "settled")
      BY <2>1, <3>1, <3>2, <3>3, <1>m
    <3>5. Lifecycle!Settle
      BY <2>1, <2>2, <3>4 DEF Lifecycle!Settle
    <3>6. QED
      BY <3>5 DEF Lifecycle!Next
  <2>5. QED
    BY <2>2, <2>3, <2>4
<1>7. CASE Wipe
  <2> DEFINE S == {j \in Tick : j \notin delivered /\ trimmed < j /\ j <= tail}
  <2>1. trimmed' = tail /\ UNCHANGED <<tail, delivered, acked, runs, bad>>
    BY <1>7 DEF Wipe, hist
  <2>2. S \in SUBSET Tick /\ \A i \in S : PhaseOf(i) = "queued"
    BY <1>p DEF PhaseFacts
  <2>3. \A i \in S : PhaseOf(i)' = "evicted"
    BY <2>1, <1>p DEF PhaseFacts
  <2>4. ASSUME NEW i \in Tick \ S PROVE PhaseOf(i)' = PhaseOf(i)
    <3>1. CASE i \in delivered
      BY <3>1, <2>1, PhaseFrame
    <3>2. CASE i \notin delivered
      <4>1. i <= trimmed \/ i > tail
        BY <2>4, <3>2, <1>t, <1>r
      <4>2. QED
        BY <4>1, <2>1, <1>t, <1>r, PhaseFrame
    <3>3. QED
      BY <3>1, <3>2
  <2> HIDE DEF S
  <2>5. Lifecycle!Evict
    BY <2>1, <2>2, <2>3, <2>4, <1>m DEF Lifecycle!Evict
  <2>6. QED
    BY <2>5 DEF Lifecycle!Next
<1>8. QED
  BY <1>1, <1>2, <1>3, <1>5, <1>6, <1>7
  DEF Next, WorkerStep, vars, redis, hist, Start, CreateGroup, CreateFails, Call, Receive,
      ReplyLost, ReceiveNothing, PublishAlert, AckFails, Crash, KeepPending, Sigint

\* The detector group implements the at-most-once life cycle of each tick.
THEOREM LifecycleImplemented == Spec => ImplementsLifecycle
<1>1. Init => Lifecycle!Init
  BY LifecycleInit
<1>2. IInv /\ IInv' /\ [Next]_vars
        => [Lifecycle!Next]_<<[i \in Tick |-> PhaseOf(i)], runs>>
  BY LifecycleStep
<1>3. QED
  BY Invariance, <1>1, <1>2, PTL DEF Spec, ImplementsLifecycle, Lifecycle!Spec
=============================================================================
