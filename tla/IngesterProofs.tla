---------------------------- MODULE IngesterProofs ----------------------------
(***************************************************************************)
(* TLAPS proofs about Ingester, for any number of trades, connections,     *)
(* frames and resends, any capacity of the channel and any set of faults.  *)
(***************************************************************************)
EXTENDS Ingester, SequenceTheorems, TLAPS

(***************************************************************************)
(* The inductive invariant: the order of the pipeline, part by part.  It   *)
(* compares every pair of ticks and not only neighbours, because a tick    *)
(* whose XADD fails leaves the pipeline in the middle.                     *)
(***************************************************************************)
Sorted(seq) == \A i, j \in 1 .. Len(seq) : i < j => seq[i] < seq[j]
Below(s, t) == \A i \in 1 .. Len(s), j \in 1 .. Len(t) : s[i] < t[j]
AllBelow(seq, n) == \A i \in 1 .. Len(seq) : seq[i] < n
AllAbove(seq, n) == \A i \in 1 .. Len(seq) : n < seq[i]
Heard(seq) == \A i \in 1 .. Len(seq) : seq[i] <= heard
Avoids(seq, S) == \A i \in 1 .. Len(seq) : seq[i] \notin S

Lost == dropped \cup refused

\* A tick may stand before another: it is no newer trade, or one of them is no trade.
Before(a, b) == a = 0 \/ b = 0 \/ a <= b
NoneAfter(seq, t) == \A i \in 1 .. Len(seq) : Before(seq[i], t)

\* Whatever frames arrive and whatever is sent again: the stream, the publisher's tick,
\* the channel and the envelope, each with no newer trade before it.
FlowInv ==
  /\ \A i, j \in 1 .. Len(stored) : i < j => Before(stored[i], stored[j])
  /\ \A i, j \in 1 .. Len(ch) : i < j => Before(ch[i], ch[j])
  /\ \A i \in 1 .. Len(stored), j \in 1 .. Len(ch) : Before(stored[i], ch[j])
  /\ Heard(stored) /\ Heard(ch)
  /\ pub = "publish" =>
       /\ NoneAfter(stored, item) /\ item <= heard /\ Before(item, envelope)
       /\ \A j \in 1 .. Len(ch) : Before(item, ch[j])
  /\ NoneAfter(stored, envelope) /\ NoneAfter(ch, envelope) /\ envelope <= heard

\* With nothing but trades: the channel in the order of the exchange, all of it newer than
\* what the stream has, and without anything that was lost.
QueueInv ==
  /\ Sorted(ch) /\ Below(stored, ch)
  /\ Heard(stored) /\ Heard(ch)
  /\ Avoids(stored, dropped) /\ Avoids(ch, Lost)
  /\ \A t \in Lost : t <= heard

\* The tick in the publisher's hand lies between the two.
ItemInv ==
  pub = "publish" =>
    AllBelow(stored, item) /\ AllAbove(ch, item) /\ item <= heard /\ item \notin Lost

\* The trade the reader is about to send is newer than all of them.
EnvelopeInv ==
  sub = "send" =>
    /\ AllBelow(stored, envelope) /\ AllBelow(ch, envelope)
    /\ pub = "publish" => item < envelope
    /\ envelope = heard /\ envelope \notin Lost

IInv ==
  /\ ClosedAfterLastSend /\ FlowInv
  /\ odd = 0 => QueueInv /\ ItemInv /\ EnvelopeInv

(***************************************************************************)
(* Lemmas about sequences of ticks.                                        *)
(***************************************************************************)

\* Appending a tick newer than all others keeps a sequence sorted.
LEMMA AppendTick ==
  ASSUME NEW seq \in Seq(Tick), NEW t \in Tick
  PROVE  /\ Append(seq, t) \in Seq(Tick) /\ Len(Append(seq, t)) = Len(seq) + 1
         /\ \A i \in 1 .. Len(seq) + 1 :
              Append(seq, t)[i] = IF i <= Len(seq) THEN seq[i] ELSE t
BY AppendProperties, LenProperties

\* What the stream looks like after an XADD that was stored n times.
LEMMA StoreCopies ==
  ASSUME stored \in Seq(Tick), item \in Tick, NEW n \in Nat
  PROVE  /\ stored \o Copies(n) \in Seq(Tick)
         /\ Len(stored \o Copies(n)) = Len(stored) + n /\ Len(stored) \in Nat
         /\ \A i \in 1 .. Len(stored) + n :
              (stored \o Copies(n))[i] = IF i <= Len(stored) THEN stored[i] ELSE item
<1>1. /\ Copies(n) \in Seq(Tick) /\ Len(Copies(n)) = n
      /\ \A k \in 1 .. n : Copies(n)[k] = item
  <2>1. Copies(n) \in [1 .. n -> Tick] /\ \A k \in 1 .. n : Copies(n)[k] = item
    BY DEF Copies
  <2>2. Copies(n) \in Seq(Tick)
    BY <2>1, SeqDef
  <2>3. QED
    BY <2>1, <2>2, LenProperties
<1> HIDE DEF Copies
<1>2. /\ stored \o Copies(n) \in Seq(Tick) /\ Len(stored) \in Nat
      /\ Len(stored \o Copies(n)) = Len(stored) + n
      /\ \A i \in 1 .. Len(stored) + n :
           (stored \o Copies(n))[i]
             = IF i <= Len(stored) THEN stored[i] ELSE Copies(n)[i - Len(stored)]
  BY <1>1, ConcatProperties, LenProperties
<1>3. ASSUME NEW i \in 1 .. Len(stored) + n, ~(i <= Len(stored))
      PROVE  i - Len(stored) \in 1 .. n
  BY <1>2, <1>3
<1>4. QED
  BY <1>1, <1>2, <1>3

\* The publish goroutine's step at Redis: the same tick, any number of times.
LEMMA StoresCopies ==
  ASSUME Publish \/ PublishFails
  PROVE  \E n \in Nat : stored' = stored \o Copies(n)
<1>1. Resends \in Nat
  BY IngesterAssumption DEF Resends
<1>2. 1 .. Resends \subseteq Nat /\ 0 .. Resends \subseteq Nat
  BY <1>1
<1>3. QED
  BY <1>2 DEF Publish, PublishFails

\* Two relations on ticks in which sequences are ordered.
Less == {p \in Tick \X Tick : p[1] < p[2]}
NotAfter == {p \in Tick \X Tick : Before(p[1], p[2])}
Ordered(R, seq) == \A i, j \in 1 .. Len(seq) : i < j => <<seq[i], seq[j]>> \in R
Across(R, s, t) == \A i \in 1 .. Len(s), j \in 1 .. Len(t) : <<s[i], t[j]>> \in R

\* Joining two ordered sequences, the first before the second, gives an ordered one.
LEMMA JoinOrdered ==
  ASSUME NEW R, NEW s \in Seq(Tick), NEW t \in Seq(Tick),
         Ordered(R, s), Ordered(R, t), Across(R, s, t)
  PROVE  s \o t \in Seq(Tick) /\ Ordered(R, s \o t)
<1>1. /\ s \o t \in Seq(Tick) /\ Len(s \o t) = Len(s) + Len(t)
      /\ \A i \in 1 .. Len(s) + Len(t) :
           (s \o t)[i] = IF i <= Len(s) THEN s[i] ELSE t[i - Len(s)]
  BY ConcatProperties
<1>2. Len(s) \in Nat /\ Len(t) \in Nat
  BY LenProperties
<1>3. ASSUME NEW i \in 1 .. Len(s) + Len(t), NEW j \in 1 .. Len(s) + Len(t), i < j
      PROVE  <<(s \o t)[i], (s \o t)[j]>> \in R
  <2>1. CASE j <= Len(s)
    <3>1. i \in 1 .. Len(s) /\ j \in 1 .. Len(s)
      BY <1>2, <1>3, <2>1
    <3>2. QED
      BY <1>1, <1>2, <1>3, <2>1, <3>1 DEF Ordered
  <2>2. CASE i <= Len(s) /\ ~(j <= Len(s))
    <3>1. i \in 1 .. Len(s) /\ j - Len(s) \in 1 .. Len(t)
      BY <1>2, <1>3, <2>2
    <3>2. QED
      BY <1>1, <1>2, <2>2, <3>1 DEF Across
  <2>3. CASE ~(i <= Len(s))
    <3>1. /\ i - Len(s) \in 1 .. Len(t) /\ j - Len(s) \in 1 .. Len(t)
          /\ i - Len(s) < j - Len(s) /\ ~(j <= Len(s))
      BY <1>2, <1>3, <2>3
    <3>2. QED
      BY <1>1, <1>2, <2>3, <3>1 DEF Ordered
  <2>4. QED
    BY <2>1, <2>2, <2>3
<1>4. QED
  BY <1>1, <1>3 DEF Ordered

\* What comes after both parts of a joined sequence comes after the whole.
LEMMA JoinAcross ==
  ASSUME NEW R, NEW s \in Seq(Tick), NEW t \in Seq(Tick), NEW u \in Seq(Tick),
         Across(R, s, u), Across(R, t, u)
  PROVE  Across(R, s \o t, u)
<1>1. /\ Len(s \o t) = Len(s) + Len(t)
      /\ \A i \in 1 .. Len(s) + Len(t) :
           (s \o t)[i] = IF i <= Len(s) THEN s[i] ELSE t[i - Len(s)]
  BY ConcatProperties
<1>2. Len(s) \in Nat /\ Len(t) \in Nat
  BY LenProperties
<1>3. ASSUME NEW i \in 1 .. Len(s) + Len(t), NEW j \in 1 .. Len(u)
      PROVE  <<(s \o t)[i], u[j]>> \in R
  <2>1. CASE i <= Len(s)
    BY <1>1, <1>2, <2>1 DEF Across
  <2>2. CASE ~(i <= Len(s))
    <3>1. i - Len(s) \in 1 .. Len(t)
      BY <1>2, <2>2
    <3>2. QED
      BY <1>1, <2>2, <3>1 DEF Across
  <2>3. QED
    BY <2>1, <2>2
<1>4. QED
  BY <1>1, <1>3 DEF Across

\* What precedes both parts precedes the whole.
LEMMA AcrossJoin ==
  ASSUME NEW R, NEW s \in Seq(Tick), NEW t \in Seq(Tick), NEW u \in Seq(Tick),
         Across(R, s, t), Across(R, s, u)
  PROVE  Across(R, s, t \o u)
<1>1. /\ Len(t \o u) = Len(t) + Len(u)
      /\ \A i \in 1 .. Len(t) + Len(u) :
           (t \o u)[i] = IF i <= Len(t) THEN t[i] ELSE u[i - Len(t)]
  BY ConcatProperties
<1>2. Len(t) \in Nat /\ Len(u) \in Nat
  BY LenProperties
<1>3. ASSUME NEW i \in 1 .. Len(s), NEW j \in 1 .. Len(t) + Len(u)
      PROVE  <<s[i], (t \o u)[j]>> \in R
  <2>1. CASE j <= Len(t)
    BY <1>1, <1>2, <2>1 DEF Across
  <2>2. CASE ~(j <= Len(t))
    <3>1. j - Len(t) \in 1 .. Len(u)
      BY <1>2, <2>2
    <3>2. QED
      BY <1>1, <2>2, <3>1 DEF Across
  <2>3. QED
    BY <2>1, <2>2
<1>4. QED
  BY <1>1, <1>3 DEF Across

\* What is in neither part is not in the whole.
LEMMA JoinAvoids ==
  ASSUME NEW S, NEW s \in Seq(Tick), NEW t \in Seq(Tick), Avoids(s, S), Avoids(t, S)
  PROVE  Avoids(s \o t, S)
<1>1. /\ Len(s \o t) = Len(s) + Len(t)
      /\ \A i \in 1 .. Len(s) + Len(t) :
           (s \o t)[i] = IF i <= Len(s) THEN s[i] ELSE t[i - Len(s)]
  BY ConcatProperties
<1>2. Len(s) \in Nat /\ Len(t) \in Nat
  BY LenProperties
<1>3. ASSUME NEW i \in 1 .. Len(s) + Len(t) PROVE (s \o t)[i] \notin S
  <2>1. CASE i <= Len(s)
    BY <1>1, <1>2, <2>1 DEF Avoids
  <2>2. CASE ~(i <= Len(s))
    <3>1. i - Len(s) \in 1 .. Len(t)
      BY <1>2, <2>2
    <3>2. QED
      BY <1>1, <2>2, <3>1 DEF Avoids
  <2>3. QED
    BY <2>1, <2>2
<1>4. QED
  BY <1>1, <1>3 DEF Avoids

(***************************************************************************)
(* The inductive invariant is one.                                         *)
(***************************************************************************)
LEMMA InitIInv == Init => IInv
<1> SUFFICES ASSUME Init PROVE IInv
  OBVIOUS
<1> USE DEF Init
<1>1. TypeOK
  <2>1. /\ MaxTrade \in Nat /\ MaxDial \in Nat /\ MaxOdd \in Nat /\ ChannelSize \in Nat
        /\ MaxBackoff \in Nat /\ MaxBackoff > 0
    BY IngesterAssumption
  <2>2. 0 \in Tick /\ <<>> \in Seq(Tick) /\ Len(<<>>) = 0
    BY <2>1, EmptySeq DEF Tick
  <2>3. QED
    BY <2>1, <2>2 DEF TypeOK
<1>2. Len(ch) = 0 /\ Len(stored) = 0
  OBVIOUS
<1>3. QueueInv
  BY <1>2 DEF QueueInv, Sorted, Below, Heard, Avoids, Lost
<1>4. ClosedAfterLastSend /\ ItemInv /\ EnvelopeInv
  BY <1>1 DEF ClosedAfterLastSend, ItemInv, EnvelopeInv
<1>f. FlowInv
  BY <1>2 DEF FlowInv, Heard, NoneAfter
<1>5. QED
  BY <1>3, <1>4, <1>f DEF IInv

\* Every step keeps the types, the capacity and the cap of the backoff, and the channel is
\* closed by the goroutine that leaves its loop for good.
LEMMA ClosedStep == ClosedAfterLastSend /\ [Next]_vars => ClosedAfterLastSend'
<1> SUFFICES ASSUME TypeOK, closed = "yes" => sub = "done", [Next]_vars
             PROVE  TypeOK' /\ (closed' = "yes" => sub' = "done")
  BY DEF ClosedAfterLastSend
<1>t. /\ MaxTrade \in Nat /\ MaxDial \in Nat /\ MaxOdd \in Nat /\ ChannelSize \in Nat
      /\ MaxBackoff \in Nat /\ MaxBackoff > 0
      /\ traded \in 0 .. MaxTrade /\ arrived \in 0 .. traded /\ heard \in 0 .. arrived
      /\ dials \in 0 .. MaxDial /\ odd \in 0 .. MaxOdd /\ backoff \in 1 .. MaxBackoff
      /\ ch \in Seq(Tick) /\ Len(ch) \in Nat /\ Len(ch) <= ChannelSize /\ stored \in Seq(Tick)
      /\ item \in Tick /\ envelope \in Tick
  BY IngesterAssumption, LenProperties DEF TypeOK, Tick
<1>1. CASE UNCHANGED vars
  BY <1>1 DEF TypeOK, vars
<1>2. CASE Dial
  <2>1. dials' \in 0 .. MaxDial /\ watching' \subseteq 1 .. MaxDial
    BY <1>2, <1>t DEF Dial, TypeOK
  <2>2. envelope' \in Tick
    BY <1>2, <1>t DEF Dial, Tick
  <2>3. QED
    BY <1>2, <1>t, <2>1, <2>2 DEF TypeOK, Dial, publisher
<1>3. CASE DialFails \/ ReadFails
  BY <1>3, <1>t DEF TypeOK, DialFails, ReadFails, LeaveOrWait, Closes, publisher, exchange
<1>4. CASE Trade
  <2>1. traded' \in Tick /\ arrived' \in 0 .. traded' /\ heard' \in 0 .. arrived'
    BY <1>4, <1>t DEF Trade, Tick
  <2>2. QED
    BY <1>4, <2>1 DEF TypeOK, Trade, publisher
<1>5. CASE ReadTrade
  <2>1. heard' \in 0 .. arrived' /\ envelope' \in Tick
    BY <1>5, <1>t DEF ReadTrade, exchange, Tick
  <2>2. QED
    BY <1>5, <2>1 DEF TypeOK, ReadTrade, publisher, exchange
<1>6. CASE OddFrame
  BY <1>6, <1>t DEF TypeOK, OddFrame, publisher
<1>7. CASE Send
  <2>1. ch' \in Seq(Tick) /\ Len(ch') <= ChannelSize
    BY <1>7, <1>t, AppendTick DEF Send, Room, PutLast
  <2>2. dropped' \subseteq Tick
    BY <1>7, <1>t DEF Send, TypeOK
  <2>3. QED
    BY <1>7, <2>1, <2>2 DEF TypeOK, Send, publisher, exchange
<1>8. CASE BackoffOver
  <2>1. backoff' \in 1 .. MaxBackoff
    BY <1>8, <1>t DEF BackoffOver, NextBackoff
  <2>2. QED
    BY <1>8, <2>1 DEF TypeOK, BackoffOver, publisher, exchange
<1>9. CASE BackoffCancelled
  BY <1>9 DEF TypeOK, BackoffCancelled, publisher, exchange
<1>10. ASSUME NEW d \in 1 .. MaxDial, Watch(d)
       PROVE  TypeOK' /\ (closed' = "yes" => sub' = "done")
  BY <1>10 DEF TypeOK, Watch, publisher, exchange
<1>11. CASE Receive
  <2>1. item' \in Tick /\ ch' \in Seq(Tick) /\ Len(ch') <= ChannelSize
    BY <1>11, <1>t, HeadTailProperties DEF Receive
  <2>2. QED
    BY <1>11, <2>1 DEF TypeOK, Receive, subscriber, exchange
<1>12. CASE ReceiveClosed
  BY <1>12 DEF TypeOK, ReceiveClosed, subscriber, exchange
<1>13. CASE Publish \/ PublishFails
  <2>1. stored' \in Seq(Tick)
    BY <1>13, <1>t, StoresCopies, StoreCopies
  <2>2. QED
    BY <1>13, <1>t, <2>1
    DEF TypeOK, Publish, PublishFails, AfterFailure, Abandoned, subscriber, exchange
<1>14. CASE Sigint \/ Drain \/ Stop
  BY <1>14 DEF TypeOK, Sigint, Drain, Stop, subscriber, publisher, exchange
<1>15. QED
  BY <1>1, <1>2, <1>3, <1>4, <1>5, <1>6, <1>7, <1>8, <1>9, <1>10, <1>11, <1>12, <1>13, <1>14
  DEF Next

\* A tick keeps its place from the reader to the stream: the channel is first in first
\* out, there is one reader and one publisher, and what is dropped or refused is out.
LEMMA OrderStep ==
  ASSUME TypeOK, odd = 0, QueueInv, ItemInv, EnvelopeInv, [Next]_vars, odd' = 0
  PROVE  QueueInv' /\ ItemInv' /\ EnvelopeInv'
<1> DEFINE Goal == QueueInv' /\ ItemInv' /\ EnvelopeInv'
<1>t. /\ heard \in Nat /\ arrived \in Nat /\ traded \in Nat /\ arrived <= traded
      /\ heard <= arrived
      /\ ch \in Seq(Tick) /\ Len(ch) \in Nat /\ stored \in Seq(Tick) /\ Len(stored) \in Nat
      /\ item \in Tick /\ envelope \in Tick /\ dropped \subseteq Tick /\ refused \subseteq Tick
      /\ Tick \subseteq Nat
      /\ \A i \in 1 .. Len(ch) : ch[i] \in Tick
      /\ \A i \in 1 .. Len(stored) : stored[i] \in Tick
  <2>1. /\ traded \in Nat /\ arrived \in Nat /\ heard \in Nat
        /\ arrived <= traded /\ heard <= arrived /\ Tick \subseteq Nat
    BY IngesterAssumption DEF TypeOK, Tick
  <2>2. /\ ch \in Seq(Tick) /\ stored \in Seq(Tick)
        /\ item \in Tick /\ envelope \in Tick /\ dropped \subseteq Tick /\ refused \subseteq Tick
    BY DEF TypeOK
  <2>3. QED
    BY <2>1, <2>2, LenProperties, ElementOfSeq
<1>n. /\ \A i \in 1 .. Len(ch) : ch[i] \in Nat
      /\ \A i \in 1 .. Len(stored) : stored[i] \in Nat
      /\ \A t \in Lost : t \in Nat
      /\ item \in Nat
  BY <1>t DEF Lost
<1> USE DEF QueueInv, ItemInv, EnvelopeInv, Sorted, Below, AllBelow, AllAbove, Heard, Avoids,
            Lost
\* Nothing moves: the reader or the publisher stays where it is, or goes away.
<1>1. ASSUME UNCHANGED <<stored, ch, item, envelope, dropped, refused, heard>>,
             pub' = "publish" => pub = "publish", sub' = "send" => sub = "send"
      PROVE  Goal
  BY <1>1
\* A new connection: the trades made without one are passed over.
<1>2. CASE Dial
  <2>1. /\ UNCHANGED <<stored, ch, pub, item, dropped, refused>> /\ sub' = "read"
        /\ heard' = traded
    BY <1>2 DEF Dial, publisher
  <2>2. heard <= heard' /\ heard' \in Nat
    BY <2>1, <1>t
  <2>3. Heard(stored)' /\ Heard(ch)' /\ \A t \in Lost' : t <= heard'
    BY <2>1, <2>2, <1>t, <1>n
  <2>4. item' <= heard' \/ pub' # "publish"
    BY <2>1, <2>2, <1>t
  <2>5. QED
    BY <2>1, <2>3, <2>4
<1>3. CASE ReadTrade
  <2>1. /\ UNCHANGED <<stored, ch, pub, item, dropped, refused>>
        /\ heard' = heard + 1 /\ envelope' = heard + 1
    BY <1>3 DEF ReadTrade, publisher
  <2>2. Heard(stored)' /\ Heard(ch)' /\ \A t \in Lost' : t <= heard'
    BY <2>1, <1>t, <1>n
  <2>3. AllBelow(stored, heard + 1) /\ AllBelow(ch, heard + 1) /\ heard + 1 \notin Lost
    BY <1>t, <1>n
  <2>4. pub = "publish" => item <= heard' /\ item < heard + 1
    BY <2>1, <1>t
  <2>5. QED
    BY <2>1, <2>2, <2>3, <2>4
<1>4. CASE OddFrame
  BY <1>4, <1>t DEF OddFrame
<1>5. CASE Send /\ Room
  <2>1. /\ UNCHANGED <<stored, pub, item, dropped, refused, heard>> /\ sub = "send" /\ sub' = "read"
        /\ ch' = Append(ch, envelope)
    BY <1>5 DEF Send, PutLast, publisher
  <2>2. /\ Len(ch') = Len(ch) + 1
        /\ \A i \in 1 .. Len(ch) + 1 : ch'[i] = IF i <= Len(ch) THEN ch[i] ELSE envelope
    BY <2>1, <1>t, AppendTick
  <2>3. \A i \in 1 .. Len(ch') : i \in 1 .. Len(ch) \/ (i = Len(ch) + 1 /\ ch'[i] = envelope)
    BY <2>2, <1>t
  <2>4. Sorted(ch')
    BY <2>1, <2>2, <2>3, <1>t
  <2>5. Below(stored', ch') /\ Heard(ch)' /\ Avoids(ch, Lost)'
    BY <2>1, <2>2, <2>3, <1>t
  <2>6. ItemInv'
    BY <2>1, <2>2, <2>3, <1>t
  <2>7. QED
    BY <2>1, <2>4, <2>5, <2>6
<1>6. CASE Send /\ ~Room
  <2>1. /\ UNCHANGED <<stored, ch, pub, item, refused, heard>> /\ sub = "send" /\ sub' = "read"
        /\ dropped' = dropped \cup {envelope}
    BY <1>6 DEF Send, publisher
  <2>2. QED
    BY <2>1, <1>t
<1>7. CASE Receive
  <2>1. /\ UNCHANGED <<stored, sub, envelope, dropped, refused, heard>>
        /\ ch # <<>> /\ item' = Head(ch) /\ ch' = Tail(ch)
    BY <1>7 DEF Receive, subscriber, exchange
  <2>2. Len(ch) > 0 /\ item' = ch[1] /\ 1 \in 1 .. Len(ch)
    BY <2>1, <1>t, EmptySeq
  <2>3. Len(ch') = Len(ch) - 1 /\ \A i \in 1 .. Len(ch') : ch'[i] = ch[i + 1] /\ i + 1 \in 2 .. Len(ch)
    BY <2>1, <2>2, <1>t, HeadTailProperties
  <2>4. Sorted(ch')
    <3>1. \A i, j \in 1 .. Len(ch') :
            i < j => i + 1 \in 1 .. Len(ch) /\ j + 1 \in 1 .. Len(ch) /\ i + 1 < j + 1
      BY <2>2, <2>3, <1>t
    <3>2. QED
      BY <2>3, <3>1
  <2>5. Below(stored', ch') /\ Heard(ch)' /\ Avoids(ch, Lost)'
    BY <2>1, <2>3, <1>t
  <2>6. AllAbove(ch', item') /\ AllBelow(stored', item') /\ item' <= heard' /\ item' \notin Lost'
    BY <2>1, <2>2, <2>3, <1>t
  <2>7. EnvelopeInv'
    BY <2>1, <2>2, <2>3, <1>t
  <2>8. QED
    BY <2>1, <2>4, <2>5, <2>6, <2>7
\* The tick is stored, once, more often, or not at all, and the publisher is through with it.
<1>8. CASE Publish \/ PublishFails
  <2>1. /\ UNCHANGED <<ch, sub, envelope, dropped, heard>>
        /\ pub = "publish" /\ pub' # "publish"
        /\ refused \subseteq refused' /\ refused' \subseteq refused \cup {item}
    BY <1>8 DEF Publish, PublishFails, AfterFailure, Abandoned, subscriber, exchange
  <2>2. PICK n \in Nat : stored' = stored \o Copies(n)
    BY <1>8, StoresCopies
  <2>3. \A i \in 1 .. Len(stored') :
          (i \in 1 .. Len(stored) /\ stored'[i] = stored[i]) \/ stored'[i] = item
    <3>1. /\ Len(stored') = Len(stored) + n
          /\ \A i \in 1 .. Len(stored) + n :
               stored'[i] = IF i <= Len(stored) THEN stored[i] ELSE item
      BY <2>2, <1>t, StoreCopies
    <3>2. \A i \in 1 .. Len(stored) + n : i <= Len(stored) => i \in 1 .. Len(stored)
      BY <1>t
    <3>3. QED
      BY <3>1, <3>2
  <2>4. Below(stored', ch') /\ Heard(stored)' /\ Avoids(stored, dropped)'
    BY <2>1, <2>3, <1>t
  <2>5. Sorted(ch') /\ Heard(ch)' /\ Avoids(ch, Lost)' /\ \A t \in Lost' : t <= heard'
    BY <2>1, <1>t, <1>n
  <2>6. EnvelopeInv'
    BY <2>1, <2>3, <1>t
  <2>7. QED
    BY <2>1, <2>4, <2>5, <2>6
<1>9. CASE UNCHANGED vars
  BY <1>1, <1>9 DEF vars
<1>10. CASE DialFails \/ ReadFails \/ Trade \/ BackoffOver \/ BackoffCancelled
  BY <1>1, <1>10
  DEF DialFails, ReadFails, LeaveOrWait, Trade, BackoffOver, BackoffCancelled, publisher
<1>11. ASSUME NEW d \in 1 .. MaxDial, Watch(d) PROVE Goal
  BY <1>1, <1>11 DEF Watch, publisher
<1>12. CASE ReceiveClosed \/ Sigint \/ Drain \/ Stop
  BY <1>1, <1>12 DEF ReceiveClosed, Sigint, Drain, Stop, subscriber, publisher
<1>13. QED
  BY <1>2, <1>3, <1>4, <1>5, <1>6, <1>7, <1>8, <1>9, <1>10, <1>11, <1>12 DEF Next

\* No newer trade overtakes an older one, also when the reader sends an old envelope again
\* and the client an old command.
LEMMA FlowStep ==
  ASSUME TypeOK, FlowInv, [Next]_vars
  PROVE  FlowInv'
<1>t. /\ heard \in Nat /\ arrived \in Nat /\ traded \in Nat /\ arrived <= traded
      /\ heard <= arrived
      /\ ch \in Seq(Tick) /\ Len(ch) \in Nat /\ stored \in Seq(Tick) /\ Len(stored) \in Nat
      /\ item \in Tick /\ envelope \in Tick /\ item \in Nat /\ envelope \in Nat
      /\ \A i \in 1 .. Len(ch) : ch[i] \in Nat
      /\ \A i \in 1 .. Len(stored) : stored[i] \in Nat
  <2>1. /\ traded \in Nat /\ arrived \in Nat /\ heard \in Nat
        /\ arrived <= traded /\ heard <= arrived /\ Tick \subseteq Nat
    BY IngesterAssumption DEF TypeOK, Tick
  <2>2. ch \in Seq(Tick) /\ stored \in Seq(Tick) /\ item \in Tick /\ envelope \in Tick
    BY DEF TypeOK
  <2>3. QED
    BY <2>1, <2>2, LenProperties, ElementOfSeq
<1> USE DEF FlowInv, Before, NoneAfter, Heard
<1>1. ASSUME UNCHANGED <<stored, ch, item, envelope, heard>>, pub' = "publish" => pub = "publish"
      PROVE  FlowInv'
  BY <1>1
<1>2. CASE Dial
  <2>1. UNCHANGED <<stored, ch, pub, item>> /\ envelope' = 0 /\ heard' = traded
    BY <1>2 DEF Dial, publisher
  <2>2. Heard(stored)' /\ Heard(ch)'
    BY <2>1, <1>t
  <2>3. item' <= heard' \/ pub' # "publish"
    BY <2>1, <1>t
  <2>4. QED
    BY <2>1, <2>2, <2>3, <1>t
<1>3. CASE ReadTrade
  <2>1. UNCHANGED <<stored, ch, pub, item>> /\ envelope' = heard + 1 /\ heard' = heard + 1
    BY <1>3 DEF ReadTrade, publisher
  <2>2. Heard(stored)' /\ Heard(ch)' /\ NoneAfter(stored, envelope)' /\ NoneAfter(ch, envelope)'
    BY <2>1, <1>t
  <2>3. pub = "publish" => item <= heard' /\ Before(item, envelope')
    BY <2>1, <1>t
  <2>4. QED
    BY <2>1, <2>2, <2>3, <1>t
<1>4. CASE Send
  <2>1. /\ UNCHANGED <<stored, pub, item, envelope, heard>>
        /\ ch' = Append(ch, envelope) \/ ch' = ch
    BY <1>4 DEF Send, PutLast, publisher
  <2>2. /\ Len(ch') \in Nat
        /\ \A i \in 1 .. Len(ch') :
             (i \in 1 .. Len(ch) /\ ch'[i] = ch[i]) \/ (i > Len(ch) /\ i = Len(ch') /\ ch'[i] = envelope)
    <3>1. CASE ch' = ch
      BY <3>1, <1>t
    <3>2. CASE ch' = Append(ch, envelope)
      <4>1. /\ Len(ch') = Len(ch) + 1
            /\ \A i \in 1 .. Len(ch) + 1 : ch'[i] = IF i <= Len(ch) THEN ch[i] ELSE envelope
        BY <3>2, <1>t, AppendTick
      <4>2. \A i \in 1 .. Len(ch) + 1 :
              \/ i \in 1 .. Len(ch) /\ i <= Len(ch)
              \/ i > Len(ch) /\ i = Len(ch) + 1 /\ ~(i <= Len(ch))
        BY <1>t
      <4>3. QED
        BY <4>1, <4>2, <1>t
    <3>3. QED
      BY <2>1, <3>1, <3>2
  <2>3. \A i, j \in 1 .. Len(ch') : i < j => Before(ch'[i], ch'[j])
    BY <2>2, <1>t
  <2>4. /\ \A i \in 1 .. Len(stored), j \in 1 .. Len(ch') : Before(stored[i], ch'[j])
        /\ Heard(ch)' /\ NoneAfter(ch, envelope)'
        /\ pub = "publish" => \A j \in 1 .. Len(ch') : Before(item, ch'[j])
    <3>1. ASSUME NEW j \in 1 .. Len(ch')
          PROVE  /\ \A i \in 1 .. Len(stored) : Before(stored[i], ch'[j])
                 /\ ch'[j] <= heard' /\ Before(ch'[j], envelope')
                 /\ pub = "publish" => Before(item, ch'[j])
      <4>1. CASE j \in 1 .. Len(ch) /\ ch'[j] = ch[j]
        BY <2>1, <4>1
      <4>2. CASE ch'[j] = envelope
        BY <2>1, <4>2, <1>t
      <4>3. QED
        BY <2>2, <4>1, <4>2
    <3>2. QED
      BY <3>1, <2>1
  <2>5. QED
    BY <2>1, <2>3, <2>4
<1>5. CASE Receive
  <2>1. UNCHANGED <<stored, envelope, heard>> /\ ch # <<>> /\ item' = Head(ch) /\ ch' = Tail(ch)
    BY <1>5 DEF Receive, subscriber, exchange
  <2>2. Len(ch) > 0 /\ item' = ch[1] /\ 1 \in 1 .. Len(ch)
    BY <2>1, <1>t, EmptySeq
  <2>3. /\ Len(ch') = Len(ch) - 1
        /\ \A i \in 1 .. Len(ch') : ch'[i] = ch[i + 1] /\ i + 1 \in 1 .. Len(ch) /\ 1 < i + 1
    BY <2>1, <2>2, <1>t, HeadTailProperties
  <2>4. /\ NoneAfter(stored, item)' /\ item' <= heard' /\ Before(item', envelope')
        /\ \A j \in 1 .. Len(ch') : Before(item', ch'[j])
    BY <2>1, <2>2, <2>3, <1>t
  <2>5. \A i, j \in 1 .. Len(ch') : i < j => Before(ch'[i], ch'[j])
    <3>1. \A i, j \in 1 .. Len(ch') : i < j => i + 1 < j + 1
      BY <2>2, <2>3, <1>t
    <3>2. QED
      BY <2>3, <3>1
  <2>6. QED
    BY <2>1, <2>3, <2>4, <2>5
<1>6. CASE Publish \/ PublishFails
  <2>1. UNCHANGED <<ch, envelope, heard>> /\ pub = "publish" /\ pub' # "publish"
    BY <1>6 DEF Publish, PublishFails, AfterFailure, Abandoned, subscriber, exchange
  <2>2. PICK n \in Nat : stored' = stored \o Copies(n)
    BY <1>6, StoresCopies
  <2>3. \A i \in 1 .. Len(stored') :
          \/ i \in 1 .. Len(stored) /\ stored'[i] = stored[i]
          \/ i > Len(stored) /\ stored'[i] = item
    <3>1. /\ Len(stored') = Len(stored) + n
          /\ \A i \in 1 .. Len(stored) + n :
               stored'[i] = IF i <= Len(stored) THEN stored[i] ELSE item
      BY <2>2, <1>t, StoreCopies
    <3>2. \A i \in 1 .. Len(stored) + n : i \in 1 .. Len(stored) \/ i > Len(stored)
      BY <1>t
    <3>3. \A i \in 1 .. Len(stored) : i <= Len(stored)
      BY <1>t
    <3>4. \A i \in 1 .. Len(stored) + n : i > Len(stored) => ~(i <= Len(stored))
      BY <1>t
    <3>5. QED
      BY <3>1, <3>2, <3>3, <3>4
  <2>4. \A i, j \in 1 .. Len(stored') : i < j => Before(stored'[i], stored'[j])
    BY <2>1, <2>3, <1>t
  <2>5. /\ \A i \in 1 .. Len(stored'), j \in 1 .. Len(ch) : Before(stored'[i], ch[j])
        /\ Heard(stored)' /\ NoneAfter(stored, envelope)'
    BY <2>1, <2>3, <1>t
  <2>6. QED
    BY <2>1, <2>4, <2>5
<1>7. CASE UNCHANGED vars
  BY <1>1, <1>7 DEF vars
<1>8. CASE DialFails \/ ReadFails \/ Trade \/ OddFrame \/ BackoffOver \/ BackoffCancelled
  BY <1>1, <1>8
  DEF DialFails, ReadFails, LeaveOrWait, Trade, OddFrame, BackoffOver, BackoffCancelled, publisher
<1>9. ASSUME NEW d \in 1 .. MaxDial, Watch(d) PROVE FlowInv'
  BY <1>1, <1>9 DEF Watch, publisher
<1>10. CASE ReceiveClosed \/ Sigint \/ Drain \/ Stop
  BY <1>1, <1>10 DEF ReceiveClosed, Sigint, Drain, Stop, subscriber, publisher
<1>11. QED
  BY <1>2, <1>3, <1>4, <1>5, <1>6, <1>7, <1>8, <1>9, <1>10 DEF Next

(***************************************************************************)
(* The theorems.                                                           *)
(***************************************************************************)

\* Frames that are no trade are only counted up.
LEMMA OddGrows == TypeOK /\ [Next]_vars => (odd' = 0 => odd = 0)
BY IngesterAssumption
DEF TypeOK, Next, vars, subscriber, exchange, publisher, Dial, DialFails, Trade, ReadTrade,
    OddFrame, ReadFails, Send, BackoffOver, BackoffCancelled, Watch, Receive, ReceiveClosed,
    Publish, PublishFails, Sigint, Drain, Stop

\* The inductive invariant holds whatever the exchange, the network, Redis and the signal do.
THEOREM Invariance == Spec => []IInv
<1>1. IInv /\ [Next]_vars => IInv'
  BY ClosedStep, FlowStep, OrderStep, OddGrows DEF IInv, ClosedAfterLastSend
<1>2. QED
  BY InitIInv, <1>1, PTL DEF Spec

\* The channel is closed only by a reader that has left its loop: no send follows the
\* close (the deferred close(ch), internal/ingester/binance.go).
THEOREM ClosedAfterLastSendHolds == Spec => []ClosedAfterLastSend
<1>1. IInv => ClosedAfterLastSend
  BY DEF IInv
<1>2. QED
  BY Invariance, <1>1, PTL

\* The stream never gets a trade behind a newer one, whatever frames arrive and whatever the
\* client sends again; and with nothing but trades each is offered to Redis once, never after
\* it was dropped or has failed (Subscribe and the publish goroutine around the channel).
THEOREM InOrderHolds == Spec => []InOrder
<1> DEFINE Ahead == Hand \o ch
<1>t. ASSUME TypeOK
      PROVE  /\ stored \in Seq(Tick) /\ ch \in Seq(Tick) /\ Tick \subseteq Nat
             /\ Hand \in Seq(Tick) /\ Coming \in Seq(Tick)
             /\ Ahead \in Seq(Tick) /\ Underway \in Seq(Tick) /\ Pipeline \in Seq(Tick)
             /\ \A i \in 1 .. Len(Hand) : pub = "publish" /\ i = 1 /\ Hand[i] = item
             /\ \A i \in 1 .. Len(Coming) : sub = "send" /\ i = 1 /\ Coming[i] = envelope
             /\ \A i \in 1 .. Len(stored) : stored[i] \in Tick
             /\ \A i \in 1 .. Len(ch) : ch[i] \in Tick
             /\ item \in Tick /\ envelope \in Tick
  <2>1. /\ stored \in Seq(Tick) /\ ch \in Seq(Tick) /\ item \in Tick /\ envelope \in Tick
        /\ Tick \subseteq Nat
    BY <1>t, IngesterAssumption DEF TypeOK, Tick
  <2>2. /\ Hand \in Seq(Tick) /\ Coming \in Seq(Tick)
        /\ \A i \in 1 .. Len(Hand) : pub = "publish" /\ i = 1 /\ Hand[i] = item
        /\ \A i \in 1 .. Len(Coming) : sub = "send" /\ i = 1 /\ Coming[i] = envelope
    BY <2>1 DEF Hand, Coming
  <2>3. Ahead \in Seq(Tick) /\ Underway \in Seq(Tick) /\ Pipeline \in Seq(Tick)
    BY <2>1, <2>2, ConcatProperties DEF Underway, Pipeline
  <2>4. QED
    BY <2>1, <2>2, <2>3, ElementOfSeq
\* A relation between any two ticks on their way is one between the parts.
<1>j. ASSUME TypeOK, NEW R,
             Ordered(R, ch), Across(R, Hand, ch), Across(R, Hand, Coming), Across(R, ch, Coming)
      PROVE  Ordered(R, Underway)
  <2>1. Ordered(R, Hand) /\ Ordered(R, Coming)
    BY <1>t, <1>j DEF Ordered
  <2>2. Ordered(R, Ahead) /\ Across(R, Ahead, Coming)
    BY <1>t, <1>j, <2>1, JoinOrdered, JoinAcross
  <2> HIDE DEF Ahead
  <2>3. QED
    BY <1>t, <1>j, <2>1, <2>2, JoinOrdered DEF Underway, Ahead
<1>k. ASSUME TypeOK, NEW R,
             Across(R, stored, Hand), Across(R, stored, ch), Across(R, stored, Coming)
      PROVE  Across(R, stored, Underway)
  <2>1. Across(R, stored, Ahead)
    BY <1>t, <1>k, AcrossJoin
  <2> HIDE DEF Ahead
  <2>2. QED
    BY <1>t, <1>k, <2>1, AcrossJoin DEF Underway, Ahead
<1>1. TypeOK /\ FlowInv => NeverBackwards(Pipeline)
  <2> SUFFICES ASSUME TypeOK, FlowInv PROVE NeverBackwards(Pipeline)
    OBVIOUS
  <2>1. /\ Ordered(NotAfter, stored) /\ Ordered(NotAfter, ch)
        /\ Across(NotAfter, stored, ch)
    BY <1>t DEF FlowInv, Ordered, Across, NotAfter
  <2>2. /\ Across(NotAfter, stored, Hand) /\ Across(NotAfter, stored, Coming)
        /\ Across(NotAfter, Hand, ch) /\ Across(NotAfter, Hand, Coming)
        /\ Across(NotAfter, ch, Coming)
    BY <1>t DEF FlowInv, NoneAfter, Across, NotAfter
  <2>3. Ordered(NotAfter, Pipeline)
    BY <1>t, <1>j, <1>k, <2>1, <2>2, JoinOrdered DEF Pipeline
  <2>4. DOMAIN Pipeline = 1 .. Len(Pipeline)
    BY <1>t, LenProperties
  <2>5. ASSUME NEW i \in 1 .. Len(Pipeline), NEW j \in 1 .. Len(Pipeline), i < j
        PROVE  Before(Pipeline[i], Pipeline[j])
    BY <2>3, <2>5 DEF Ordered, NotAfter
  <2>6. QED
    BY <2>4, <2>5 DEF NeverBackwards, Before
<1>2. ASSUME TypeOK, QueueInv, ItemInv, EnvelopeInv
      PROVE  /\ Increasing(Underway)
             /\ Range(stored) \cap Range(Underway) = {}
             /\ Range(Pipeline) \cap dropped = {} /\ Range(Underway) \cap refused = {}
  <2>1. /\ Ordered(Less, ch) /\ Across(Less, stored, ch)
        /\ Across(Less, stored, Hand) /\ Across(Less, Hand, ch)
    BY <1>t, <1>2 DEF QueueInv, ItemInv, Sorted, Below, AllBelow, AllAbove, Ordered, Across, Less
  <2>2. /\ Across(Less, stored, Coming) /\ Across(Less, Hand, Coming)
        /\ Across(Less, ch, Coming)
    BY <1>t, <1>2 DEF EnvelopeInv, AllBelow, Across, Less
  <2>3. Ordered(Less, Underway) /\ Across(Less, stored, Underway)
    BY <1>2, <1>j, <1>k, <2>1, <2>2
  <2>4. Avoids(Underway, Lost)
    <3>1. Avoids(Hand, Lost) /\ Avoids(ch, Lost) /\ Avoids(Coming, Lost)
      BY <1>t, <1>2 DEF Avoids, QueueInv, ItemInv, EnvelopeInv
    <3>2. Avoids(Ahead, Lost)
      BY <1>t, <1>2, <3>1, JoinAvoids
    <3> HIDE DEF Ahead
    <3>3. QED
      BY <1>t, <1>2, <3>1, <3>2, JoinAvoids DEF Underway, Ahead
  <2>5. Avoids(Pipeline, dropped)
    <3>1. Avoids(Underway, dropped) /\ Avoids(stored, dropped)
      BY <1>2, <2>4 DEF Avoids, Lost, QueueInv
    <3>2. QED
      BY <1>t, <1>2, <3>1, JoinAvoids DEF Pipeline
  <2>6. /\ DOMAIN Underway = 1 .. Len(Underway)
        /\ \A x \in Range(Underway) : \E i \in 1 .. Len(Underway) : x = Underway[i]
        /\ \A x \in Range(stored) : \E i \in 1 .. Len(stored) : x = stored[i]
        /\ \A x \in Range(Pipeline) : \E i \in 1 .. Len(Pipeline) : x = Pipeline[i]
    BY <1>t, <1>2, LenProperties, RangeEquality
  <2>7. Increasing(Underway)
    BY <2>3, <2>6 DEF Increasing, Ordered, Less
  <2>8. Range(stored) \cap Range(Underway) = {}
    <3> SUFFICES ASSUME NEW i \in 1 .. Len(stored), NEW j \in 1 .. Len(Underway),
                        stored[i] = Underway[j]
                 PROVE  FALSE
      BY <2>6
    <3>1. stored[i] < Underway[j] /\ stored[i] \in Nat
      BY <1>t, <1>2, <2>3 DEF Across, Less
    <3>2. QED
      BY <3>1
  <2>9. Range(Pipeline) \cap dropped = {} /\ Range(Underway) \cap refused = {}
    BY <2>4, <2>5, <2>6 DEF Avoids, Lost
  <2>10. QED
    BY <2>7, <2>8, <2>9
<1>3. IInv => InOrder
  BY <1>1, <1>2 DEF IInv, ClosedAfterLastSend, InOrder
<1>4. QED
  BY Invariance, <1>3, PTL
=============================================================================
