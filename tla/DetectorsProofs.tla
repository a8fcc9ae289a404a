---------------------------- MODULE DetectorsProofs ----------------------------
(***************************************************************************)
(* TLAPS proofs about RingBuffer and Detectors, for rings of any capacity, *)
(* any symbols, pairs and trades, and any windows, thresholds and          *)
(* intervals.                                                              *)
(***************************************************************************)
EXTENDS Detectors, SequenceTheorems, FiniteSetTheorems, WellFoundedInduction, TLAPS

(***************************************************************************)
(* The inductive invariant.                                                *)
(***************************************************************************)

\* A ring holds the newest of the entries whose numbers are in own.
Tracks(r, own, entry) ==
  /\ Holds(r, Cardinality(own))
  /\ \A i \in own : FromEnd(own, i) <= r.cap => r.entries[Start(r, FromEnd(own, i))] = entry[i]

\* What a tick is in a ring of volumes, and the rings of every symbol.
Entries == [i \in DOMAIN ticks |-> [at |-> ticks[i].at, value |-> ticks[i].volume]]

RingsInv ==
  \A s \in Symbol :
    /\ Tracks(spike[s].short, Own(s, AnySide), Entries)
    /\ Tracks(spike[s].long, Own(s, AnySide), Entries)
    /\ Tracks(flow[s].buys, Own(s, {"buy"}), Entries)
    /\ Tracks(flow[s].sells, Own(s, {"sell"}), Entries)

\* A pair knows the latest prices, has a snapshot since both were first known, and the
\* prices of the last snapshot and what was renewed since; its rings track the moves
\* from each snapshot to the next.
LatestInv(p) ==
  /\ corr[p].latestA = LatestPrice(p[1], Len(ticks))
  /\ corr[p].latestB = LatestPrice(p[2], Len(ticks))

FirstInv(p) ==
  /\ corr[p].snapshotAt = Never <=> taken[p] = <<>>
  /\ taken[p] # <<>> => \E i \in DOMAIN ticks : i = taken[p][1] /\ BothKnown(p, i)
  /\ \A i \in DOMAIN ticks : BothKnown(p, i) => taken[p] # <<>> /\ taken[p][1] <= i

Renewed(s, i) == \E j \in DOMAIN ticks : i < j /\ ticks[j].symbol = s

SnapshotOf(p, i) ==
  /\ corr[p].snapshotA = LatestPrice(p[1], i) /\ corr[p].snapshotB = LatestPrice(p[2], i)
  /\ corr[p].snapshotAt = ticks[i].at
  /\ corr[p].updatedA <=> Renewed(p[1], i)
  /\ corr[p].updatedB <=> Renewed(p[2], i)

SnapshotInv(p) ==
  taken[p] # <<>> => \E i \in DOMAIN ticks : i = taken[p][Len(taken[p])] /\ SnapshotOf(p, i)

Moves(s, snaps) == [k \in 1 .. Len(snaps) - 1 |-> Between(s, snaps[k], snaps[k + 1])]

MovesInv(p) ==
  \A snaps \in {taken[p]} :
    /\ Tracks(corr[p].returnsA, 1 .. Len(snaps) - 1, Moves(p[1], snaps))
    /\ Tracks(corr[p].returnsB, 1 .. Len(snaps) - 1, Moves(p[2], snaps))

ApartInv(p) ==
  \A snaps \in {taken[p]} : \A k \in 1 .. Len(snaps) - 1 : Apart(p, snaps[k], snaps[k + 1])

IInv ==
  /\ TypeOK /\ RingsInv
  /\ \A p \in Pairs : LatestInv(p) /\ FirstInv(p) /\ SnapshotInv(p) /\ MovesInv(p) /\ ApartInv(p)

(***************************************************************************)
(* Lemmas about a ring.  Its k-th newest entry is in slot Start(r, k).     *)
(***************************************************************************)

\* Slots are counted modulo the capacity.
LEMMA Wrap ==
  ASSUME NEW c \in Nat \ {0}, NEW x \in 0 .. 2 * c - 1
  PROVE  x % c = IF x < c THEN x ELSE x - c
OBVIOUS

\* The k-th newest entry is the same one however many entries are read.
LEMMA NthNewest ==
  ASSUME NEW c \in Nat \ {0}, NEW r \in RingOf(c), NEW n \in 1 .. r.count, NEW k \in 1 .. n
  PROVE  /\ Start(r, k) \in 0 .. c - 1
         /\ Recent(r, n)[n + 1 - k] = r.entries[Start(r, k)]
<1>1. r.cap = c /\ r.head \in 0 .. c - 1 /\ r.count \in 0 .. c
  BY DEF RingOf
<1>2. Start(r, k) \in 0 .. c - 1 /\ Start(r, n) \in 0 .. c - 1
  BY <1>1 DEF Start
<1> DEFINE x == Start(r, n) + n - k
<1>3. Recent(r, n)[n + 1 - k] = r.entries[x % c]
  BY <1>1 DEF Recent
<1>4. x \in 0 .. 2 * c - 1
  BY <1>1, <1>2
<1>5. Start(r, k) = IF x < c THEN x ELSE x - c
  BY <1>1 DEF Start
<1> HIDE DEF x
<1>6. QED
  BY <1>2, <1>3, <1>4, <1>5, Wrap

\* A push puts the new entry in front, moves every other entry one further from the end,
\* and loses at most the oldest.
LEMMA PushMoves ==
  ASSUME NEW c \in Nat \ {0}, NEW r \in RingOf(c), NEW at \in Int, NEW value \in Int,
         NEW q, q = Push(r, at, value)
  PROVE  /\ q \in RingOf(c) /\ q.count = IF r.count < c THEN r.count + 1 ELSE c
         /\ q.entries[Start(q, 1)] = [at |-> at, value |-> value]
         /\ \A k \in 1 .. q.count - 1 : q.entries[Start(q, k + 1)] = r.entries[Start(r, k)]
<1>1. r.cap = c /\ r.head \in 0 .. c - 1 /\ r.count \in 0 .. c
  BY DEF RingOf
<1>2. r.entries \in [0 .. c - 1 -> [at : Int, value : Int]]
  BY DEF RingOf
<1>3. (r.head + 1) % c = IF r.head + 1 < c THEN r.head + 1 ELSE r.head + 1 - c
  BY <1>1, Wrap
<1>4. /\ q.cap = c /\ q.head = IF r.head + 1 < c THEN r.head + 1 ELSE 0
      /\ q.count = IF r.count < c THEN r.count + 1 ELSE c
      /\ q.entries = [r.entries EXCEPT ![r.head] = [at |-> at, value |-> value]]
  BY <1>1, <1>3 DEF Push, NextSlot, RingOf
<1>5. q \in RingOf(c)
  <2>1. q = [cap |-> q.cap, entries |-> q.entries, head |-> q.head, count |-> q.count]
    BY DEF Push, RingOf
  <2>2. q.entries \in [0 .. c - 1 -> [at : Int, value : Int]]
    BY <1>1, <1>2, <1>4, SMTT(30)
  <2>3. q.head \in 0 .. c - 1 /\ q.count \in 0 .. c
    BY <1>1, <1>4
  <2>4. QED
    BY <1>4, <2>1, <2>2, <2>3 DEF RingOf
<1>6. Start(q, 1) = r.head
  BY <1>1, <1>4 DEF Start
<1>7. ASSUME NEW k \in 1 .. q.count - 1
      PROVE  q.entries[Start(q, k + 1)] = r.entries[Start(r, k)]
  <2>1. Start(q, k + 1) = Start(r, k) /\ Start(r, k) \in 0 .. c - 1 /\ Start(r, k) # r.head
    BY <1>1, <1>4 DEF Start
  <2>2. QED
    BY <1>2, <1>4, <2>1
<1>8. QED
  BY <1>1, <1>2, <1>4, <1>5, <1>6, <1>7

LEMMA PushType ==
  ASSUME NEW c \in Nat \ {0}, NEW r \in RingOf(c), NEW at \in Int, NEW value \in Int
  PROVE  Push(r, at, value) \in RingOf(c)
BY PushMoves

(***************************************************************************)
(* Lemmas about what was pushed: the k-th newest entry of a ring is the    *)
(* k-th newest of them.                                                    *)
(***************************************************************************)

\* One more thing is the first from the end, and every other is one further from it.
LEMMA CountFromEnd ==
  ASSUME NEW n \in Nat, NEW own \in SUBSET (1 .. n)
  PROVE  /\ Cardinality(own) \in Nat /\ Cardinality(own \cup {n + 1}) = Cardinality(own) + 1
         /\ \A i \in own : FromEnd(own, i) \in 1 .. Cardinality(own)
         /\ FromEnd(own \cup {n + 1}, n + 1) = 1
         /\ \A i \in own : FromEnd(own \cup {n + 1}, i) = FromEnd(own, i) + 1
<1>1. IsFiniteSet(own)
  <2>1. IsFiniteSet(1 .. n)
    BY FS_Interval
  <2>2. QED
    BY <2>1, FS_Subset
<1>2. \A j \in own : j \in Nat /\ j < n + 1
  OBVIOUS
<1>3. ASSUME NEW i \in own
      PROVE  /\ FromEnd(own, i) \in 1 .. Cardinality(own)
             /\ FromEnd(own \cup {n + 1}, i) = FromEnd(own, i) + 1
  <2> DEFINE behind == {j \in own : j >= i}
  <2>1. /\ IsFiniteSet(behind) /\ Cardinality(behind) <= Cardinality(own)
        /\ Cardinality(behind) \in Nat /\ Cardinality(own) \in Nat
    BY <1>1, FS_Subset, FS_CardinalityType
  <2>2. i \in behind
    OBVIOUS
  <2>3. Cardinality(behind) # 0
    BY <2>1, <2>2, FS_EmptySet
  <2>4. {j \in own \cup {n + 1} : j >= i} = behind \cup {n + 1}
    OBVIOUS
  <2>5. Cardinality(behind \cup {n + 1}) = Cardinality(behind) + 1
    <3>1. n + 1 \notin behind
      BY <1>2
    <3>2. QED
      BY <2>1, <3>1, FS_AddElement
  <2>6. QED
    BY <2>1, <2>3, <2>4, <2>5 DEF FromEnd
<1>4. {j \in own \cup {n + 1} : j >= n + 1} = {n + 1}
  <2>1. \A j \in own : ~(j >= n + 1)
    BY <1>2
  <2>2. n + 1 >= n + 1
    OBVIOUS
  <2>3. QED
    BY <2>1, <2>2, Zenon
<1>5. n + 1 \notin own
  BY <1>2
<1>6. QED
  BY <1>1, <1>3, <1>4, <1>5, FS_AddElement, FS_CardinalityType, FS_Singleton DEF FromEnd

\* A ring that tracks them does so when another is pushed.
LEMMA PushTracks ==
  ASSUME NEW c \in Nat \ {0}, NEW r \in RingOf(c), NEW at \in Int, NEW value \in Int,
         NEW q, q = Push(r, at, value),
         NEW n \in Nat, NEW own \in SUBSET (1 .. n), NEW old, NEW new,
         \A i \in own : new[i] = old[i], new[n + 1] = [at |-> at, value |-> value],
         Tracks(r, own, old)
  PROVE  q \in RingOf(c) /\ Tracks(q, own \cup {n + 1}, new)
<1> DEFINE size == Cardinality(own)
           place(i) == FromEnd(own, i)
<1>1. /\ q \in RingOf(c) /\ q.count = IF r.count < c THEN r.count + 1 ELSE c
      /\ q.entries[Start(q, 1)] = [at |-> at, value |-> value]
      /\ \A k \in 1 .. q.count - 1 : q.entries[Start(q, k + 1)] = r.entries[Start(r, k)]
  BY PushMoves
<1>2. r.cap = c /\ q.cap = c /\ r.count \in 0 .. c
  BY <1>1 DEF RingOf
<1>3. /\ size \in Nat /\ Cardinality(own \cup {n + 1}) = size + 1
      /\ \A i \in own : place(i) \in 1 .. size
      /\ FromEnd(own \cup {n + 1}, n + 1) = 1
      /\ \A i \in own : FromEnd(own \cup {n + 1}, i) = place(i) + 1
  BY CountFromEnd
<1>4. /\ r.count = IF size < c THEN size ELSE c
      /\ \A i \in own : place(i) <= c => r.entries[Start(r, place(i))] = old[i]
  BY <1>2 DEF Tracks, Holds
<1> HIDE DEF size, place
<1>5. q.count = IF size + 1 < c THEN size + 1 ELSE c
  BY <1>1, <1>2, <1>3, <1>4
<1>6. ASSUME NEW i \in own, place(i) + 1 <= c
      PROVE  q.entries[Start(q, place(i) + 1)] = new[i]
  <2>1. place(i) \in 1 .. q.count - 1 /\ place(i) <= c
    <3>1. PICK k \in 1 .. size : k = place(i)
      BY <1>3
    <3>2. k + 1 <= c /\ size \in Nat
      BY <1>3, <1>6, <3>1
    <3>3. k \in 1 .. q.count - 1 /\ k <= c
      BY <1>5, <3>2
    <3>4. QED
      BY <3>1, <3>3
  <2>2. QED
    BY <1>1, <1>4, <2>1
<1>7. QED
  BY <1>1, <1>2, <1>3, <1>5, <1>6 DEF Tracks, Holds

(***************************************************************************)
(* Lemmas about a tick and what each detector makes of it, field by field. *)
(***************************************************************************)

\* The rings have a slot at least.
LEMMA Capacities ==
  /\ ShortCap \in Nat \ {0} /\ LongCap \in Nat \ {0}
  /\ FlowCap \in Nat \ {0} /\ ReturnCap \in Nat \ {0}
<1>1. {ShortCap, LongCap, FlowCap, ReturnCap, ShortWindow, LongWindow} \subseteq Nat \ {0}
  BY DetectorsAssumption
<1>2. QED
  BY <1>1, Zenon

\* What Next hands to the detectors is a tick.
TickOf(trade) ==
  [symbol |-> trade.symbol, volume |-> trade.volume, side |-> trade.side,
   price |-> trade.price, at |-> Last + trade.gap]

LEMMA LastType == TypeOK => Last \in Int
<1> SUFFICES ASSUME TypeOK, ticks # <<>> PROVE ticks[Len(ticks)].at \in Int
  BY DEF Last
<1>1. ticks \in Seq(Tick)
  BY DEF TypeOK
<1>2. Len(ticks) \in 1 .. Len(ticks)
  BY <1>1, LenProperties
<1>3. ticks[Len(ticks)] \in Tick
  BY <1>1, <1>2, ElementOfSeq
<1>4. QED
  BY <1>3 DEF Tick

LEMMA TickType == ASSUME TypeOK, NEW trade \in Trade PROVE TickOf(trade) \in Tick
<1>1. trade \in [symbol : Symbol, volume : Nat, side : {"buy", "sell", ""},
                 price : Int \cup {NoPrice}, gap : Int]
  BY DetectorsAssumption
<1>2. Last + trade.gap \in Int
  <2>1. trade.gap \in Int
    BY <1>1
  <2>2. QED
    BY <2>1, LastType
<1>3. QED
  BY <1>1, <1>2 DEF TickOf, Tick, AnySide, Price

\* The volume spike detector pushes the tick into both its rings.
LEMMA SpikeFields ==
  ASSUME NEW s \in SpikeState, NEW t \in Tick, NEW fires,
         NEW q, q = Result(SpikePush(s, t), fires, t).state
  PROVE  /\ q \in SpikeState
         /\ q.short = Push(s.short, t.at, t.volume) /\ q.long = Push(s.long, t.at, t.volume)
<1> DEFINE short == Push(s.short, t.at, t.volume)
           long == Push(s.long, t.at, t.volume)
           first == IF s.firstSeen = Never THEN t.at ELSE s.firstSeen
           pushed == SpikePush(s, t)
<1>1. /\ s = [short |-> s.short, long |-> s.long,
              firstSeen |-> s.firstSeen, lastAlert |-> s.lastAlert]
      /\ s.short \in RingOf(ShortCap) /\ s.long \in RingOf(LongCap)
      /\ s.firstSeen \in Time /\ s.lastAlert \in Time
  BY DEF SpikeState
<1>2. t.at \in Int /\ t.volume \in Int /\ ShortCap \in Nat \ {0} /\ LongCap \in Nat \ {0}
  BY Capacities DEF Tick
<1>3. short \in RingOf(ShortCap) /\ long \in RingOf(LongCap)
  BY <1>1, <1>2, PushType
<1>4. first \in Time /\ t.at \in Time
  BY <1>1, <1>2 DEF Time
<1>5. pushed = [s EXCEPT !.firstSeen = first, !.short = short, !.long = long]
  BY DEF SpikePush
<1> HIDE DEF short, long, first, pushed
<1>6. pushed = [short |-> short, long |-> long, firstSeen |-> first, lastAlert |-> s.lastAlert]
  BY <1>1, <1>5
<1>7. q = [short |-> short, long |-> long, firstSeen |-> first,
           lastAlert |-> IF fires THEN t.at ELSE s.lastAlert]
  BY <1>6 DEF Result, pushed
<1>8. QED
  BY <1>1, <1>3, <1>4, <1>7 DEF SpikeState, short, long

\* The order flow detector pushes it into the ring of its side.
LEMMA FlowFields ==
  ASSUME NEW s \in FlowState, NEW t \in Tick, NEW fires,
         NEW q, q = Result(FlowPush(s, t), fires, t).state
  PROVE  /\ q \in FlowState
         /\ q.buys = IF t.side = "buy" THEN Push(s.buys, t.at, t.volume) ELSE s.buys
         /\ q.sells = IF t.side = "sell" THEN Push(s.sells, t.at, t.volume) ELSE s.sells
<1> DEFINE buys == IF t.side = "buy" THEN Push(s.buys, t.at, t.volume) ELSE s.buys
           sells == IF t.side = "sell" THEN Push(s.sells, t.at, t.volume) ELSE s.sells
           first == IF s.firstSeen = Never THEN t.at ELSE s.firstSeen
           total == s.totalTicks + 1
           pushed == FlowPush(s, t)
<1>1. /\ s = [buys |-> s.buys, sells |-> s.sells, totalTicks |-> s.totalTicks,
              firstSeen |-> s.firstSeen, lastAlert |-> s.lastAlert]
      /\ s.buys \in RingOf(FlowCap) /\ s.sells \in RingOf(FlowCap) /\ s.totalTicks \in Nat
      /\ s.firstSeen \in Time /\ s.lastAlert \in Time
  BY DEF FlowState
<1>2. t.at \in Int /\ t.volume \in Int /\ FlowCap \in Nat \ {0}
  BY Capacities DEF Tick
<1>3. buys \in RingOf(FlowCap) /\ sells \in RingOf(FlowCap) /\ total \in Nat
  <2>1. /\ Push(s.buys, t.at, t.volume) \in RingOf(FlowCap)
        /\ Push(s.sells, t.at, t.volume) \in RingOf(FlowCap)
    BY <1>1, <1>2, PushType
  <2>2. QED
    BY <1>1, <2>1
<1>4. first \in Time /\ t.at \in Time
  BY <1>1, <1>2 DEF Time
<1>5. pushed = [s EXCEPT !.firstSeen = first, !.totalTicks = total, !.buys = buys,
                         !.sells = sells]
  BY DEF FlowPush
<1> HIDE DEF buys, sells, first, total, pushed
<1>6. pushed = [buys |-> buys, sells |-> sells, totalTicks |-> total, firstSeen |-> first,
                lastAlert |-> s.lastAlert]
  BY <1>1, <1>5
<1>7. q = [buys |-> buys, sells |-> sells, totalTicks |-> total, firstSeen |-> first,
           lastAlert |-> IF fires THEN t.at ELSE s.lastAlert]
  BY <1>6 DEF Result, pushed
<1>8. QED
  BY <1>1, <1>3, <1>4, <1>7 DEF FlowState, buys, sells

\* A state of a pair with one field replaced.
LEMMA ReplaceField ==
  ASSUME NEW s \in CorrState
  PROVE  /\ \A x \in RingOf(ReturnCap) : [s EXCEPT !.returnsA = x] \in CorrState
         /\ \A x \in RingOf(ReturnCap) : [s EXCEPT !.returnsB = x] \in CorrState
         /\ \A x \in Price : [s EXCEPT !.snapshotA = x] \in CorrState
         /\ \A x \in Price : [s EXCEPT !.snapshotB = x] \in CorrState
         /\ \A x \in Time : [s EXCEPT !.snapshotAt = x] \in CorrState
         /\ \A x \in Price : [s EXCEPT !.latestA = x] \in CorrState
         /\ \A x \in Price : [s EXCEPT !.latestB = x] \in CorrState
         /\ \A x \in BOOLEAN : [s EXCEPT !.updatedA = x] \in CorrState
         /\ \A x \in BOOLEAN : [s EXCEPT !.updatedB = x] \in CorrState
         /\ \A x \in Time : [s EXCEPT !.firstSeen = x] \in CorrState
         /\ \A x \in Time : [s EXCEPT !.lastAlert = x] \in CorrState
BY DEF CorrState

\* The fields after a snapshot.
LEMMA SnapshotFields ==
  ASSUME NEW s \in CorrState, NEW t, t.at \in Time, NEW q, q = Snapshot(s, t)
  PROVE  /\ q \in CorrState
         /\ q.snapshotA = s.latestA /\ q.snapshotB = s.latestB /\ q.snapshotAt = t.at
         /\ q.updatedA = FALSE /\ q.updatedB = FALSE
         /\ q.latestA = s.latestA /\ q.latestB = s.latestB
         /\ q.returnsA = s.returnsA /\ q.returnsB = s.returnsB
<1> DEFINE a == [s EXCEPT !.snapshotA = s.latestA]
           b == [a EXCEPT !.snapshotB = s.latestB]
           c == [b EXCEPT !.snapshotAt = t.at]
           d == [c EXCEPT !.updatedA = FALSE]
           e == [d EXCEPT !.updatedB = FALSE]
<1>1. q = e
  BY DEF Snapshot
<1>2. e \in CorrState
  <2>1. s.latestA \in Price /\ s.latestB \in Price
    BY DEF CorrState
  <2> HIDE DEF a, b, c, d, e
  <2>2. a \in CorrState
    BY <2>1, ReplaceField DEF a
  <2>3. b \in CorrState
    BY <2>1, <2>2, ReplaceField DEF b
  <2>4. c \in CorrState
    BY <2>3, ReplaceField DEF c
  <2>5. d \in CorrState
    BY <2>4, ReplaceField DEF d
  <2>6. QED
    BY <2>5, ReplaceField DEF e
<1> HIDE DEF e
<1>3. q \in CorrState
  BY <1>1, <1>2
<1>4. QED
  BY <1>3 DEF Snapshot, CorrState

\* The fields after the price of a tick was noted.
LEMMA UpdateFields ==
  ASSUME NEW p \in Pairs, NEW t \in Tick, Concerns(p, t), NEW s \in CorrState,
         NEW u, u = CorrUpdate(s, p, t)
  PROVE  /\ u \in CorrState
         /\ u.latestA = IF t.symbol = p[1] THEN t.price ELSE s.latestA
         /\ u.latestB = IF t.symbol = p[2] THEN t.price ELSE s.latestB
         /\ u.updatedA <=> s.updatedA \/ t.symbol = p[1]
         /\ u.updatedB <=> s.updatedB \/ t.symbol = p[2]
         /\ u.snapshotA = s.snapshotA /\ u.snapshotB = s.snapshotB
         /\ u.snapshotAt = s.snapshotAt
         /\ u.returnsA = s.returnsA /\ u.returnsB = s.returnsB
<1>1. p[1] # p[2]
  BY DetectorsAssumption
<1>2. t.price \in Price
  BY DEF Tick
<1>3. CASE t.symbol = p[1]
  <2> DEFINE a == [s EXCEPT !.latestA = t.price]
             b == [a EXCEPT !.updatedA = TRUE]
  <2>1. u = b
    BY <1>3 DEF CorrUpdate
  <2>2. a \in CorrState
    BY <1>2, ReplaceField
  <2> HIDE DEF a
  <2>3. b \in CorrState
    BY <2>2, ReplaceField
  <2> HIDE DEF b
  <2>4. QED
    BY <1>1, <1>3, <2>1, <2>3 DEF CorrUpdate, CorrState
<1>4. CASE t.symbol = p[2]
  <2> DEFINE a == [s EXCEPT !.latestB = t.price]
             b == [a EXCEPT !.updatedB = TRUE]
  <2>1. u = b
    BY <1>1, <1>4 DEF CorrUpdate
  <2>2. a \in CorrState
    BY <1>2, ReplaceField
  <2> HIDE DEF a
  <2>3. b \in CorrState
    BY <2>2, ReplaceField
  <2> HIDE DEF b
  <2>4. QED
    BY <1>1, <1>4, <2>1, <2>3 DEF CorrUpdate, CorrState
<1>5. QED
  BY <1>3, <1>4 DEF Concerns

\* The correlation detector notes the price; if it takes a snapshot, that is of two real
\* prices, and when it is not the first one, both have been renewed since the last one,
\* the interval has passed, and each ring gets the move from there to here.
Seen(p, t, A, B) ==
  /\ A = (IF t.symbol = p[1] THEN t.price ELSE corr[p].latestA)
  /\ B = (IF t.symbol = p[2] THEN t.price ELSE corr[p].latestB)

Passes(s, p, t, q, A, B) ==
  /\ q.returnsA = s.returnsA /\ q.returnsB = s.returnsB
  /\ q.snapshotA = s.snapshotA /\ q.snapshotB = s.snapshotB /\ q.snapshotAt = s.snapshotAt
  /\ q.updatedA <=> s.updatedA \/ t.symbol = p[1]
  /\ q.updatedB <=> s.updatedB \/ t.symbol = p[2]
  /\ Concerns(p, t) /\ s.snapshotAt = Never => A = NoPrice \/ B = NoPrice

Takes(s, p, t, q, A, B) ==
  /\ A # NoPrice /\ B # NoPrice
  /\ q.snapshotA = A /\ q.snapshotB = B /\ q.snapshotAt = t.at
  /\ ~q.updatedA /\ ~q.updatedB
  /\ s.snapshotAt = Never => q.returnsA = s.returnsA /\ q.returnsB = s.returnsB
  /\ s.snapshotAt # Never =>
       /\ s.updatedA \/ t.symbol = p[1]
       /\ s.updatedB \/ t.symbol = p[2]
       /\ t.at - s.snapshotAt >= SampleInterval
       /\ q.returnsA = Push(s.returnsA, t.at, A - s.snapshotA)
       /\ q.returnsB = Push(s.returnsB, t.at, B - s.snapshotB)

LEMMA CorrFields ==
  ASSUME NEW p \in Pairs, NEW t \in Tick, NEW s \in CorrState, s = corr[p],
         s.snapshotAt # Never => s.snapshotA # NoPrice /\ s.snapshotB # NoPrice,
         NEW q, q = CorrOnTick(p, t).state, NEW A, NEW B, Seen(p, t, A, B)
  PROVE  /\ q \in CorrState /\ q.latestA = A /\ q.latestB = B
         /\ IF TakesSnapshot(p, t) THEN Takes(s, p, t, q, A, B) ELSE Passes(s, p, t, q, A, B)
<1> DEFINE u == CorrUpdate(s, p, t)
<1>1. /\ t.at \in Int /\ t.at \in Time /\ t.at # Never
      /\ s.snapshotA \in Price /\ s.snapshotB \in Price /\ s.snapshotAt \in Time
      /\ s.returnsA \in RingOf(ReturnCap) /\ s.returnsB \in RingOf(ReturnCap)
      /\ s.updatedA \in BOOLEAN /\ s.updatedB \in BOOLEAN
  BY DetectorsAssumption DEF Tick, Time, CorrState
<1>2. ASSUME ~Concerns(p, t)
      PROVE  /\ q \in CorrState /\ q.latestA = A /\ q.latestB = B
             /\ ~TakesSnapshot(p, t) /\ Passes(s, p, t, q, A, B)
  <2>1. t.symbol # p[1] /\ t.symbol # p[2]
    BY <1>2 DEF Concerns
  <2>2. q = s
    BY <1>2 DEF CorrOnTick, Result
  <2>3. QED
    BY <1>1, <1>2, <2>1, <2>2 DEF TakesSnapshot, Passes, Seen
<1>3. ASSUME Concerns(p, t)
      PROVE  /\ u \in CorrState /\ u.latestA = A /\ u.latestB = B
             /\ u.updatedA <=> s.updatedA \/ t.symbol = p[1]
             /\ u.updatedB <=> s.updatedB \/ t.symbol = p[2]
             /\ u.snapshotA = s.snapshotA /\ u.snapshotB = s.snapshotB
             /\ u.snapshotAt = s.snapshotAt
             /\ u.returnsA = s.returnsA /\ u.returnsB = s.returnsB
  BY <1>3, UpdateFields DEF Seen
<1>4. ASSUME Concerns(p, t), First(u)
      PROVE  /\ q \in CorrState /\ q.latestA = A /\ q.latestB = B
             /\ TakesSnapshot(p, t) /\ Takes(s, p, t, q, A, B)
  <2> DEFINE v == Snapshot(u, t)
  <2>1. TakesSnapshot(p, t)
    BY <1>4 DEF TakesSnapshot
  <2>2. q = [v EXCEPT !.firstSeen = t.at]
    BY <1>4 DEF CorrOnTick, Result
  <2> HIDE DEF u
  <2>3. A # NoPrice /\ B # NoPrice /\ s.snapshotAt = Never
    BY <1>3, <1>4 DEF First, Priced
  <2>4. /\ v \in CorrState
        /\ v.snapshotA = A /\ v.snapshotB = B /\ v.snapshotAt = t.at
        /\ v.updatedA = FALSE /\ v.updatedB = FALSE /\ v.latestA = A /\ v.latestB = B
        /\ v.returnsA = s.returnsA /\ v.returnsB = s.returnsB
    <3>1. u \in CorrState
      BY <1>3, <1>4
    <3>2. /\ v \in CorrState
          /\ v.snapshotA = u.latestA /\ v.snapshotB = u.latestB /\ v.snapshotAt = t.at
          /\ v.updatedA = FALSE /\ v.updatedB = FALSE
          /\ v.latestA = u.latestA /\ v.latestB = u.latestB
          /\ v.returnsA = u.returnsA /\ v.returnsB = u.returnsB
      BY <1>1, <3>1, SnapshotFields, ZenonT(60)
    <3> HIDE DEF v
    <3>3. QED
      BY <1>3, <1>4, <3>2
  <2> HIDE DEF v
  <2>5. q \in CorrState
    BY <1>1, <2>2, <2>4, ReplaceField
  <2>6. /\ q.snapshotA = A /\ q.snapshotB = B /\ q.snapshotAt = t.at
        /\ q.updatedA = FALSE /\ q.updatedB = FALSE /\ q.latestA = A /\ q.latestB = B
        /\ q.returnsA = s.returnsA /\ q.returnsB = s.returnsB
    BY <2>2, <2>4 DEF CorrState
  <2>7. QED
    BY <2>1, <2>3, <2>5, <2>6 DEF Takes
<1>5. ASSUME Concerns(p, t), ~First(u), Due(u, t)
      PROVE  /\ q \in CorrState /\ q.latestA = A /\ q.latestB = B
             /\ TakesSnapshot(p, t) /\ Takes(s, p, t, q, A, B)
  <2> DEFINE ringA == Push(s.returnsA, t.at, A - s.snapshotA)
             ringB == Push(s.returnsB, t.at, B - s.snapshotB)
             x == [u EXCEPT !.returnsA = ringA]
             y == [x EXCEPT !.returnsB = ringB]
             v == Snapshot(y, t)
  <2>1. TakesSnapshot(p, t)
    BY <1>5 DEF TakesSnapshot
  <2>2. q = [Sample(u, t) EXCEPT !.lastAlert = t.at] \/ q = Sample(u, t)
    BY <1>5 DEF CorrOnTick, Result
  <2> HIDE DEF u
  <2>3. /\ A # NoPrice /\ B # NoPrice /\ s.snapshotAt # Never
        /\ s.updatedA \/ t.symbol = p[1]
        /\ s.updatedB \/ t.symbol = p[2]
        /\ t.at - s.snapshotAt >= SampleInterval
    BY <1>3, <1>5 DEF First, Due, Priced
  <2>4. ringA \in RingOf(ReturnCap) /\ ringB \in RingOf(ReturnCap)
    <3>1. A \in Price /\ B \in Price
      BY <1>3, <1>5 DEF CorrState
    <3>2. A \in Int /\ B \in Int /\ s.snapshotA \in Int /\ s.snapshotB \in Int
      BY <1>1, <2>3, <3>1 DEF Price
    <3>3. A - s.snapshotA \in Int /\ B - s.snapshotB \in Int
      BY <3>2
    <3>4. QED
      BY <1>1, <3>3, Capacities, PushType
  <2>5. Sample(u, t) = v
    <3>1. Sample(u, t)
            = Snapshot([u EXCEPT !.returnsA = Push(u.returnsA, t.at, u.latestA - u.snapshotA),
                                 !.returnsB = Push(u.returnsB, t.at, u.latestB - u.snapshotB)], t)
      <4>1. u.snapshotA # NoPrice /\ u.snapshotB # NoPrice
        BY <1>3, <1>5, <2>3
      <4>2. QED
        BY <4>1 DEF Sample
    <3>2. /\ Push(u.returnsA, t.at, u.latestA - u.snapshotA) = ringA
          /\ Push(u.returnsB, t.at, u.latestB - u.snapshotB) = ringB
      BY <1>3, <1>5
    <3> HIDE DEF ringA, ringB
    <3>3. QED
      BY <3>1, <3>2
  <2> HIDE DEF ringA, ringB
  <2>6. x \in CorrState
    BY <1>3, <1>5, <2>4, ReplaceField
  <2>7. /\ x.returnsA = ringA /\ x.latestA = A /\ x.latestB = B
    BY <1>3, <1>5 DEF CorrState
  <2> HIDE DEF x
  <2>8. y \in CorrState
    BY <2>4, <2>6, ReplaceField
  <2>9. y.returnsA = ringA /\ y.returnsB = ringB /\ y.latestA = A /\ y.latestB = B
    BY <2>6, <2>7 DEF CorrState
  <2> HIDE DEF y
  <2>10. /\ v \in CorrState
         /\ v.snapshotA = A /\ v.snapshotB = B /\ v.snapshotAt = t.at
         /\ v.updatedA = FALSE /\ v.updatedB = FALSE /\ v.latestA = A /\ v.latestB = B
         /\ v.returnsA = ringA /\ v.returnsB = ringB
    <3>1. /\ v \in CorrState
          /\ v.snapshotA = y.latestA /\ v.snapshotB = y.latestB /\ v.snapshotAt = t.at
          /\ v.updatedA = FALSE /\ v.updatedB = FALSE
          /\ v.latestA = y.latestA /\ v.latestB = y.latestB
          /\ v.returnsA = y.returnsA /\ v.returnsB = y.returnsB
      BY <1>1, <2>8, SnapshotFields, ZenonT(60)
    <3> HIDE DEF v
    <3>2. QED
      BY <2>9, <3>1
  <2> HIDE DEF v
  <2>11. q \in CorrState
    BY <1>1, <2>2, <2>5, <2>10, ReplaceField
  <2>12. /\ q.snapshotA = A /\ q.snapshotB = B /\ q.snapshotAt = t.at
         /\ q.updatedA = FALSE /\ q.updatedB = FALSE /\ q.latestA = A /\ q.latestB = B
         /\ q.returnsA = ringA /\ q.returnsB = ringB
    BY <2>2, <2>5, <2>10 DEF CorrState
  <2>13. QED
    BY <2>1, <2>3, <2>11, <2>12 DEF Takes, ringA, ringB
<1>6. ASSUME Concerns(p, t), ~First(u), ~Due(u, t)
      PROVE  /\ q \in CorrState /\ q.latestA = A /\ q.latestB = B
             /\ ~TakesSnapshot(p, t) /\ Passes(s, p, t, q, A, B)
  <2>1. ~TakesSnapshot(p, t)
    BY <1>6 DEF TakesSnapshot
  <2>2. q = u
    BY <1>6 DEF CorrOnTick, Result
  <2> HIDE DEF u
  <2>3. s.snapshotAt = Never => A = NoPrice \/ B = NoPrice
    BY <1>3, <1>6 DEF First, Priced
  <2>4. QED
    BY <1>3, <1>6, <2>1, <2>2, <2>3 DEF Passes
<1>7. QED
  BY <1>2, <1>4, <1>5, <1>6

(***************************************************************************)
(* Lemmas about the history of ticks.                                      *)
(***************************************************************************)

\* Among some ticks one is the last.
LEMMA LastOne ==
  ASSUME NEW n \in Nat, NEW own \in SUBSET (1 .. n), own # {}
  PROVE  \E j \in own : \A k \in own : k <= j
<1> DEFINE gaps == {n - j : j \in own}
<1>1. gaps \subseteq Nat /\ gaps # {}
  <2>1. \A j \in own : n - j \in Nat
    OBVIOUS
  <2>2. QED
    BY <2>1, Zenon
<1>2. PICK x \in gaps : \A y \in gaps : ~(<<y, x>> \in OpToRel(<, Nat))
  BY <1>1, NatLessThanWellFounded, WFMin
<1>3. \A y \in gaps : ~(y < x)
  BY <1>1, <1>2 DEF OpToRel
<1>4. PICK j \in own : x = n - j
  BY <1>2
<1>5. ASSUME NEW k \in own PROVE k <= j
  <2>1. n - k \in gaps
    OBVIOUS
  <2>2. ~(n - k < n - j)
    BY <1>3, <1>4, <2>1
  <2> HIDE DEF gaps
  <2>3. n \in Nat /\ k \in Nat /\ j \in Nat
    OBVIOUS
  <2>4. QED
    BY <2>2, <2>3
<1>6. QED
  BY <1>4, <1>5

\* A tick more is an entry more, and leaves the others alone.
LEMMA TickMore ==
  ASSUME TypeOK, NEW t \in Tick, ticks' = Append(ticks, t)
  PROVE  /\ Len(ticks) \in Nat /\ Len(ticks') = Len(ticks) + 1
         /\ ticks \in Seq(Tick) /\ ticks' \in Seq(Tick)
         /\ DOMAIN ticks = 1 .. Len(ticks) /\ DOMAIN ticks' = 1 .. Len(ticks) + 1
         /\ \A i \in 1 .. Len(ticks) : ticks'[i] = ticks[i]
         /\ ticks'[Len(ticks) + 1] = t
<1>1. ticks \in Seq(Tick)
  BY DEF TypeOK
<1>2. QED
  BY <1>1, AppendProperties, LenProperties

\* It is the latest price of its own symbol, and of no other.
LEMMA LatestMore ==
  ASSUME TypeOK, NEW t \in Tick, ticks' = Append(ticks, t), NEW s,
         NEW n \in Nat, n = Len(ticks)
  PROVE  /\ \A i \in 0 .. n : LatestPrice(s, i)' = LatestPrice(s, i)
         /\ LatestPrice(s, n + 1)' = IF t.symbol = s THEN t.price ELSE LatestPrice(s, n)
<1> DEFINE own(i) == {j \in 1 .. i : ticks[j].symbol = s}
           new(i) == {j \in 1 .. i : ticks'[j].symbol = s}
<1>1. ticks'[n + 1] = t /\ \A i \in 1 .. n : ticks'[i] = ticks[i]
  BY TickMore
<1>2. ASSUME NEW i \in 0 .. n PROVE new(i) = own(i)
  <2>1. \A j \in 1 .. i : j \in 1 .. n
    OBVIOUS
  <2>2. \A j \in 1 .. i : ticks'[j] = ticks[j]
    BY <1>1, <2>1, Zenon
  <2>3. QED
    BY <2>2, Zenon
<1>3. ASSUME NEW i \in 0 .. n, own(i) # {}
      PROVE  ticks'[CHOOSE j \in own(i) : \A k \in own(i) : k <= j]
               = ticks[CHOOSE j \in own(i) : \A k \in own(i) : k <= j]
  <2>1. \E j \in own(i) : \A k \in own(i) : k <= j
    <3>1. i \in Nat /\ own(i) \in SUBSET (1 .. i)
      BY <1>1
    <3> HIDE DEF own
    <3>2. QED
      BY <1>3, <3>1, LastOne
  <2>2. (CHOOSE j \in own(i) : \A k \in own(i) : k <= j) \in own(i)
    BY <2>1
  <2>3. own(i) \subseteq 1 .. n
    BY <1>1
  <2> HIDE DEF own
  <2>4. QED
    BY <1>1, <2>2, <2>3
<1>4. ASSUME NEW i \in 0 .. n PROVE LatestPrice(s, i)' = LatestPrice(s, i)
  <2>1. LatestPrice(s, i)'
          = IF new(i) = {} THEN NoPrice
            ELSE ticks'[CHOOSE j \in new(i) : \A k \in new(i) : k <= j].price
    BY Zenon DEF LatestPrice
  <2>2. LatestPrice(s, i)
          = IF own(i) = {} THEN NoPrice
            ELSE ticks[CHOOSE j \in own(i) : \A k \in own(i) : k <= j].price
    BY Zenon DEF LatestPrice
  <2>3. new(i) = own(i)
    BY <1>2
  <2>4. own(i) # {} => ticks'[CHOOSE j \in own(i) : \A k \in own(i) : k <= j]
                         = ticks[CHOOSE j \in own(i) : \A k \in own(i) : k <= j]
    BY <1>3
  <2> HIDE DEF own, new
  <2>5. CASE own(i) = {}
    BY <2>1, <2>2, <2>3, <2>5, Zenon
  <2>6. CASE own(i) # {}
    BY <2>1, <2>2, <2>3, <2>4, <2>6, Zenon
  <2>7. QED
    BY <2>5, <2>6
<1> DEFINE all == new(n + 1)
           c == CHOOSE j \in all : \A k \in all : k <= j
<1>5. LatestPrice(s, n + 1)' = IF all = {} THEN NoPrice ELSE ticks'[c].price
  BY Zenon DEF LatestPrice
<1>6. ASSUME t.symbol = s PROVE LatestPrice(s, n + 1)' = t.price
  <2>1. n + 1 \in all
    <3>1. n + 1 \in 1 .. n + 1
      BY <1>1
    <3>2. QED
      BY <1>1, <1>6, <3>1, Zenon
  <2>2. \A k \in all : k \in Nat /\ k <= n + 1
    BY <1>1
  <2> HIDE DEF all
  <2>3. c \in all /\ \A k \in all : k <= c
    BY <2>1, <2>2
  <2> HIDE DEF c
  <2>4. n + 1 <= c /\ c <= n + 1 /\ c \in Nat
    BY <2>1, <2>2, <2>3
  <2>5. c = n + 1
    BY <1>1, <2>4
  <2>6. QED
    BY <1>1, <1>5, <2>1, <2>5
<1>7. ASSUME t.symbol # s PROVE LatestPrice(s, n + 1)' = LatestPrice(s, n)
  <2>1. n \in 0 .. n /\ LatestPrice(s, n)' = LatestPrice(s, n)
    BY <1>1, <1>4
  <2>2. all = new(n)
    <3>1. \A j : j \in 1 .. n + 1 <=> j \in 1 .. n \/ j = n + 1
      BY <1>1
    <3>2. \A j : j \in all <=> j \in new(n)
      BY <1>1, <1>7, <3>1, Zenon
    <3> HIDE DEF all, new
    <3>3. QED
      BY <3>2, Zenon
  <2>3. LatestPrice(s, n)'
          = IF new(n) = {} THEN NoPrice
            ELSE ticks'[CHOOSE j \in new(n) : \A k \in new(n) : k <= j].price
    BY Zenon DEF LatestPrice
  <2> HIDE DEF all, new
  <2>4. QED
    BY <1>5, <2>1, <2>2, <2>3, Zenon DEF c
<1>8. QED
  BY <1>4, <1>6, <1>7

LEMMA LatestSame ==
  ASSUME TypeOK, NEW t \in Tick, ticks' = Append(ticks, t), NEW s,
         NEW n \in Nat, n = Len(ticks), NEW i \in 1 .. n
  PROVE  LatestPrice(s, i)' = LatestPrice(s, i)
<1>1. i \in 0 .. n
  OBVIOUS
<1>2. \A j \in 0 .. n : LatestPrice(s, j)' = LatestPrice(s, j)
  BY LatestMore
<1>3. QED
  BY <1>1, <1>2, Zenon

(***************************************************************************)
(* The invariant holds at first, and a tick preserves it.                  *)
(***************************************************************************)

LEMMA NewRing ==
  ASSUME NEW c \in Nat \ {0}
  PROVE  NewRingBuffer(c) \in RingOf(c) /\ \A entry : Tracks(NewRingBuffer(c), {}, entry)
<1>1. NewRingBuffer(c) \in RingOf(c)
  <2>1. \A i \in 0 .. c - 1 : EmptySlot \in [at : Int, value : Int]
    BY DEF EmptySlot
  <2>2. QED
    BY <2>1 DEF NewRingBuffer, RingOf
<1>2. QED
  BY <1>1, FS_EmptySet DEF Tracks, Holds, NewRingBuffer

LEMMA InitIInv == Init => IInv
<1> SUFFICES ASSUME Init PROVE IInv
  OBVIOUS
<1>1. /\ ticks = <<>> /\ Len(ticks) = 0 /\ DOMAIN ticks = {}
      /\ \A p \in Pairs : taken[p] = <<>> /\ Len(taken[p]) = 0
  BY DEF Init
<1>2. \A s, sides : Own(s, sides) = {}
  BY <1>1 DEF Own
<1>3. NewSpike \in SpikeState /\ NewFlow \in FlowState /\ NewCorr \in CorrState
  <2>1. /\ NewRingBuffer(ShortCap) \in RingOf(ShortCap)
        /\ NewRingBuffer(LongCap) \in RingOf(LongCap)
        /\ NewRingBuffer(FlowCap) \in RingOf(FlowCap)
        /\ NewRingBuffer(ReturnCap) \in RingOf(ReturnCap)
    BY Capacities, NewRing
  <2>2. Never \in Time /\ NoPrice \in Price
    BY DEF Time, Price
  <2>3. QED
    BY <2>1, <2>2 DEF NewSpike, NewFlow, NewCorr, SpikeState, FlowState, CorrState
<1>4. TypeOK
  <2>1. spike \in [Symbol -> SpikeState] /\ flow \in [Symbol -> FlowState]
    BY <1>3 DEF Init
  <2>2. corr \in [Pairs -> CorrState] /\ \A p \in Pairs : corr[p].snapshotAt = Never
    BY <1>3 DEF Init, NewCorr
  <2>3. ticks \in Seq(Tick) /\ Len(ticks) <= MaxTick
    <3>1. <<>> \in Seq(Tick)
      OBVIOUS
    <3>2. MaxTick \in Nat
      BY DetectorsAssumption, Zenon
    <3>3. QED
      BY <1>1, <3>1, <3>2
  <2>4. DOMAIN taken = Pairs /\ \A p \in Pairs : taken[p] \in Seq(DOMAIN ticks)
    <3>1. <<>> \in Seq(DOMAIN ticks)
      OBVIOUS
    <3>2. QED
      BY <3>1 DEF Init
  <2>5. QED
    BY <2>1, <2>2, <2>3, <2>4 DEF TypeOK
<1>5. RingsInv
  <2> SUFFICES ASSUME NEW s \in Symbol
      PROVE /\ Tracks(spike[s].short, {}, Entries) /\ Tracks(spike[s].long, {}, Entries)
            /\ Tracks(flow[s].buys, {}, Entries) /\ Tracks(flow[s].sells, {}, Entries)
    BY <1>2 DEF RingsInv
  <2>1. /\ spike[s].short = NewRingBuffer(ShortCap) /\ spike[s].long = NewRingBuffer(LongCap)
        /\ flow[s].buys = NewRingBuffer(FlowCap) /\ flow[s].sells = NewRingBuffer(FlowCap)
    BY DEF Init, NewSpike, NewFlow
  <2>2. QED
    BY <2>1, Capacities, NewRing
<1>6. ASSUME NEW p \in Pairs
      PROVE  LatestInv(p) /\ FirstInv(p) /\ SnapshotInv(p) /\ MovesInv(p) /\ ApartInv(p)
  <2>1. corr[p] = NewCorr
    BY DEF Init
  <2>2. \A s : LatestPrice(s, 0) = NoPrice
    BY DEF LatestPrice
  <2>3. LatestInv(p)
    BY <1>1, <2>1, <2>2 DEF LatestInv, NewCorr
  <2>4. FirstInv(p) /\ SnapshotInv(p) /\ ApartInv(p)
    BY <1>1, <2>1 DEF FirstInv, SnapshotInv, ApartInv, NewCorr
  <2>5. MovesInv(p)
    <3>1. 1 .. Len(taken[p]) - 1 = {}
      BY <1>1
    <3>2. /\ corr[p].returnsA = NewRingBuffer(ReturnCap)
          /\ corr[p].returnsB = NewRingBuffer(ReturnCap)
      BY <2>1 DEF NewCorr
    <3>3. QED
      BY <3>1, <3>2, Capacities, NewRing DEF MovesInv
  <2>6. QED
    BY <2>3, <2>4, <2>5
<1>7. QED
  BY <1>4, <1>5, <1>6 DEF IInv

\* A step handles one tick.
LEMMA NextTicks ==
  ASSUME TypeOK, Next
  PROVE  Len(ticks) < MaxTick /\ \E t \in Tick : OnTick(t)
<1>1. PICK trade \in Trade : OnTick(TickOf(trade))
  BY DEF Next, TickOf
<1>2. QED
  BY <1>1, TickType DEF Next

\* What happens to a pair.
LEMMA PairStep ==
  ASSUME IInv, NEW t \in Tick, OnTick(t), NEW n \in Nat, n = Len(ticks), NEW p \in Pairs,
         NEW A, NEW B, Seen(p, t, A, B)
  PROVE  /\ corr'[p] \in CorrState /\ corr'[p].latestA = A /\ corr'[p].latestB = B
         /\ IF TakesSnapshot(p, t) THEN Takes(corr[p], p, t, corr'[p], A, B)
                                   ELSE Passes(corr[p], p, t, corr'[p], A, B)
         /\ taken'[p] = IF TakesSnapshot(p, t) THEN Append(taken[p], n + 1) ELSE taken[p]
         /\ taken[p] \in Seq(1 .. n) /\ taken'[p] \in Seq(1 .. n + 1)
         /\ LatestPrice(p[1], n + 1)' = A /\ LatestPrice(p[2], n + 1)' = B
<1>1. TypeOK /\ ticks' = Append(ticks, t)
  BY DEF IInv, OnTick
<1>2. corr[p] \in CorrState /\ corr'[p] = CorrOnTick(p, t).state
  BY <1>1 DEF OnTick, TypeOK
<1>3. corr[p].snapshotAt # Never => corr[p].snapshotA # NoPrice /\ corr[p].snapshotB # NoPrice
  BY <1>1 DEF TypeOK
<1>4. /\ corr'[p] \in CorrState /\ corr'[p].latestA = A /\ corr'[p].latestB = B
      /\ IF TakesSnapshot(p, t) THEN Takes(corr[p], p, t, corr'[p], A, B)
                                ELSE Passes(corr[p], p, t, corr'[p], A, B)
  BY <1>2, <1>3, CorrFields
<1>5. taken'[p] = IF TakesSnapshot(p, t) THEN Append(taken[p], n + 1) ELSE taken[p]
  BY DEF OnTick
<1>6. taken[p] \in Seq(1 .. n) /\ taken'[p] \in Seq(1 .. n + 1)
  <2>1. taken[p] \in Seq(1 .. n)
    BY <1>1, TickMore DEF TypeOK
  <2>2. taken[p] \in Seq(1 .. n + 1)
    <3>1. 1 .. n \subseteq 1 .. n + 1
      OBVIOUS
    <3>2. QED
      BY <2>1, <3>1, SeqMonotonic
  <2>3. Append(taken[p], n + 1) \in Seq(1 .. n + 1)
    <3>1. n + 1 \in 1 .. n + 1
      OBVIOUS
    <3>2. QED
      BY <2>2, <3>1, AppendProperties
  <2>4. QED
    BY <1>5, <2>1, <2>2, <2>3
<1>7. LatestPrice(p[1], n + 1)' = A /\ LatestPrice(p[2], n + 1)' = B
  <2>1. corr[p].latestA = LatestPrice(p[1], n) /\ corr[p].latestB = LatestPrice(p[2], n)
    BY DEF IInv, LatestInv
  <2>2. /\ LatestPrice(p[1], n + 1)' = IF t.symbol = p[1] THEN t.price ELSE LatestPrice(p[1], n)
        /\ LatestPrice(p[2], n + 1)' = IF t.symbol = p[2] THEN t.price ELSE LatestPrice(p[2], n)
    BY <1>1, LatestMore
  <2>3. QED
    BY <2>1, <2>2 DEF Seen
<1>8. QED
  BY <1>4, <1>5, <1>6, <1>7
\* Its first snapshot stays, and is taken as soon as both prices are known.
LEMMA BothMore ==
  ASSUME TypeOK, NEW t \in Tick, ticks' = Append(ticks, t), NEW p,
         NEW n \in Nat, n = Len(ticks), NEW i \in 0 .. n
  PROVE  BothKnown(p, i)' <=> BothKnown(p, i)
BY LatestMore DEF BothKnown

LEMMA FirstStep ==
  ASSUME IInv, NEW t \in Tick, OnTick(t), NEW n \in Nat, n = Len(ticks), NEW p \in Pairs
  PROVE  FirstInv(p)'
<1> PICK A, B : Seen(p, t, A, B)
  BY DEF Seen
<1> DEFINE old == taken[p]
           new == taken'[p]
<1>1. /\ IF TakesSnapshot(p, t) THEN Takes(corr[p], p, t, corr'[p], A, B)
                                ELSE Passes(corr[p], p, t, corr'[p], A, B)
      /\ new = IF TakesSnapshot(p, t) THEN Append(old, n + 1) ELSE old
      /\ old \in Seq(1 .. n) /\ new \in Seq(1 .. n + 1)
      /\ LatestPrice(p[1], n + 1)' = A /\ LatestPrice(p[2], n + 1)' = B
  BY PairStep
<1>2. /\ TypeOK /\ ticks' = Append(ticks, t)
      /\ DOMAIN ticks = 1 .. n /\ DOMAIN ticks' = 1 .. n + 1
  <2>1. TypeOK /\ ticks' = Append(ticks, t)
    BY DEF IInv, OnTick
  <2>2. QED
    BY <2>1, TickMore
<1>3. \A i \in 0 .. n : BothKnown(p, i)' <=> BothKnown(p, i)
  BY <1>2, BothMore
<1>4. BothKnown(p, n + 1)' <=> A # NoPrice /\ B # NoPrice
  BY <1>1 DEF BothKnown
<1>5. /\ corr[p].snapshotAt = Never <=> old = <<>>
      /\ old # <<>> => \E i \in 1 .. n : i = old[1] /\ BothKnown(p, i)
      /\ \A i \in 1 .. n : BothKnown(p, i) => old # <<>> /\ old[1] <= i
  BY <1>2 DEF IInv, FirstInv
<1>6. /\ old # <<>> => old[1] \in 1 .. n /\ new # <<>> /\ new[1] = old[1]
      /\ new # <<>> => new[1] \in 1 .. n + 1
      /\ TakesSnapshot(p, t) => new # <<>> /\ (old = <<>> => new[1] = n + 1)
  <2> HIDE DEF old, new
  <2>1. /\ Append(old, n + 1) # <<>>
        /\ Append(old, n + 1)[1] = IF old = <<>> THEN n + 1 ELSE old[1]
    <3>1. Len(old) \in Nat /\ (old = <<>> <=> Len(old) = 0)
      BY <1>1, EmptySeq, LenProperties
    <3>2. old \in Seq(Int) /\ n + 1 \in Int
      <4>1. 1 .. n \subseteq Int
        OBVIOUS
      <4>2. QED
        BY <1>1, <4>1, SeqMonotonic
    <3>3. QED
      BY <3>1, <3>2, AppendProperties
  <2>2. old # <<>> => old[1] \in 1 .. n
    BY <1>1, ElementOfSeq, EmptySeq, LenProperties
  <2>3. new # <<>> => new[1] \in 1 .. n + 1
    BY <1>1, ElementOfSeq, EmptySeq, LenProperties, SMTT(30)
  <2>4. QED
    BY <1>1, <2>1, <2>2, <2>3
<1>7. corr'[p].snapshotAt = Never <=> new = <<>>
  <2>1. t.at # Never
    BY DetectorsAssumption DEF Tick
  <2>2. QED
    BY <1>1, <1>5, <1>6, <2>1 DEF Takes, Passes
<1>8. ASSUME new # <<>> PROVE \E i \in 1 .. n + 1 : i = new[1] /\ BothKnown(p, i)'
  <2>1. CASE old # <<>>
    <3>1. PICK i \in 1 .. n : i = old[1] /\ BothKnown(p, i)
      BY <1>5, <2>1
    <3>2. BothKnown(p, i)'
      BY <1>3, <3>1
    <3>3. QED
      BY <1>6, <2>1, <3>1, <3>2
  <2>2. CASE TakesSnapshot(p, t) /\ old = <<>>
    BY <1>1, <1>4, <1>6, <2>2 DEF Takes
  <2>3. QED
    BY <1>1, <1>8, <2>1, <2>2
<1>9. ASSUME NEW i \in 1 .. n + 1, BothKnown(p, i)' PROVE new # <<>> /\ new[1] <= i
  <2>1. CASE i \in 1 .. n
    BY <1>3, <1>5, <1>6, <1>9, <2>1
  <2>2. CASE i = n + 1 /\ new # <<>>
    BY <1>6, <2>2
  <2>3. CASE i = n + 1 /\ new = <<>>
    <3>1. A # NoPrice /\ B # NoPrice
      BY <1>4, <1>9, <2>3
    <3>2. corr[p].snapshotAt = Never /\ ~TakesSnapshot(p, t) /\ old = <<>>
      BY <1>1, <1>5, <1>6, <2>3
    <3>3. ~Concerns(p, t)
      BY <1>1, <3>1, <3>2 DEF Passes
    <3>4. BothKnown(p, n)
      <4>1. LatestPrice(p[1], n) = A /\ LatestPrice(p[2], n) = B
        BY <3>3 DEF IInv, LatestInv, Seen, Concerns
      <4>2. QED
        BY <3>1, <4>1 DEF BothKnown
    <3>5. n = 0
      BY <1>5, <3>2, <3>4
    <3>6. ~BothKnown(p, 0)
      BY DEF BothKnown, LatestPrice
    <3>7. QED
      BY <3>4, <3>5, <3>6
  <2>4. QED
    BY <2>1, <2>2, <2>3
<1>10. QED
  BY <1>2, <1>7, <1>8, <1>9 DEF FirstInv
\* The last snapshot is the pair's.
LEMMA SnapshotStep ==
  ASSUME IInv, NEW t \in Tick, OnTick(t), NEW n \in Nat, n = Len(ticks), NEW p \in Pairs
  PROVE  SnapshotInv(p)'
<1> PICK A, B : Seen(p, t, A, B)
  BY DEF Seen
<1> DEFINE old == taken[p]
           new == taken'[p]
<1>1. /\ corr'[p] \in CorrState
      /\ IF TakesSnapshot(p, t) THEN Takes(corr[p], p, t, corr'[p], A, B)
                                ELSE Passes(corr[p], p, t, corr'[p], A, B)
      /\ new = IF TakesSnapshot(p, t) THEN Append(old, n + 1) ELSE old
      /\ old \in Seq(1 .. n) /\ new \in Seq(1 .. n + 1)
      /\ LatestPrice(p[1], n + 1)' = A /\ LatestPrice(p[2], n + 1)' = B
  BY PairStep
<1>2. TypeOK /\ ticks' = Append(ticks, t)
  BY DEF IInv, OnTick
<1>3. /\ DOMAIN ticks = 1 .. n /\ DOMAIN ticks' = 1 .. n + 1
      /\ \A i \in 1 .. n : ticks'[i] = ticks[i]
      /\ ticks'[n + 1] = t
  BY <1>2, TickMore
<1>4. ASSUME NEW i \in 1 .. n, NEW s
      PROVE  Renewed(s, i)' <=> Renewed(s, i) \/ t.symbol = s
  <2>1. \A j : j \in 1 .. n + 1 <=> j \in 1 .. n \/ j = n + 1
    OBVIOUS
  <2>2. i < n + 1
    OBVIOUS
  <2>3. QED
    BY <1>3, <2>1, <2>2, Zenon DEF Renewed
<1>5. \A s : ~Renewed(s, n + 1)'
  BY <1>3 DEF Renewed
<1>6. CASE TakesSnapshot(p, t)
  <2>1. new[Len(new)] = n + 1
    <3> HIDE DEF old, new
    <3>1. 1 .. n \subseteq Int
      OBVIOUS
    <3>2. old \in Seq(Int) /\ n + 1 \in Int
      BY <1>1, <3>1, SeqMonotonic
    <3>3. QED
      BY <1>1, <1>6, <3>2, AppendProperties, LenProperties
  <2>2. SnapshotOf(p, n + 1)'
    <3>1. /\ corr'[p].snapshotA = A /\ corr'[p].snapshotB = B /\ corr'[p].snapshotAt = t.at
          /\ ~corr'[p].updatedA /\ ~corr'[p].updatedB
      BY <1>1, <1>6 DEF Takes
    <3>2. QED
      BY <1>1, <1>3, <1>5, <3>1 DEF SnapshotOf
  <2>3. n + 1 \in DOMAIN ticks'
    BY <1>3
  <2>4. QED
    BY <2>1, <2>2, <2>3 DEF SnapshotInv
<1>7. CASE ~TakesSnapshot(p, t) /\ old # <<>>
  <2>1. PICK i \in 1 .. n : i = old[Len(old)] /\ SnapshotOf(p, i)
    BY <1>3, <1>7 DEF IInv, SnapshotInv
  <2>2. /\ corr'[p].snapshotA = corr[p].snapshotA /\ corr'[p].snapshotB = corr[p].snapshotB
        /\ corr'[p].snapshotAt = corr[p].snapshotAt
        /\ corr'[p].updatedA <=> corr[p].updatedA \/ t.symbol = p[1]
        /\ corr'[p].updatedB <=> corr[p].updatedB \/ t.symbol = p[2]
    BY <1>1, <1>7 DEF Passes
  <2>3. /\ LatestPrice(p[1], i)' = LatestPrice(p[1], i)
        /\ LatestPrice(p[2], i)' = LatestPrice(p[2], i)
    BY <1>2, <2>1, LatestSame
  <2>4. SnapshotOf(p, i)'
    BY <1>3, <1>4, <2>1, <2>2, <2>3 DEF SnapshotOf
  <2>5. i \in DOMAIN ticks'
    BY <1>3, <2>1
  <2>6. QED
    BY <1>1, <1>7, <2>1, <2>4, <2>5 DEF SnapshotInv
<1>8. CASE ~TakesSnapshot(p, t) /\ old = <<>>
  BY <1>1, <1>8 DEF SnapshotInv
<1>9. QED
  BY <1>6, <1>7, <1>8

\* The moves between old snapshots are what they were, and a new snapshot adds one.
LEMMA MovesSame ==
  ASSUME TypeOK, NEW t \in Tick, ticks' = Append(ticks, t), NEW n \in Nat, n = Len(ticks),
         NEW i \in 1 .. n, NEW j \in 1 .. n, NEW s
  PROVE  Between(s, i, j)' = Between(s, i, j)
<1>1. LatestPrice(s, i)' = LatestPrice(s, i) /\ LatestPrice(s, j)' = LatestPrice(s, j)
  BY LatestSame
<1>2. ticks'[j] = ticks[j]
  BY TickMore
<1>3. QED
  BY <1>1, <1>2 DEF Between

SideMoves(s, t, n, old, new, r, q) ==
  \/ new = old /\ q = r
  \/ old = <<>> /\ new = Append(old, n + 1) /\ q = r
  \/ /\ old # <<>> /\ new = Append(old, n + 1)
     /\ \E value \in Int :
          /\ value = LatestPrice(s, n + 1)' - LatestPrice(s, old[Len(old)])
          /\ q = Push(r, t.at, value)

LEMMA SideTracks ==
  ASSUME TypeOK, NEW t \in Tick, ticks' = Append(ticks, t), NEW n \in Nat, n = Len(ticks),
         NEW s, NEW old \in Seq(1 .. n), NEW new, NEW c \in Nat \ {0}, NEW r \in RingOf(c), NEW q,
         Tracks(r, 1 .. Len(old) - 1, Moves(s, old)),
         SideMoves(s, t, n, old, new, r, q)
  PROVE  Tracks(q, 1 .. Len(new) - 1, Moves(s, new)')
<1>1. t.at \in Int /\ ticks'[n + 1] = t
  BY TickMore DEF Tick
<1>2. Len(old) \in Nat /\ \A k \in 1 .. Len(old) : old[k] \in 1 .. n
  BY ElementOfSeq, LenProperties
<1>3. CASE new = old /\ q = r
  <2>1. \A k \in 1 .. Len(old) - 1 : k \in 1 .. Len(old) /\ k + 1 \in 1 .. Len(old)
    BY <1>2
  <2>2. \A k \in 1 .. Len(old) - 1 :
          Between(s, old[k], old[k + 1])' = Between(s, old[k], old[k + 1])
    BY <1>2, <2>1, MovesSame
  <2>3. Moves(s, old)' = Moves(s, old)
    BY <2>2, Zenon DEF Moves
  <2>4. QED
    BY <1>3, <2>3
<1>4. CASE old = <<>> /\ new = Append(old, n + 1) /\ q = r
  <2>1. 1 .. Len(old) - 1 = {} /\ 1 .. Len(new) - 1 = {}
    BY <1>4
  <2>2. QED
    BY <1>4, <2>1 DEF Tracks
<1>5. CASE /\ old # <<>> /\ new = Append(old, n + 1)
           /\ \E value \in Int :
                /\ value = LatestPrice(s, n + 1)' - LatestPrice(s, old[Len(old)])
                /\ q = Push(r, t.at, value)
  <2>1. PICK value \in Int : /\ value = LatestPrice(s, n + 1)' - LatestPrice(s, old[Len(old)])
                             /\ q = Push(r, t.at, value)
    BY <1>5
  <2>2. PICK m \in Nat : Len(old) = m + 1
    <3>1. Len(old) - 1 \in Nat /\ Len(old) = Len(old) - 1 + 1
      BY <1>2, <1>5, EmptySeq
    <3>2. QED
      BY <3>1
  <2>3. /\ Len(new) = m + 2 /\ new[m + 2] = n + 1
        /\ \A k \in 1 .. m + 1 : new[k] = old[k]
    <3>1. 1 .. n \subseteq Int
      OBVIOUS
    <3>2. old \in Seq(Int) /\ n + 1 \in Int
      BY <3>1, SeqMonotonic
    <3>3. Len(new) = Len(old) + 1 /\ new[Len(old) + 1] = n + 1
          /\ \A k \in 1 .. Len(old) : new[k] = old[k]
      BY <1>5, <3>2, AppendProperties
    <3>4. QED
      BY <2>2, <3>3
  <2>4. \A k \in 1 .. m : Moves(s, new)'[k] = Moves(s, old)[k]
    <3> SUFFICES ASSUME NEW k \in 1 .. m PROVE Moves(s, new)'[k] = Moves(s, old)[k]
      OBVIOUS
    <3>1. k \in 1 .. m + 1 /\ k + 1 \in 1 .. m + 1
      BY <2>2
    <3>2. new[k] = old[k] /\ new[k + 1] = old[k + 1]
      BY <2>3, <3>1
    <3>3. PICK i, j \in 1 .. n : i = old[k] /\ j = old[k + 1]
      BY <1>2, <2>2, <3>1
    <3>4. Between(s, i, j)' = Between(s, i, j)
      BY <3>3, MovesSame
    <3>5. k \in 1 .. Len(old) - 1 /\ k \in 1 .. Len(new) - 1
      BY <2>2, <2>3
    <3>6. Moves(s, new)'[k] = Between(s, new[k], new[k + 1])'
      BY <3>5, Zenon DEF Moves
    <3>7. Moves(s, old)[k] = Between(s, old[k], old[k + 1])
      BY <3>5, Zenon DEF Moves
    <3>8. QED
      BY <3>2, <3>3, <3>4, <3>6, <3>7
  <2>5. Moves(s, new)'[m + 1] = [at |-> t.at, value |-> value]
    <3>1. m + 1 \in 1 .. Len(new) - 1 /\ m + 1 + 1 = m + 2
      BY <2>2, <2>3
    <3>2. Moves(s, new)'[m + 1] = Between(s, new[m + 1], new[m + 1 + 1])'
      BY <3>1, Zenon DEF Moves
    <3>3. PICK i \in 1 .. n : i = old[m + 1]
      BY <1>2, <2>2
    <3>4. new[m + 1] = i /\ new[m + 1 + 1] = n + 1 /\ old[Len(old)] = i
      BY <2>2, <2>3, <3>1, <3>3
    <3>5. LatestPrice(s, i)' = LatestPrice(s, i)
      BY <3>3, LatestSame
    <3>6. Between(s, i, n + 1)' = [at |-> t.at, value |-> value]
      BY <1>1, <2>1, <3>4, <3>5 DEF Between
    <3>7. QED
      BY <3>2, <3>4, <3>6
  <2>6. Tracks(r, 1 .. m, Moves(s, old))
    <3>1. m = Len(old) - 1
      BY <2>2
    <3>2. QED
      BY <3>1
  <2>7. Tracks(q, (1 .. m) \cup {m + 1}, Moves(s, new)')
    <3>1. PICK own, was, moves :
            /\ own \in SUBSET (1 .. m) /\ own = 1 .. m
            /\ was = Moves(s, old) /\ moves = Moves(s, new)'
      OBVIOUS
    <3>2. \A i \in own : moves[i] = was[i]
      BY <2>4, <3>1
    <3>3. moves[m + 1] = [at |-> t.at, value |-> value]
      BY <2>5, <3>1
    <3>4. Tracks(r, own, was)
      BY <2>6, <3>1
    <3>5. Tracks(q, own \cup {m + 1}, moves)
      <4>1. PICK at \in Int : at = t.at
        BY <1>1
      <4>2. c \in Nat \ {0} /\ r \in RingOf(c) /\ at \in Int /\ value \in Int /\ m \in Nat
        BY <2>1, <2>2, <4>1
      <4>3. own \in SUBSET (1 .. m)
        BY <3>1
      <4>4. q = Push(r, at, value) /\ moves[m + 1] = [at |-> at, value |-> value]
        BY <2>1, <3>3, <4>1
      <4>5. QED
        BY <4>2, <4>3, <4>4, <3>2, <3>4, PushTracks
    <3>6. QED
      BY <3>1, <3>5
  <2>8. (1 .. m) \cup {m + 1} = 1 .. Len(new) - 1
    BY <2>2, <2>3
  <2>9. QED
    BY <2>7, <2>8
<1>6. QED
  BY <1>3, <1>4, <1>5 DEF SideMoves
LEMMA MovesStep ==
  ASSUME IInv, NEW t \in Tick, OnTick(t), NEW n \in Nat, n = Len(ticks), NEW p \in Pairs
  PROVE  MovesInv(p)'
<1> PICK A, B : Seen(p, t, A, B)
  BY DEF Seen
<1> PICK old, new, s, q : old = taken[p] /\ new = taken'[p] /\ s = corr[p] /\ q = corr'[p]
  OBVIOUS
<1>1. /\ q \in CorrState /\ q.latestA = A /\ q.latestB = B
      /\ IF TakesSnapshot(p, t) THEN Takes(s, p, t, q, A, B) ELSE Passes(s, p, t, q, A, B)
      /\ new = IF TakesSnapshot(p, t) THEN Append(old, n + 1) ELSE old
      /\ old \in Seq(1 .. n)
      /\ LatestPrice(p[1], n + 1)' = A /\ LatestPrice(p[2], n + 1)' = B
  BY PairStep
<1>2. TypeOK /\ ticks' = Append(ticks, t)
  BY DEF IInv, OnTick
<1>3. /\ s \in CorrState
      /\ s.snapshotAt # Never => s.snapshotA # NoPrice /\ s.snapshotB # NoPrice
      /\ s.snapshotAt = Never <=> old = <<>>
  BY <1>2 DEF TypeOK, IInv, FirstInv
<1>4. /\ Tracks(s.returnsA, 1 .. Len(old) - 1, Moves(p[1], old))
      /\ Tracks(s.returnsB, 1 .. Len(old) - 1, Moves(p[2], old))
  BY DEF IInv, MovesInv
<1>5. /\ s.returnsA \in RingOf(ReturnCap) /\ s.returnsB \in RingOf(ReturnCap)
      /\ s.snapshotA \in Price /\ s.snapshotB \in Price /\ A \in Price /\ B \in Price
  <2>1. s \in CorrState
    BY <1>3
  <2>2. q \in CorrState /\ q.latestA = A /\ q.latestB = B
    BY <1>1
  <2>3. QED
    BY <2>1, <2>2 DEF CorrState
<1>6. /\ SideMoves(p[1], t, n, old, new, s.returnsA, q.returnsA)
      /\ SideMoves(p[2], t, n, old, new, s.returnsB, q.returnsB)
  <2>1. CASE ~TakesSnapshot(p, t)
    BY <1>1, <2>1 DEF Passes, SideMoves
  <2>2. CASE TakesSnapshot(p, t) /\ old = <<>>
    BY <1>1, <1>3, <2>2 DEF Takes, SideMoves
  <2>3. CASE TakesSnapshot(p, t) /\ old # <<>>
    <3>1. /\ A # NoPrice /\ B # NoPrice /\ s.snapshotAt # Never
          /\ q.returnsA = Push(s.returnsA, t.at, A - s.snapshotA)
          /\ q.returnsB = Push(s.returnsB, t.at, B - s.snapshotB)
      BY <1>1, <1>3, <2>3 DEF Takes
    <3>2. /\ s.snapshotA = LatestPrice(p[1], old[Len(old)])
          /\ s.snapshotB = LatestPrice(p[2], old[Len(old)])
      BY <2>3 DEF IInv, SnapshotInv, SnapshotOf
    <3>3. A \in Int /\ B \in Int /\ s.snapshotA \in Int /\ s.snapshotB \in Int
      <4>1. s.snapshotA # NoPrice /\ s.snapshotB # NoPrice
        BY <1>3, <3>1
      <4>2. QED
        BY <1>5, <3>1, <4>1 DEF Price
    <3>4. A - s.snapshotA \in Int /\ B - s.snapshotB \in Int
      BY <3>3
    <3>5. QED
      BY <1>1, <2>3, <3>1, <3>2, <3>4, Zenon DEF SideMoves
  <2>4. QED
    BY <2>1, <2>2, <2>3
<1>7. /\ Tracks(q.returnsA, 1 .. Len(new) - 1, Moves(p[1], new)')
      /\ Tracks(q.returnsB, 1 .. Len(new) - 1, Moves(p[2], new)')
  BY <1>1, <1>2, <1>4, <1>5, <1>6, SideTracks, Capacities
<1>8. QED
  BY <1>7 DEF MovesInv

\* Between two snapshots both symbols have ticked and the interval has passed.
LEMMA ApartStep ==
  ASSUME IInv, NEW t \in Tick, OnTick(t), NEW n \in Nat, n = Len(ticks), NEW p \in Pairs
  PROVE  ApartInv(p)'
<1> PICK A, B : Seen(p, t, A, B)
  BY DEF Seen
<1> PICK old, new, s, q : old = taken[p] /\ new = taken'[p] /\ s = corr[p] /\ q = corr'[p]
  OBVIOUS
<1>1. /\ IF TakesSnapshot(p, t) THEN Takes(s, p, t, q, A, B) ELSE Passes(s, p, t, q, A, B)
      /\ new = IF TakesSnapshot(p, t) THEN Append(old, n + 1) ELSE old
      /\ old \in Seq(1 .. n)
  BY PairStep
<1>2. TypeOK /\ ticks' = Append(ticks, t)
  BY DEF IInv, OnTick
<1>3. /\ DOMAIN ticks = 1 .. n /\ \A i \in 1 .. n : ticks'[i] = ticks[i]
      /\ ticks'[n + 1] = t
  BY <1>2, TickMore
<1>4. ASSUME NEW i \in 1 .. n, NEW j \in 1 .. n, Apart(p, i, j) PROVE Apart(p, i, j)'
  <2>1. \A k \in i + 1 .. j : k \in 1 .. n
    OBVIOUS
  <2>2. ticks'[i] = ticks[i] /\ ticks'[j] = ticks[j] /\ \A k \in i + 1 .. j : ticks'[k] = ticks[k]
    BY <1>3, <2>1
  <2>3. QED
    BY <1>4, <2>2, Zenon DEF Apart
<1>5. Len(old) \in Nat /\ \A k \in 1 .. Len(old) : old[k] \in 1 .. n
  BY <1>1, ElementOfSeq, LenProperties
<1>6. \A k \in 1 .. Len(old) - 1 : Apart(p, old[k], old[k + 1])
  BY DEF IInv, ApartInv
<1>7. ASSUME NEW k \in 1 .. Len(old) - 1 PROVE Apart(p, old[k], old[k + 1])'
  <2>1. PICK i, j \in 1 .. n : i = old[k] /\ j = old[k + 1]
    <3>1. k \in 1 .. Len(old) /\ k + 1 \in 1 .. Len(old)
      BY <1>5
    <3>2. QED
      BY <1>5, <3>1
  <2>2. Apart(p, i, j)'
    BY <1>4, <1>6, <2>1
  <2>3. QED
    BY <2>1, <2>2
<1>8. ASSUME NEW k \in 1 .. Len(new) - 1 PROVE Apart(p, new[k], new[k + 1])'
  <2>1. CASE new = old
    BY <1>7, <2>1
  <2>2. CASE TakesSnapshot(p, t)
    <3>1. /\ Len(new) = Len(old) + 1 /\ new[Len(old) + 1] = n + 1
          /\ \A i \in 1 .. Len(old) : new[i] = old[i]
      <4>1. 1 .. n \subseteq Int
        OBVIOUS
      <4>2. old \in Seq(Int) /\ n + 1 \in Int
        BY <1>1, <4>1, SeqMonotonic
      <4>3. QED
        BY <1>1, <2>2, <4>2, AppendProperties
    <3>2. CASE k \in 1 .. Len(old) - 1
      <4>1. k \in 1 .. Len(old) /\ k + 1 \in 1 .. Len(old)
        BY <1>5, <3>2
      <4>2. new[k] = old[k] /\ new[k + 1] = old[k + 1]
        BY <3>1, <4>1
      <4>3. QED
        BY <1>7, <3>2, <4>2
    <3>3. CASE k = Len(old)
      <4>1. k \in 1 .. Len(old) /\ old # <<>>
        BY <1>5, <3>1, <3>3
      <4>2. PICK i \in 1 .. n : i = old[k] /\ SnapshotOf(p, i)
        BY <1>3, <3>3, <4>1 DEF IInv, SnapshotInv
      <4>3. new[k] = i /\ new[k + 1] = n + 1
        BY <3>1, <3>3, <4>1, <4>2
      <4>4. s.snapshotAt # Never
        BY <4>1 DEF IInv, FirstInv
      <4>5. /\ s.updatedA \/ t.symbol = p[1]
            /\ s.updatedB \/ t.symbol = p[2]
            /\ t.at - s.snapshotAt >= SampleInterval
        BY <1>1, <2>2, <4>4 DEF Takes
      <4>6. \A x \in {p[1], p[2]} : Renewed(x, i) \/ t.symbol = x
        BY <4>2, <4>5 DEF SnapshotOf
      <4>7. ASSUME NEW x \in {p[1], p[2]} PROVE \E j \in i + 1 .. n + 1 : ticks'[j].symbol = x
        <5>1. CASE t.symbol = x
          <6>1. n + 1 \in i + 1 .. n + 1
            BY <4>2
          <6>2. QED
            BY <1>3, <5>1, <6>1
        <5>2. CASE Renewed(x, i)
          <6>1. PICK j \in 1 .. n : i < j /\ ticks[j].symbol = x
            BY <1>3, <5>2 DEF Renewed
          <6>2. j \in i + 1 .. n + 1 /\ ticks'[j] = ticks[j]
            BY <1>3, <4>2, <6>1
          <6>3. QED
            BY <6>1, <6>2
        <5>3. QED
          BY <4>6, <4>7, <5>1, <5>2
      <4>8. ticks'[n + 1].at - ticks'[i].at >= SampleInterval
        BY <1>3, <4>2, <4>5 DEF SnapshotOf
      <4>9. QED
        BY <4>3, <4>7, <4>8 DEF Apart
    <3>4. QED
      BY <1>5, <3>1, <3>2, <3>3
  <2>3. QED
    BY <1>1, <2>1, <2>2
<1>9. QED
  BY <1>8 DEF ApartInv
\* A ring of volumes gets the tick when it is one of its own.
LEMMA RingTracks ==
  ASSUME TypeOK, NEW t \in Tick, ticks' = Append(ticks, t), NEW n \in Nat, n = Len(ticks),
         NEW s, NEW sides, NEW c \in Nat \ {0}, NEW r \in RingOf(c),
         NEW q, q = IF t.symbol = s /\ t.side \in sides THEN Push(r, t.at, t.volume) ELSE r,
         Tracks(r, Own(s, sides), Entries)
  PROVE  Tracks(q, Own(s, sides)', Entries')
<1>1. /\ DOMAIN ticks = 1 .. n /\ DOMAIN ticks' = 1 .. n + 1
      /\ \A i \in 1 .. n : ticks'[i] = ticks[i]
      /\ ticks'[n + 1] = t
  BY TickMore
<1>2. PICK own, after, old, new, at, volume :
        /\ own = Own(s, sides) /\ after = Own(s, sides)' /\ old = Entries /\ new = Entries'
        /\ at = t.at /\ volume = t.volume
  OBVIOUS
<1>3. own \in SUBSET (1 .. n) /\ Tracks(r, own, old)
  BY <1>1, <1>2 DEF Own
<1>4. \A j : j \in 1 .. n + 1 <=> j \in 1 .. n \/ j = n + 1
  OBVIOUS
<1>5. \A i \in own : new[i] = old[i]
  <2>1. \A i \in 1 .. n : Entries'[i] = Entries[i]
    BY <1>1, <1>4 DEF Entries
  <2>2. QED
    BY <1>2, <1>3, <2>1
<1>6. new[n + 1] = [at |-> at, value |-> volume]
  BY <1>1, <1>2, <1>4 DEF Entries
<1>7. after = IF t.symbol = s /\ t.side \in sides THEN own \cup {n + 1} ELSE own
  <2>1. \A j : j \in after <=> j \in own \/ (j = n + 1 /\ t.symbol = s /\ t.side \in sides)
    BY <1>1, <1>2, <1>4, Zenon DEF Own
  <2>2. QED
    BY <2>1
<1>8. at \in Int /\ volume \in Int
  BY <1>2 DEF Tick
<1>9. CASE t.symbol = s /\ t.side \in sides
  <2>1. q = Push(r, at, volume)
    BY <1>2, <1>9
  <2>2. Tracks(q, own \cup {n + 1}, new)
    BY <1>3, <1>5, <1>6, <1>8, <2>1, PushTracks
  <2>3. QED
    BY <1>2, <1>7, <1>9, <2>2
<1>10. CASE ~(t.symbol = s /\ t.side \in sides)
  BY <1>2, <1>3, <1>5, <1>7, <1>10 DEF Tracks
<1>11. QED
  BY <1>9, <1>10

\* What the two detectors of a symbol make of a tick.
LEMMA SymbolStep ==
  ASSUME TypeOK, NEW t \in Tick, OnTick(t), NEW s \in Symbol
  PROVE  /\ spike'[s] \in SpikeState /\ flow'[s] \in FlowState
         /\ spike'[s].short = IF t.symbol = s THEN Push(spike[s].short, t.at, t.volume)
                              ELSE spike[s].short
         /\ spike'[s].long = IF t.symbol = s THEN Push(spike[s].long, t.at, t.volume)
                             ELSE spike[s].long
         /\ flow'[s].buys = IF t.symbol = s /\ t.side = "buy"
                            THEN Push(flow[s].buys, t.at, t.volume) ELSE flow[s].buys
         /\ flow'[s].sells = IF t.symbol = s /\ t.side = "sell"
                             THEN Push(flow[s].sells, t.at, t.volume) ELSE flow[s].sells
<1>1. t.symbol \in Symbol
  BY DEF Tick
<1>2. spike \in [Symbol -> SpikeState] /\ flow \in [Symbol -> FlowState]
  BY DEF TypeOK
<1>3. /\ spike' = [spike EXCEPT ![t.symbol] = SpikeOnTick(t).state]
      /\ flow' = [flow EXCEPT ![t.symbol] = FlowOnTick(t).state]
  BY DEF OnTick
<1>4. CASE t.symbol = s
  <2>1. spike'[s] = SpikeOnTick(t).state /\ flow'[s] = FlowOnTick(t).state
    BY <1>2, <1>3, <1>4
  <2>2. spike'[s] = Result(SpikePush(spike[s], t), SpikeFires(SpikePush(spike[s], t), t), t).state
    BY <1>4, <2>1 DEF SpikeOnTick
  <2>3. flow'[s] = Result(FlowPush(flow[s], t), FlowFires(FlowPush(flow[s], t), t), t).state
    BY <1>4, <2>1 DEF FlowOnTick
  <2>4. spike[s] \in SpikeState /\ flow[s] \in FlowState
    BY <1>2
  <2>5. /\ spike'[s] \in SpikeState
        /\ spike'[s].short = Push(spike[s].short, t.at, t.volume)
        /\ spike'[s].long = Push(spike[s].long, t.at, t.volume)
    BY <2>2, <2>4, SpikeFields
  <2>6. /\ flow'[s] \in FlowState
        /\ flow'[s].buys = IF t.side = "buy" THEN Push(flow[s].buys, t.at, t.volume)
                           ELSE flow[s].buys
        /\ flow'[s].sells = IF t.side = "sell" THEN Push(flow[s].sells, t.at, t.volume)
                            ELSE flow[s].sells
    BY <2>3, <2>4, FlowFields
  <2>7. QED
    BY <1>4, <2>5, <2>6
<1>5. CASE t.symbol # s
  <2>1. spike'[s] = spike[s] /\ flow'[s] = flow[s]
    BY <1>2, <1>3, <1>5
  <2>2. QED
    BY <1>2, <1>5, <2>1
<1>6. QED
  BY <1>4, <1>5

LEMMA RingsStep ==
  ASSUME IInv, NEW t \in Tick, OnTick(t), NEW n \in Nat, n = Len(ticks)
  PROVE  RingsInv'
<1> SUFFICES ASSUME NEW s \in Symbol
    PROVE /\ Tracks(spike'[s].short, Own(s, AnySide)', Entries')
          /\ Tracks(spike'[s].long, Own(s, AnySide)', Entries')
          /\ Tracks(flow'[s].buys, Own(s, {"buy"})', Entries')
          /\ Tracks(flow'[s].sells, Own(s, {"sell"})', Entries')
  BY DEF RingsInv
<1>1. TypeOK /\ ticks' = Append(ticks, t)
  BY DEF IInv, OnTick
<1>2. spike[s] \in SpikeState /\ flow[s] \in FlowState
  BY <1>1 DEF TypeOK
<1>3. /\ spike[s].short \in RingOf(ShortCap) /\ spike[s].long \in RingOf(LongCap)
      /\ flow[s].buys \in RingOf(FlowCap) /\ flow[s].sells \in RingOf(FlowCap)
  BY <1>2 DEF SpikeState, FlowState
<1>4. /\ Tracks(spike[s].short, Own(s, AnySide), Entries)
      /\ Tracks(spike[s].long, Own(s, AnySide), Entries)
      /\ Tracks(flow[s].buys, Own(s, {"buy"}), Entries)
      /\ Tracks(flow[s].sells, Own(s, {"sell"}), Entries)
  BY DEF IInv, RingsInv
<1>5. t.side \in AnySide
  BY DEF Tick
<1>6. Tracks(spike'[s].short, Own(s, AnySide)', Entries')
  BY <1>1, <1>3, <1>4, <1>5, SymbolStep, RingTracks, Capacities
<1>7. Tracks(spike'[s].long, Own(s, AnySide)', Entries')
  BY <1>1, <1>3, <1>4, <1>5, SymbolStep, RingTracks, Capacities
<1>8. Tracks(flow'[s].buys, Own(s, {"buy"})', Entries')
  BY <1>1, <1>3, <1>4, SymbolStep, RingTracks, Capacities, SMTT(30)
<1>9. Tracks(flow'[s].sells, Own(s, {"sell"})', Entries')
  BY <1>1, <1>3, <1>4, SymbolStep, RingTracks, Capacities, SMTT(30)
<1>10. QED
  BY <1>6, <1>7, <1>8, <1>9

LEMMA TypeStep ==
  ASSUME IInv, NEW t \in Tick, OnTick(t), Len(ticks) < MaxTick
  PROVE  TypeOK'
<1>1. TypeOK /\ ticks' = Append(ticks, t)
  BY DEF IInv, OnTick
<1>2. PICK n \in Nat : n = Len(ticks)
  BY <1>1, TickMore
<1>3. spike' \in [Symbol -> SpikeState] /\ flow' \in [Symbol -> FlowState]
  <2>1. /\ \A s \in Symbol : spike'[s] \in SpikeState /\ flow'[s] \in FlowState
    BY <1>1, SymbolStep
  <2>2. DOMAIN spike = Symbol /\ DOMAIN flow = Symbol
    BY <1>1 DEF TypeOK
  <2>3. /\ spike' = [s \in Symbol |-> spike'[s]] /\ flow' = [s \in Symbol |-> flow'[s]]
    BY <2>2 DEF OnTick
  <2>4. QED
    BY <2>1, <2>3
<1>4. ASSUME NEW p \in Pairs
      PROVE  /\ corr'[p] \in CorrState /\ taken'[p] \in Seq(1 .. n + 1)
             /\ corr'[p].snapshotAt # Never
                  => corr'[p].snapshotA # NoPrice /\ corr'[p].snapshotB # NoPrice
  <2>1. PICK A, B : Seen(p, t, A, B)
    BY DEF Seen
  <2>2. /\ corr'[p] \in CorrState
        /\ IF TakesSnapshot(p, t) THEN Takes(corr[p], p, t, corr'[p], A, B)
                                  ELSE Passes(corr[p], p, t, corr'[p], A, B)
        /\ taken'[p] \in Seq(1 .. n + 1)
    BY <1>2, <2>1, PairStep
  <2>3. corr[p].snapshotAt # Never => corr[p].snapshotA # NoPrice /\ corr[p].snapshotB # NoPrice
    BY <1>1 DEF TypeOK
  <2>4. QED
    BY <2>2, <2>3 DEF Takes, Passes
<1>5. corr' \in [Pairs -> CorrState]
  <2>1. corr' = [p \in Pairs |-> corr'[p]]
    BY DEF OnTick
  <2>2. QED
    BY <1>4, <2>1
<1>6. /\ ticks' \in Seq(Tick) /\ Len(ticks') <= MaxTick /\ DOMAIN ticks' = 1 .. n + 1
  <2>1. MaxTick \in Nat
    BY DetectorsAssumption, Zenon
  <2>2. QED
    BY <1>1, <1>2, <2>1, TickMore
<1>7. DOMAIN taken' = Pairs
  BY DEF OnTick
<1>8. QED
  BY <1>3, <1>4, <1>5, <1>6, <1>7 DEF TypeOK

(***************************************************************************)
(* The theorems.                                                           *)
(***************************************************************************)

\* The invariant is inductive: the types, the rings, and what each pair knows.
THEOREM Invariance == Spec => []IInv
<1>1. Init => IInv
  BY InitIInv
<1>2. ASSUME IInv, [Next]_vars PROVE IInv'
  <2>1. CASE Next
    <3>1. TypeOK
      BY <1>2 DEF IInv
    <3>2. Len(ticks) < MaxTick
      BY <2>1, <3>1, NextTicks
    <3>3. PICK t \in Tick : OnTick(t)
      BY <2>1, <3>1, NextTicks
    <3>4. PICK n \in Nat : n = Len(ticks)
      BY <3>1 DEF TypeOK
    <3>5. TypeOK'
      BY <1>2, <3>2, <3>3, TypeStep
    <3>6. RingsInv'
      BY <1>2, <3>3, <3>4, RingsStep
    <3>7. \A p \in Pairs : FirstInv(p)' /\ SnapshotInv(p)' /\ MovesInv(p)' /\ ApartInv(p)'
      BY <1>2, <3>3, <3>4, FirstStep, SnapshotStep, MovesStep, ApartStep
    <3>8. ASSUME NEW p \in Pairs PROVE LatestInv(p)'
      <4>1. PICK A, B : Seen(p, t, A, B)
        BY DEF Seen
      <4>2. /\ corr'[p].latestA = A /\ corr'[p].latestB = B
            /\ LatestPrice(p[1], n + 1)' = A /\ LatestPrice(p[2], n + 1)' = B
        BY <1>2, <3>3, <3>4, <4>1, PairStep
      <4>3. Len(ticks') = n + 1
        BY <3>1, <3>3, <3>4, TickMore DEF OnTick
      <4>4. QED
        BY <4>2, <4>3 DEF LatestInv
    <3>9. QED
      BY <3>5, <3>6, <3>7, <3>8 DEF IInv
  <2>2. CASE UNCHANGED vars
    <3>1. spike' = spike /\ flow' = flow /\ corr' = corr /\ ticks' = ticks /\ taken' = taken
      BY <2>2 DEF vars
    <3>2. TypeOK'
      BY <1>2, <3>1 DEF IInv, TypeOK
    <3>3. RingsInv'
      BY <1>2, <3>1, Zenon DEF IInv, RingsInv, Own, Entries
    <3>4. ASSUME NEW p \in Pairs
          PROVE  LatestInv(p)' /\ FirstInv(p)' /\ SnapshotInv(p)' /\ MovesInv(p)' /\ ApartInv(p)'
      <4>1. LatestInv(p) /\ FirstInv(p) /\ SnapshotInv(p) /\ MovesInv(p) /\ ApartInv(p)
        BY <1>2 DEF IInv
      <4>2. LatestInv(p)'
        BY <3>1, <4>1, Zenon DEF LatestInv, LatestPrice
      <4>3. \A s, i : LatestPrice(s, i)' = LatestPrice(s, i)
        <5> SUFFICES ASSUME NEW s, NEW i PROVE LatestPrice(s, i)' = LatestPrice(s, i)
          OBVIOUS
        <5> DEFINE own == {j \in 1 .. i : ticks[j].symbol = s}
                   new == {j \in 1 .. i : ticks'[j].symbol = s}
        <5>1. LatestPrice(s, i)' = IF new = {} THEN NoPrice
                                   ELSE ticks'[CHOOSE j \in new : \A k \in new : k <= j].price
          BY Zenon DEF LatestPrice
        <5>2. LatestPrice(s, i) = IF own = {} THEN NoPrice
                                  ELSE ticks[CHOOSE j \in own : \A k \in own : k <= j].price
          BY Zenon DEF LatestPrice
        <5>3. new = own
          BY <3>1, Zenon
        <5> HIDE DEF own, new
        <5>4. QED
          BY <3>1, <5>1, <5>2, <5>3
      <4>4. \A s, i : Renewed(s, i)' <=> Renewed(s, i)
        BY <3>1, Zenon DEF Renewed
      <4>5. FirstInv(p)'
        <5>1. \A i : BothKnown(p, i)' <=> BothKnown(p, i)
          BY <4>3 DEF BothKnown
        <5>2. QED
          BY <3>1, <4>1, <5>1 DEF FirstInv
      <4>6. SnapshotInv(p)'
        <5>1. \A i : SnapshotOf(p, i)' <=> SnapshotOf(p, i)
          BY <3>1, <4>3, <4>4 DEF SnapshotOf
        <5>2. QED
          BY <3>1, <4>1, <5>1 DEF SnapshotInv
      <4>7. MovesInv(p)'
        <5>1. \A s, snaps : Moves(s, snaps)' = Moves(s, snaps)
          BY <3>1, <4>3, Zenon DEF Moves, Between
        <5>2. QED
          BY <3>1, <4>1, <5>1 DEF MovesInv
      <4>8. ApartInv(p)'
        BY <3>1, <4>1, Zenon DEF ApartInv, Apart
      <4>9. QED
        BY <4>2, <4>5, <4>6, <4>7, <4>8
    <3>5. QED
      BY <3>2, <3>3, <3>4 DEF IInv
  <2>3. QED
    BY <1>2, <2>1, <2>2
<1>3. QED
  BY <1>1, <1>2, PTL DEF Spec
LEMMA ExactWhenTracked ==
  ASSUME TypeOK, NEW c \in Nat \ {0}, NEW r \in RingOf(c), NEW s, NEW sides, NEW window,
         Tracks(r, Own(s, sides), Entries)
  PROVE  Exact(r, Own(s, sides), window)
<1>1. PICK n, own : /\ n \in Nat /\ n = Len(ticks) /\ DOMAIN ticks = 1 .. n
                    /\ own = Own(s, sides) /\ own \in SUBSET (1 .. n)
  <2>1. Len(ticks) \in Nat /\ DOMAIN ticks = 1 .. Len(ticks)
    BY LenProperties DEF TypeOK
  <2>2. Own(s, sides) \in SUBSET (1 .. Len(ticks))
    BY <2>1 DEF Own
  <2>3. QED
    BY <2>1, <2>2
<1>2. r.cap = c /\ r.count \in 0 .. c
  BY DEF RingOf
<1>3. Tracks(r, own, Entries) /\ Holds(r, Cardinality(own))
  BY <1>1 DEF Tracks
<1>4. ASSUME NEW i \in own, NEW k, k = FromEnd(own, i), k <= c
      PROVE  /\ \A m \in k .. r.count :
                  Recent(r, m)[m + 1 - k] = [at |-> ticks[i].at, value |-> ticks[i].volume]
             /\ r.count + 1 - k \in InWindow(r, Last - window) <=> ticks[i].at > Last - window
  <2>1. k \in 1 .. Cardinality(own) /\ Cardinality(own) \in Nat
    BY <1>1, <1>4, CountFromEnd
  <2>2. k \in 1 .. r.count
    BY <1>2, <1>3, <1>4, <2>1 DEF Holds
  <2>3. Entries[i] = [at |-> ticks[i].at, value |-> ticks[i].volume]
    BY <1>1, <1>4 DEF Entries
  <2>4. \A m \in k .. r.count : Recent(r, m)[m + 1 - k] = Entries[i]
    <3> SUFFICES ASSUME NEW m \in k .. r.count PROVE Recent(r, m)[m + 1 - k] = Entries[i]
      OBVIOUS
    <3>1. m \in 1 .. r.count /\ k \in 1 .. m
      BY <1>2, <2>2
    <3>2. Recent(r, m)[m + 1 - k] = r.entries[Start(r, k)]
      BY <3>1, NthNewest
    <3>3. r.entries[Start(r, k)] = Entries[i]
      BY <1>2, <1>3, <1>4 DEF Tracks
    <3>4. QED
      BY <3>2, <3>3
  <2>5. r.count \in k .. r.count /\ r.count + 1 - k \in 1 .. r.count
    BY <1>2, <2>2
  <2>6. Recent(r, r.count)[r.count + 1 - k].at = ticks[i].at
    BY <2>3, <2>4, <2>5
  <2>7. QED
    BY <2>3, <2>4, <2>5, <2>6, Zenon DEF InWindow, After
<1>5. QED
  BY <1>1, <1>2, <1>3, <1>4, Zenon DEF Exact

\* What a detector reads from its rings is the last ticks of its symbol and side, and those
\* inside the window (Recent, SumSince in ringbuffer.go), whatever the capacities.
THEOREM WindowsExactHolds == Spec => []WindowsExact
<1>1. ASSUME IInv PROVE WindowsExact
  <2>1. TypeOK
    BY <1>1 DEF IInv
  <2>2. ASSUME NEW s \in Symbol
        PROVE  /\ Exact(spike[s].short, Own(s, AnySide), ShortWindow)
               /\ Exact(spike[s].long, Own(s, AnySide), LongWindow)
               /\ Exact(flow[s].buys, Own(s, {"buy"}), FlowWindow)
               /\ Exact(flow[s].sells, Own(s, {"sell"}), FlowWindow)
    <3>1. spike[s] \in SpikeState /\ flow[s] \in FlowState
      BY <2>1 DEF TypeOK
    <3>2. /\ spike[s].short \in RingOf(ShortCap) /\ spike[s].long \in RingOf(LongCap)
          /\ flow[s].buys \in RingOf(FlowCap) /\ flow[s].sells \in RingOf(FlowCap)
      BY <3>1 DEF SpikeState, FlowState
    <3>3. /\ Tracks(spike[s].short, Own(s, AnySide), Entries)
          /\ Tracks(spike[s].long, Own(s, AnySide), Entries)
          /\ Tracks(flow[s].buys, Own(s, {"buy"}), Entries)
          /\ Tracks(flow[s].sells, Own(s, {"sell"}), Entries)
      BY <1>1 DEF IInv, RingsInv
    <3>4. QED
      BY <2>1, <3>2, <3>3, ExactWhenTracked, Capacities
  <2>3. QED
    BY <2>1, <2>2 DEF WindowsExact
<1>2. QED
  BY <1>1, Invariance, PTL

LEMMA TilesWhenTracked ==
  ASSUME NEW c \in Nat \ {0}, NEW r \in RingOf(c), NEW s, NEW snaps, NEW N \in Nat,
         Len(snaps) = N + 1, Tracks(r, 1 .. Len(snaps) - 1, Moves(s, snaps))
  PROVE  Tiles(r, s, snaps)
<1>1. r.cap = c /\ r.count \in 0 .. c
  BY DEF RingOf
<1>2. Len(snaps) - 1 = N
  OBVIOUS
<1>3. IsFiniteSet(1 .. N) /\ Cardinality(1 .. N) = N
  BY FS_Interval
<1>4. /\ Holds(r, N)
      /\ \A i \in 1 .. N : FromEnd(1 .. N, i) <= c
                           => r.entries[Start(r, FromEnd(1 .. N, i))] = Moves(s, snaps)[i]
  BY <1>1, <1>2, <1>3 DEF Tracks
<1>5. ASSUME NEW n \in 1 .. r.count, NEW k \in 1 .. n
      PROVE  Recent(r, n)[n + 1 - k]
               = Between(s, snaps[Len(snaps) - k], snaps[Len(snaps) + 1 - k])
  <2>1. k <= c /\ k <= N
    BY <1>1, <1>4 DEF Holds
  <2>2. PICK i \in 1 .. N : i = N + 1 - k
    BY <1>5, <2>1
  <2>3. FromEnd(1 .. N, i) = k
    <3>1. {j \in 1 .. N : j >= i} = i .. N
      OBVIOUS
    <3>2. Cardinality(i .. N) = N - i + 1
      BY FS_Interval
    <3>3. N - i + 1 = k
      BY <1>5, <2>2
    <3>4. QED
      BY <3>1, <3>2, <3>3 DEF FromEnd
  <2>4. Recent(r, n)[n + 1 - k] = r.entries[Start(r, k)]
    BY NthNewest
  <2>5. r.entries[Start(r, k)] = Moves(s, snaps)[i]
    BY <1>4, <2>1, <2>2, <2>3
  <2>6. Moves(s, snaps)[i] = Between(s, snaps[i], snaps[i + 1])
    BY <1>2, <2>2 DEF Moves
  <2>7. Len(snaps) - k = i /\ Len(snaps) + 1 - k = i + 1
    BY <1>5, <2>2
  <2>8. QED
    BY <2>4, <2>5, <2>6, <2>7
<1>6. QED
  BY <1>2, <1>4, <1>5 DEF Tiles

\* The samples of every pair tile the history of its prices (the OnTick of correlation.go),
\* whatever the capacity and the interval.
THEOREM SamplesTileHolds == Spec => []SamplesTile
<1>1. ASSUME IInv PROVE SamplesTile
  <2> SUFFICES ASSUME NEW p \in Pairs, NEW snaps, snaps = taken[p]
      PROVE /\ \A i \in DOMAIN ticks : BothKnown(p, i) => snaps # <<>> /\ snaps[1] <= i
            /\ snaps # <<>> =>
                 /\ BothKnown(p, snaps[1])
                 /\ Tiles(corr[p].returnsA, p[1], snaps)
                 /\ Tiles(corr[p].returnsB, p[2], snaps)
            /\ \A k \in 1 .. Len(snaps) - 1 : Apart(p, snaps[k], snaps[k + 1])
    BY DEF SamplesTile
  <2>1. TypeOK /\ FirstInv(p) /\ MovesInv(p) /\ ApartInv(p)
    BY <1>1 DEF IInv
  <2>2. /\ \A i \in DOMAIN ticks : BothKnown(p, i) => snaps # <<>> /\ snaps[1] <= i
        /\ snaps # <<>> => BothKnown(p, snaps[1])
    BY <2>1 DEF FirstInv
  <2>3. \A k \in 1 .. Len(snaps) - 1 : Apart(p, snaps[k], snaps[k + 1])
    BY <2>1 DEF ApartInv
  <2>4. ASSUME snaps # <<>>
        PROVE  Tiles(corr[p].returnsA, p[1], snaps) /\ Tiles(corr[p].returnsB, p[2], snaps)
    <3>1. PICK N \in Nat : Len(snaps) = N + 1
      <4>1. snaps \in Seq(DOMAIN ticks)
        BY <2>1 DEF TypeOK
      <4>2. Len(snaps) \in Nat /\ Len(snaps) # 0
        BY <2>4, <4>1, EmptySeq, LenProperties
      <4>3. Len(snaps) - 1 \in Nat /\ Len(snaps) = (Len(snaps) - 1) + 1
        BY <4>2
      <4>4. QED
        BY <4>3
    <3>2. /\ Tracks(corr[p].returnsA, 1 .. Len(snaps) - 1, Moves(p[1], snaps))
          /\ Tracks(corr[p].returnsB, 1 .. Len(snaps) - 1, Moves(p[2], snaps))
      BY <2>1 DEF MovesInv
    <3>3. corr[p] \in CorrState
      BY <2>1 DEF TypeOK
    <3>4. corr[p].returnsA \in RingOf(ReturnCap) /\ corr[p].returnsB \in RingOf(ReturnCap)
      BY <3>3 DEF CorrState
    <3>5. QED
      BY <3>1, <3>2, <3>4, Capacities, TilesWhenTracked
  <2>5. QED
    BY <2>2, <2>3, <2>4
<1>2. QED
  BY <1>1, Invariance, PTL
(***************************************************************************)
(* What Welford's steps compute.  A sum and an accumulator are looked at   *)
(* after each of the up to four samples; Share is what the mean takes of a *)
(* sum, and Term what C, M2X and M2Y are of sums.                          *)
(***************************************************************************)
TotalOf(total, x, n) ==
  total = [i \in 0 .. n |-> IF i = 0 THEN 0 ELSE total[i - 1] + x[i]]

Nought == [meanX |-> 0, meanY |-> 0, C |-> 0, M2X |-> 0, M2Y |-> 0]

WelfordOf(acc, xs, ys, n) ==
  acc = [i \in 0 .. n |-> IF i = 0 THEN Nought ELSE WelfordStep(acc[i - 1], xs[i], ys[i], i)]

Share(k) == Scale \div k
Term(k, sumX, sumY, sumXY) == Scale * Share(k) * (k * sumXY - sumX * sumY)

LEMMA TotalExists ==
  ASSUME NEW n \in 1 .. 4, NEW x
  PROVE  \E total : TotalOf(total, x, n) /\ Total(x, n) = total[n]
<1> DEFINE a == 0 + x[1]
           b == a + x[2]
           c == b + x[3]
           d == c + x[4]
           t == [i \in 0 .. n |-> IF i = 0 THEN 0 ELSE IF i = 1 THEN a ELSE IF i = 2 THEN b
                                  ELSE IF i = 3 THEN c ELSE d]
<1>1. t = [i \in 0 .. n |-> IF i = 0 THEN 0 ELSE t[i - 1] + x[i]]
  <2>1. \A i \in 0 .. n : t[i] = IF i = 0 THEN 0 ELSE t[i - 1] + x[i]
    <3>1. /\ t[0] = 0 /\ t[1] = a
          /\ 2 <= n => t[2] = b
          /\ 3 <= n => t[3] = c
          /\ 4 <= n => t[4] = d
      OBVIOUS
    <3> HIDE DEF t
    <3>2. /\ t[1] = t[0] + x[1]
          /\ 2 <= n => t[2] = t[1] + x[2]
          /\ 3 <= n => t[3] = t[2] + x[3]
          /\ 4 <= n => t[4] = t[3] + x[4]
      BY <3>1
    <3>3. ASSUME NEW i \in 0 .. n PROVE t[i] = IF i = 0 THEN 0 ELSE t[i - 1] + x[i]
      <4>1. i \in {0, 1, 2, 3, 4} /\ i <= n
        OBVIOUS
      <4>2. 1 - 1 = 0 /\ 2 - 1 = 1 /\ 3 - 1 = 2 /\ 4 - 1 = 3
        OBVIOUS
      <4>3. QED
        BY <3>1, <3>2, <4>1, <4>2
    <3>4. QED
      BY <3>3
  <2>2. DOMAIN t = 0 .. n /\ t = [i \in 0 .. n |-> t[i]]
    OBVIOUS
  <2> HIDE DEF t
  <2>3. QED
    BY <2>1, <2>2
<1> HIDE DEF t
<1>2. \E total : TotalOf(total, x, n)
  BY <1>1 DEF TotalOf
<1> DEFINE total == CHOOSE total : TotalOf(total, x, n)
<1>3. TotalOf(total, x, n)
  BY <1>2, Zenon
<1>4. Total(x, n) = total[n]
  BY DEF Total, TotalOf
<1>5. QED
  BY <1>3, <1>4, Zenon

LEMMA WelfordExists ==
  ASSUME NEW xs, NEW ys, Len(xs) \in 1 .. 4
  PROVE  \E acc : WelfordOf(acc, xs, ys, Len(xs)) /\ Welford(xs, ys) = acc[Len(xs)]
<1>1. PICK n \in 1 .. 4 : n = Len(xs)
  OBVIOUS
<1> DEFINE a == WelfordStep(Nought, xs[1], ys[1], 1)
           b == WelfordStep(a, xs[2], ys[2], 2)
           c == WelfordStep(b, xs[3], ys[3], 3)
           d == WelfordStep(c, xs[4], ys[4], 4)
           t == [i \in 0 .. n |-> IF i = 0 THEN Nought ELSE IF i = 1 THEN a
                                  ELSE IF i = 2 THEN b ELSE IF i = 3 THEN c ELSE d]
<1>2. t = [i \in 0 .. n |-> IF i = 0 THEN Nought ELSE WelfordStep(t[i - 1], xs[i], ys[i], i)]
  <2>1. \A i \in 0 .. n : t[i] = IF i = 0 THEN Nought
                                 ELSE WelfordStep(t[i - 1], xs[i], ys[i], i)
    <3>1. /\ t[0] = Nought /\ t[1] = a
          /\ 2 <= n => t[2] = b
          /\ 3 <= n => t[3] = c
          /\ 4 <= n => t[4] = d
      OBVIOUS
    <3> HIDE DEF t
    <3>2. /\ t[1] = WelfordStep(t[0], xs[1], ys[1], 1)
          /\ 2 <= n => t[2] = WelfordStep(t[1], xs[2], ys[2], 2)
          /\ 3 <= n => t[3] = WelfordStep(t[2], xs[3], ys[3], 3)
          /\ 4 <= n => t[4] = WelfordStep(t[3], xs[4], ys[4], 4)
      <4>1. 2 <= n \/ ~(2 <= n)
        OBVIOUS
      <4>2. (3 <= n => 2 <= n) /\ (4 <= n => 3 <= n)
        OBVIOUS
      <4>3. QED
        BY <3>1, <4>2
    <3>3. ASSUME NEW i \in 0 .. n
          PROVE  t[i] = IF i = 0 THEN Nought ELSE WelfordStep(t[i - 1], xs[i], ys[i], i)
      <4>1. i \in {0, 1, 2, 3, 4} /\ i <= n
        OBVIOUS
      <4>2. 1 - 1 = 0 /\ 2 - 1 = 1 /\ 3 - 1 = 2 /\ 4 - 1 = 3
        OBVIOUS
      <4>3. QED
        BY <3>1, <3>2, <4>1, <4>2
    <3>4. QED
      BY <3>3
  <2>2. DOMAIN t = 0 .. n /\ t = [i \in 0 .. n |-> t[i]]
    OBVIOUS
  <2> HIDE DEF t
  <2>3. QED
    BY <2>1, <2>2
<1> HIDE DEF t
<1>3. \E acc : WelfordOf(acc, xs, ys, n)
  BY <1>2 DEF WelfordOf
<1> DEFINE acc == CHOOSE acc : WelfordOf(acc, xs, ys, n)
<1>4. WelfordOf(acc, xs, ys, n)
  BY <1>3, Zenon
<1>5. Welford(xs, ys) = acc[n]
  BY <1>1 DEF Welford, WelfordOf, Nought
<1>6. \E total : WelfordOf(total, xs, ys, n) /\ Welford(xs, ys) = total[n]
  BY <1>4, <1>5, Zenon
<1>7. QED
  BY <1>6, <1>1

Grown(k, s, t, p, x, y) ==
  Term(k - 1, s, t, p) + (x * Scale - Share(k - 1) * s) * (y * Scale - Share(k) * (t + y))

\* After the samples 1 to k, of the sums a, b, p, q and r of x, y, x * y, x * x and y * y.
Textbook(w, k, a, b, p, q, r) ==
  /\ w.meanX = Share(k) * a /\ w.meanY = Share(k) * b
  /\ w.C = Term(k, a, b, p) /\ w.M2X = Term(k, a, a, q) /\ w.M2Y = Term(k, b, b, r)

LEMMA TextbookStep ==
  ASSUME NEW k \in 2 .. 4, NEW a \in Int, NEW b \in Int, NEW p \in Int, NEW q \in Int,
         NEW r \in Int, NEW x \in Int, NEW y \in Int,
         NEW w, Textbook(w, k - 1, a, b, p, q, r), NEW next, next = WelfordStep(w, x, y, k)
  PROVE  Textbook(next, k, a + x, b + y, p + x * y, q + x * x, r + y * y)
<1>1. PICK dx, dy, meanX, meanY :
        /\ dx = x * Scale - Share(k - 1) * a /\ dy = y * Scale - Share(k - 1) * b
        /\ meanX = Share(k) * (a + x) /\ meanY = Share(k) * (b + y)
  OBVIOUS
<1>2. /\ w.meanX = Share(k - 1) * a /\ w.meanY = Share(k - 1) * b
      /\ w.C = Term(k - 1, a, b, p) /\ w.M2X = Term(k - 1, a, a, q)
      /\ w.M2Y = Term(k - 1, b, b, r)
  BY DEF Textbook
<1>3. w.meanX + dx \div k = meanX /\ w.meanY + dy \div k = meanY
  <2>1. ASSUME NEW sum \in Int, NEW v \in Int,
               NEW mean, mean = Share(k - 1) * sum
        PROVE  mean + (v * Scale - mean) \div k = Share(k) * (sum + v)
    <3>1. CASE k = 2
      BY <2>1, <3>1 DEF Share, Scale
    <3>2. CASE k = 3
      BY <2>1, <3>2 DEF Share, Scale
    <3>3. CASE k = 4
      BY <2>1, <3>3 DEF Share, Scale
    <3>4. QED
      BY <3>1, <3>2, <3>3
  <2>2. w.meanX + (x * Scale - w.meanX) \div k = Share(k) * (a + x)
    <3>1. PICK mean : mean = w.meanX
      OBVIOUS
    <3>2. mean = Share(k - 1) * a
      BY <1>2, <3>1
    <3>3. mean + (x * Scale - mean) \div k = Share(k) * (a + x)
      BY <2>1, <3>2
    <3>4. QED
      BY <3>1, <3>3
  <2>3. w.meanY + (y * Scale - w.meanY) \div k = Share(k) * (b + y)
    <3>1. PICK mean : mean = w.meanY
      OBVIOUS
    <3>2. mean = Share(k - 1) * b
      BY <1>2, <3>1
    <3>3. mean + (y * Scale - mean) \div k = Share(k) * (b + y)
      BY <2>1, <3>2
    <3>4. QED
      BY <3>1, <3>3
  <2>4. QED
    BY <1>1, <1>2, <2>2, <2>3
<1>4. WelfordStep(w, x, y, k)
        = [meanX |-> meanX, meanY |-> meanY,
           C |-> w.C + dx * (y * Scale - meanY),
           M2X |-> w.M2X + dx * (x * Scale - meanX),
           M2Y |-> w.M2Y + dy * (y * Scale - meanY)]
  <2>1. dx = x * Scale - w.meanX /\ dy = y * Scale - w.meanY
    BY <1>1, <1>2
  <2>2. QED
    BY <1>3, <2>1 DEF WelfordStep, Delta
<1>5. ASSUME NEW s \in Int, NEW t \in Int, NEW u \in Int, NEW v \in Int, NEW z \in Int
      PROVE  Grown(k, s, t, u, v, z) = Term(k, s + v, t + z, u + v * z)
  <2>1. PICK sx, sy, st, tx, xy \in Int : /\ sx = s * v /\ sy = s * z /\ st = s * t /\ tx = t * v
                                          /\ xy = v * z
    OBVIOUS
  <2>2. (s + v) * (t + z) = st + sy + tx + xy
    BY <2>1
  <2>3. CASE k = 2
    BY <1>5, <2>1, <2>2, <2>3 DEF Grown, Term, Share, Scale
  <2>4. CASE k = 3
    BY <1>5, <2>1, <2>2, <2>4 DEF Grown, Term, Share, Scale
  <2>5. CASE k = 4
    BY <1>5, <2>1, <2>2, <2>5 DEF Grown, Term, Share, Scale
  <2>6. QED
    BY <2>3, <2>4, <2>5
<1>6. w.C + dx * (y * Scale - meanY) = Term(k, a + x, b + y, p + x * y)
  <2>1. Grown(k, a, b, p, x, y) = Term(k, a + x, b + y, p + x * y)
    BY <1>5, SMTT(30)
  <2>2. Grown(k, a, b, p, x, y) = w.C + dx * (y * Scale - meanY)
    BY <1>1, <1>2 DEF Grown
  <2>3. QED
    BY <2>1, <2>2
<1>7. w.M2X + dx * (x * Scale - meanX) = Term(k, a + x, a + x, q + x * x)
  <2>1. Grown(k, a, a, q, x, x) = Term(k, a + x, a + x, q + x * x)
    BY <1>5, SMTT(30)
  <2>2. Grown(k, a, a, q, x, x) = w.M2X + dx * (x * Scale - meanX)
    BY <1>1, <1>2 DEF Grown
  <2>3. QED
    BY <2>1, <2>2
<1>8. w.M2Y + dy * (y * Scale - meanY) = Term(k, b + y, b + y, r + y * y)
  <2>1. Grown(k, b, b, r, y, y) = Term(k, b + y, b + y, r + y * y)
    BY <1>5, SMTT(30)
  <2>2. Grown(k, b, b, r, y, y) = w.M2Y + dy * (y * Scale - meanY)
    BY <1>1, <1>2 DEF Grown
  <2>3. QED
    BY <2>1, <2>2
<1>9. QED
  BY <1>1, <1>4, <1>6, <1>7, <1>8 DEF Textbook

LEMMA WelfordIsTextbook ==
  ASSUME NEW n \in 1 .. 4, NEW xs \in [1 .. n -> Int], NEW ys \in [1 .. n -> Int],
         NEW a, TotalOf(a, xs, n), NEW b, TotalOf(b, ys, n),
         NEW p, TotalOf(p, [i \in 1 .. n |-> xs[i] * ys[i]], n),
         NEW q, TotalOf(q, [i \in 1 .. n |-> xs[i] * xs[i]], n),
         NEW r, TotalOf(r, [i \in 1 .. n |-> ys[i] * ys[i]], n),
         NEW acc, WelfordOf(acc, xs, ys, n)
  PROVE  /\ a[n] \in Int /\ b[n] \in Int /\ p[n] \in Int /\ q[n] \in Int /\ r[n] \in Int
         /\ Textbook(acc[n], n, a[n], b[n], p[n], q[n], r[n])
<1> DEFINE Ints(k) == a[k] \in Int /\ b[k] \in Int /\ p[k] \in Int /\ q[k] \in Int /\ r[k] \in Int
           Known(k) == Ints(k) /\ Textbook(acc[k], k, a[k], b[k], p[k], q[k], r[k])
<1>1. /\ a[0] = 0 /\ b[0] = 0 /\ p[0] = 0 /\ q[0] = 0 /\ r[0] = 0 /\ acc[0] = Nought
      /\ \A k \in 1 .. n :
           /\ a[k] = a[k - 1] + xs[k] /\ b[k] = b[k - 1] + ys[k]
           /\ p[k] = p[k - 1] + xs[k] * ys[k]
           /\ q[k] = q[k - 1] + xs[k] * xs[k] /\ r[k] = r[k - 1] + ys[k] * ys[k]
           /\ acc[k] = WelfordStep(acc[k - 1], xs[k], ys[k], k)
  <2>1. \A total, x : TotalOf(total, x, n)
          => total[0] = 0 /\ \A k \in 1 .. n : total[k] = total[k - 1] + x[k]
    BY DEF TotalOf
  <2>2. acc[0] = Nought /\ \A k \in 1 .. n : acc[k] = WelfordStep(acc[k - 1], xs[k], ys[k], k)
    BY SMTT(30) DEF WelfordOf
  <2>3. a[0] = 0 /\ \A k \in 1 .. n : a[k] = a[k - 1] + xs[k]
    BY <2>1
  <2>4. b[0] = 0 /\ \A k \in 1 .. n : b[k] = b[k - 1] + ys[k]
    BY <2>1
  <2>5. p[0] = 0 /\ \A k \in 1 .. n : p[k] = p[k - 1] + xs[k] * ys[k]
    <3>1. PICK x : x = [i \in 1 .. n |-> xs[i] * ys[i]]
      OBVIOUS
    <3>2. TotalOf(p, x, n) /\ \A k \in 1 .. n : x[k] = xs[k] * ys[k]
      BY <3>1
    <3>3. QED
      BY <2>1, <3>2
  <2>6. q[0] = 0 /\ \A k \in 1 .. n : q[k] = q[k - 1] + xs[k] * xs[k]
    <3>1. PICK x : x = [i \in 1 .. n |-> xs[i] * xs[i]]
      OBVIOUS
    <3>2. TotalOf(q, x, n) /\ \A k \in 1 .. n : x[k] = xs[k] * xs[k]
      BY <3>1
    <3>3. QED
      BY <2>1, <3>2
  <2>7. r[0] = 0 /\ \A k \in 1 .. n : r[k] = r[k - 1] + ys[k] * ys[k]
    <3>1. PICK x : x = [i \in 1 .. n |-> ys[i] * ys[i]]
      OBVIOUS
    <3>2. TotalOf(r, x, n) /\ \A k \in 1 .. n : x[k] = ys[k] * ys[k]
      BY <3>1
    <3>3. QED
      BY <2>1, <3>2
  <2>8. QED
    BY <2>2, <2>3, <2>4, <2>5, <2>6, <2>7
<1>2. Known(1)
  <2>1. 1 \in 1 .. n /\ 1 - 1 = 0
    OBVIOUS
  <2>2. PICK x, y \in Int : x = xs[1] /\ y = ys[1]
    BY <2>1
  <2>3. /\ a[1] = x /\ b[1] = y /\ p[1] = x * y /\ q[1] = x * x /\ r[1] = y * y
        /\ acc[1] = WelfordStep(Nought, x, y, 1)
    <3>1. PICK k \in 1 .. n : k = 1 /\ k - 1 = 0
      BY <2>1
    <3>2. /\ a[k] = a[k - 1] + xs[k] /\ b[k] = b[k - 1] + ys[k]
          /\ p[k] = p[k - 1] + xs[k] * ys[k]
          /\ q[k] = q[k - 1] + xs[k] * xs[k] /\ r[k] = r[k - 1] + ys[k] * ys[k]
          /\ acc[k] = WelfordStep(acc[k - 1], xs[k], ys[k], k)
      BY <1>1
    <3>3. /\ a[1] = 0 + x /\ b[1] = 0 + y /\ p[1] = 0 + x * y /\ q[1] = 0 + x * x
          /\ r[1] = 0 + y * y /\ acc[1] = WelfordStep(Nought, x, y, 1)
      BY <1>1, <2>2, <3>1, <3>2
    <3>4. \A v \in Int : 0 + v = v
      OBVIOUS
    <3>5. x * y \in Int /\ x * x \in Int /\ y * y \in Int
      OBVIOUS
    <3>6. QED
      BY <3>3, <3>4, <3>5
  <2>4. WelfordStep(Nought, x, y, 1)
          = [meanX |-> 12 * x, meanY |-> 12 * y, C |-> 0, M2X |-> 0, M2Y |-> 0]
    BY DEF WelfordStep, Nought, Delta, Scale
  <2>5. Textbook(acc[1], 1, x, y, x * y, x * x, y * y)
    BY <2>3, <2>4 DEF Textbook, Term, Share, Scale
  <2>6. QED
    BY <2>3, <2>5
<1>3. ASSUME NEW k \in 2 .. n, Known(k - 1) PROVE Known(k)
  <2>1. k \in 2 .. 4 /\ k \in 1 .. n /\ xs[k] \in Int /\ ys[k] \in Int
    <3>1. k \in 2 .. 4 /\ k \in 1 .. n
      OBVIOUS
    <3>2. QED
      BY <3>1
  <2>2. PICK x, y, s, t, u, v, z, w :
          /\ x = xs[k] /\ y = ys[k] /\ s = a[k - 1] /\ t = b[k - 1] /\ u = p[k - 1]
          /\ v = q[k - 1] /\ z = r[k - 1] /\ w = acc[k - 1]
    OBVIOUS
  <2>3. /\ x \in Int /\ y \in Int /\ s \in Int /\ t \in Int /\ u \in Int /\ v \in Int /\ z \in Int
        /\ Textbook(w, k - 1, s, t, u, v, z)
    BY <1>3, <2>1, <2>2
  <2>4. Textbook(WelfordStep(w, x, y, k), k, s + x, t + y, u + x * y, v + x * x, z + y * y)
    BY <2>1, <2>3, TextbookStep
  <2>5. /\ a[k] = s + x /\ b[k] = t + y /\ p[k] = u + x * y /\ q[k] = v + x * x
        /\ r[k] = z + y * y /\ acc[k] = WelfordStep(w, x, y, k)
    BY <1>1, <2>1, <2>2
  <2>6. Ints(k)
    BY <2>3, <2>5
  <2>7. QED
    BY <2>4, <2>5, <2>6
<1> HIDE DEF Known
<1>4. /\ Known(1) /\ (2 <= n => Known(2)) /\ (3 <= n => Known(3)) /\ (4 <= n => Known(4))
  <2>1. 2 <= n => Known(2)
    BY <1>2, <1>3
  <2>2. 3 <= n => Known(3)
    BY <1>3, <2>1
  <2>3. 4 <= n => Known(4)
    BY <1>3, <2>2
  <2>4. QED
    BY <1>2, <2>1, <2>2, <2>3
<1>5. Known(n)
  <2>1. n \in {1, 2, 3, 4}
    OBVIOUS
  <2>2. QED
    BY <1>4, <2>1
<1>6. QED
  BY <1>5 DEF Known

\* Of up to four samples, whatever integers they are, Welford's terms are the textbook's.
LEMMA WelfordExact ==
  ASSUME NEW n \in 1 .. 4, NEW xs \in [1 .. n -> Int], NEW ys \in [1 .. n -> Int]
  PROVE  LET w == Welford(xs, ys)
         IN  /\ n * w.C = Scale * Scale * Cross(xs, ys)
             /\ n * w.M2X = Scale * Scale * Cross(xs, xs)
             /\ n * w.M2Y = Scale * Scale * Cross(ys, ys)
<1>1. Len(xs) = n /\ Len(ys) = n
  <2>1. n \in Nat /\ xs \in Seq(Int) /\ ys \in Seq(Int)
    BY SeqDef
  <2>2. DOMAIN xs = 1 .. n /\ DOMAIN ys = 1 .. n
    OBVIOUS
  <2>3. QED
    BY <2>1, <2>2, LenProperties
<1>2. PICK a : TotalOf(a, xs, n) /\ Total(xs, n) = a[n]
  BY TotalExists
<1>3. PICK b : TotalOf(b, ys, n) /\ Total(ys, n) = b[n]
  BY TotalExists
<1>4. PICK p : /\ TotalOf(p, [i \in 1 .. n |-> xs[i] * ys[i]], n)
               /\ Total([i \in 1 .. n |-> xs[i] * ys[i]], n) = p[n]
  BY TotalExists
<1>5. PICK q : /\ TotalOf(q, [i \in 1 .. n |-> xs[i] * xs[i]], n)
               /\ Total([i \in 1 .. n |-> xs[i] * xs[i]], n) = q[n]
  BY TotalExists
<1>6. PICK r : /\ TotalOf(r, [i \in 1 .. n |-> ys[i] * ys[i]], n)
               /\ Total([i \in 1 .. n |-> ys[i] * ys[i]], n) = r[n]
  BY TotalExists
<1>7. PICK acc : WelfordOf(acc, xs, ys, n) /\ Welford(xs, ys) = acc[n]
  <2>1. Len(xs) \in 1 .. 4
    BY <1>1
  <2>2. \E acc : WelfordOf(acc, xs, ys, Len(xs)) /\ Welford(xs, ys) = acc[Len(xs)]
    BY <2>1, WelfordExists
  <2>3. QED
    BY <1>1, <2>2
<1>8. PICK w : w = Welford(xs, ys)
  OBVIOUS
<1>9. /\ a[n] \in Int /\ b[n] \in Int /\ p[n] \in Int /\ q[n] \in Int /\ r[n] \in Int
      /\ Textbook(w, n, a[n], b[n], p[n], q[n], r[n])
  BY <1>2, <1>3, <1>4, <1>5, <1>6, <1>7, <1>8, WelfordIsTextbook
<1>10. /\ Cross(xs, ys) = n * p[n] - a[n] * b[n]
       /\ Cross(xs, xs) = n * q[n] - a[n] * a[n]
       /\ Cross(ys, ys) = n * r[n] - b[n] * b[n]
  BY <1>1, <1>2, <1>3, <1>4, <1>5, <1>6 DEF Cross
<1>11. ASSUME NEW s \in Int, NEW t \in Int, NEW u \in Int
       PROVE  n * Term(n, s, t, u) = Scale * Scale * (n * u - s * t)
  <2>1. PICK z \in Int : z = n * u - s * t
    OBVIOUS
  <2>2. n \in {1, 2, 3, 4} /\ Term(n, s, t, u) = Scale * Share(n) * z
    BY <2>1 DEF Term
  <2>3. n * (Scale * Share(n) * z) = Scale * Scale * z
    <3>1. CASE n = 1
      BY <2>1, <3>1 DEF Share, Scale
    <3>2. CASE n = 2
      BY <2>1, <3>2 DEF Share, Scale
    <3>3. CASE n = 3
      BY <2>1, <3>3 DEF Share, Scale
    <3>4. CASE n = 4
      BY <2>1, <3>4 DEF Share, Scale
    <3>5. QED
      BY <2>2, <3>1, <3>2, <3>3, <3>4
  <2>4. QED
    BY <2>1, <2>2, <2>3
<1>12. /\ n * w.C = Scale * Scale * Cross(xs, ys)
       /\ n * w.M2X = Scale * Scale * Cross(xs, xs)
       /\ n * w.M2Y = Scale * Scale * Cross(ys, ys)
  <2>1. /\ w.C = Term(n, a[n], b[n], p[n]) /\ w.M2X = Term(n, a[n], a[n], q[n])
        /\ w.M2Y = Term(n, b[n], b[n], r[n])
    BY <1>9 DEF Textbook
  <2>2. n * Term(n, a[n], b[n], p[n]) = Scale * Scale * (n * p[n] - a[n] * b[n])
    BY <1>9, <1>11
  <2>3. n * Term(n, a[n], a[n], q[n]) = Scale * Scale * (n * q[n] - a[n] * a[n])
    BY <1>9, <1>11
  <2>4. n * Term(n, b[n], b[n], r[n]) = Scale * Scale * (n * r[n] - b[n] * b[n])
    BY <1>9, <1>11
  <2>5. QED
    BY <1>10, <2>1, <2>2, <2>3, <2>4
<1>13. QED
  BY <1>8, <1>12

\* The correlation of correlation.go's pearson is computed from the textbook's terms.
THEOREM PearsonExactHolds == Spec => []PearsonExact
<1>1. PearsonExact
  <2>1. -1 .. 1 \subseteq Int
    OBVIOUS
  <2>2. ASSUME NEW n \in 1 .. 4, NEW xs \in [1 .. n -> -1 .. 1], NEW ys \in [1 .. n -> -1 .. 1]
        PROVE  xs \in [1 .. n -> Int] /\ ys \in [1 .. n -> Int]
    BY <2>1
  <2>3. QED
    BY <2>2, WelfordExact DEF PearsonExact
<1>2. QED
  BY <1>1, PTL
=============================================================================
