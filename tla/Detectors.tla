------------------------------ MODULE Detectors ------------------------------
(***************************************************************************)
(* The detectors of one worker (internal/detectors): the registry hands    *)
(* each tick to volume spike, order flow imbalance and correlation         *)
(* breakdown in turn, and each keeps its state per symbol or per pair.     *)
(* The worker is one goroutine, so a tick is one step.                     *)
(*                                                                         *)
(* Volumes are integers and thresholds fractions of integers.  A price is  *)
(* given by its logarithm, an integer, so that a log-return is a           *)
(* difference; NoPrice is the price 0.  A correlation is counted in        *)
(* hundredths.  A time stamp is the exchange's: it need not grow.          *)
(*                                                                         *)
(* An operator marked "bug" is no part of Next: it puts a plausible error  *)
(* in the definition below it, to show that a property would notice.       *)
(***************************************************************************)
EXTENDS RingBuffer, FiniteSets

CONSTANTS
  Symbol,       \* the symbols traded
  Pairs,        \* the pairs of symbols whose correlation is watched
  Trade,        \* what a tick can be: its symbol, volume, side and price, and the gap
                \* between its time stamp and that of the tick before it
  MaxTick,      \* bound on the ticks handled
  NoPrice,      \* the price 0
  Never,        \* the zero time
  \* volumespike.go
  ShortCap, LongCap,       \* capacities of its rings (5_000 and 100_000 in the code)
  ShortWindow, LongWindow, \* 60 s and one hour in the code
  Multiplier,              \* 3 in the code
  SpikeHistory,            \* minHistory, five minutes in the code
  SpikeCooldown,           \* alertCooldown, 30 s in the code
  \* orderflow.go
  FlowCap,                 \* capacity of its rings (5_000 in the code)
  FlowWindow,              \* 60 s in the code
  Upper, Lower,            \* thresholds in percent (65 and 35 in the code)
  MinTicks,                \* 10 in the code
  FlowHistory,             \* 60 s in the code
  FlowCooldown,            \* 30 s in the code
  \* correlation.go
  ReturnCap,               \* capacity of its rings (20_000 in the code)
  ShortSamples,            \* 720 in the code
  MinSamples,              \* 30 in the code
  MinBaseline, Drop,       \* in hundredths (50 and 40 in the code)
  SampleInterval,          \* 5 s in the code
  CorrHistory,             \* ten minutes in the code
  CorrCooldown             \* five minutes in the code

ASSUME DetectorsAssumption ==
  /\ Pairs \subseteq {p \in Symbol \X Symbol : p[1] # p[2]}
  /\ NoPrice \notin Int /\ Never \notin Int
  /\ Trade \subseteq [symbol : Symbol, volume : Nat, side : {"buy", "sell", ""},
                      price : Int \cup {NoPrice}, gap : Int]
  /\ MaxTick \in Nat
  /\ {ShortCap, LongCap, FlowCap, ReturnCap, ShortWindow, LongWindow} \subseteq Nat \ {0}

VARIABLES
  spike,  \* VolumeSpikeDetector.symbols
  flow,   \* OrderFlowImbalanceDetector.symbols
  corr,   \* CorrelationBreakdownDetector.pairStates
  ticks,  \* history: the ticks handled so far
  taken,  \* history: for each pair, the numbers of the ticks that took a snapshot
  alerts  \* history: the alerts raised, as triples of detector, symbol or pair, time

vars == <<spike, flow, corr, ticks, taken, alerts>>

\* t.Sub(last) >= length; since the zero time is ages.
Elapsed(last, t, length) == last = Never \/ t.at - last >= length

(***************************************************************************)
(* volumespike.go.                                                         *)
(***************************************************************************)
NewSpike ==
  [short |-> NewRingBuffer(ShortCap), long |-> NewRingBuffer(LongCap),
   firstSeen |-> Never, lastAlert |-> Never]

SpikePush(s, t) ==
  [s EXCEPT !.firstSeen = IF @ = Never THEN t.at ELSE @,
            !.short = Push(@, t.at, t.volume),
            !.long = Push(@, t.at, t.volume)]

\* shortVol / ShortWindow > Multiplier * longVol / LongWindow.
SpikeFires(s, t) ==
  LET shortVol == SumSince(s.short, t.at, ShortWindow)
      longVol == SumSince(s.long, t.at, LongWindow)
  IN  /\ t.at - s.firstSeen >= SpikeHistory
      /\ longVol # 0
      /\ shortVol * LongWindow > Multiplier * longVol * ShortWindow
      /\ Elapsed(s.lastAlert, t, SpikeCooldown)

(***************************************************************************)
(* orderflow.go.                                                           *)
(***************************************************************************)
NewFlow ==
  [buys |-> NewRingBuffer(FlowCap), sells |-> NewRingBuffer(FlowCap),
   totalTicks |-> 0, firstSeen |-> Never, lastAlert |-> Never]

FlowPush(s, t) ==
  [s EXCEPT !.firstSeen = IF @ = Never THEN t.at ELSE @,
            !.totalTicks = @ + 1,
            !.buys = IF t.side = "buy" THEN Push(@, t.at, t.volume) ELSE @,
            !.sells = IF t.side = "sell" THEN Push(@, t.at, t.volume) ELSE @]

\* A total below minVolume, 0.01 in the code, is no volume at all here.
FlowFires(s, t) ==
  LET buyVol == SumSince(s.buys, t.at, FlowWindow)
      total == buyVol + SumSince(s.sells, t.at, FlowWindow)
  IN  /\ s.totalTicks >= MinTicks
      /\ t.at - s.firstSeen >= FlowHistory
      /\ total > 0
      /\ 100 * buyVol >= Upper * total \/ 100 * buyVol <= Lower * total
      /\ Elapsed(s.lastAlert, t, FlowCooldown)

(***************************************************************************)
(* pearson: Welford's algorithm.  All divisors up to the length divide     *)
(* Scale, so the terms are exact integers: C, M2X and M2Y times Scale^2.   *)
(***************************************************************************)
Scale == 12  \* for up to four samples

DeltaBefore(old, new, v) == v - old                         \* bug: mean before the update
Delta(old, new, v) == v - new

WelfordStep(acc, x, y, n) ==
  LET dx == x * Scale - acc.meanX
      dy == y * Scale - acc.meanY
      meanX == acc.meanX + dx \div n
      meanY == acc.meanY + dy \div n
  IN  [meanX |-> meanX, meanY |-> meanY,
       C |-> acc.C + dx * Delta(acc.meanY, meanY, y * Scale),
       M2X |-> acc.M2X + dx * Delta(acc.meanX, meanX, x * Scale),
       M2Y |-> acc.M2Y + dy * Delta(acc.meanY, meanY, y * Scale)]

Welford(xs, ys) ==
  LET acc[n \in 0 .. Len(xs)] ==
        IF n = 0 THEN [meanX |-> 0, meanY |-> 0, C |-> 0, M2X |-> 0, M2Y |-> 0]
                 ELSE WelfordStep(acc[n - 1], xs[n], ys[n], n)
  IN  acc[Len(xs)]

\* The correlation in hundredths, rounded towards 0.
Root(k) == CHOOSE r \in 0 .. 100 : r * r <= k /\ k < (r + 1) * (r + 1)

Pearson(xs, ys) ==
  LET n == Len(xs)
      w == Welford(xs, ys)
      C == (w.C * n) \div (Scale * Scale)
      D == ((w.M2X * n) \div (Scale * Scale)) * ((w.M2Y * n) \div (Scale * Scale))
  IN  IF n < 2 \/ D <= 0 THEN 0
      ELSE (IF C < 0 THEN -1 ELSE 1) * Root((10000 * C * C) \div D)

(***************************************************************************)
(* correlation.go.  A is the first symbol of the pair, B the second.       *)
(***************************************************************************)
NewCorr ==
  [returnsA |-> NewRingBuffer(ReturnCap), returnsB |-> NewRingBuffer(ReturnCap),
   snapshotA |-> NoPrice, snapshotB |-> NoPrice, snapshotAt |-> Never,
   latestA |-> NoPrice, latestB |-> NoPrice, updatedA |-> FALSE, updatedB |-> FALSE,
   firstSeen |-> Never, lastAlert |-> Never]

CorrUpdate(s, p, t) ==
  IF t.symbol = p[1] THEN [s EXCEPT !.latestA = t.price, !.updatedA = TRUE]
                     ELSE [s EXCEPT !.latestB = t.price, !.updatedB = TRUE]

Snapshot(s, t) ==
  [s EXCEPT !.snapshotA = s.latestA, !.snapshotB = s.latestB, !.snapshotAt = t.at,
            !.updatedA = FALSE, !.updatedB = FALSE]

Priced(s) == s.latestA # NoPrice /\ s.latestB # NoPrice

First(s) == Priced(s) /\ s.snapshotAt = Never

DueAfterOne(s, t) ==                                        \* bug: one new price is enough
  Priced(s) /\ (s.updatedA \/ s.updatedB) /\ t.at - s.snapshotAt >= SampleInterval
Due(s, t) ==
  Priced(s) /\ s.updatedA /\ s.updatedB /\ t.at - s.snapshotAt >= SampleInterval

SampleOfLast(s, t) ==                                       \* bug: snapshot left alone
  [s EXCEPT !.returnsA = Push(@, t.at, s.latestA - s.snapshotA),
            !.returnsB = Push(@, t.at, s.latestB - s.snapshotB),
            !.updatedA = FALSE, !.updatedB = FALSE]
Sample(s, t) ==
  Snapshot(IF s.snapshotA # NoPrice /\ s.snapshotB # NoPrice
           THEN [s EXCEPT !.returnsA = Push(@, t.at, s.latestA - s.snapshotA),
                          !.returnsB = Push(@, t.at, s.latestB - s.snapshotB)]
           ELSE s, t)

CorrFires(s, t) ==
  LET n == s.returnsA.count
      baseline == Pearson(Slice(s.returnsA, n), Slice(s.returnsB, n))
      short == Pearson(Slice(s.returnsA, ShortSamples), Slice(s.returnsB, ShortSamples))
  IN  /\ t.at - s.firstSeen >= CorrHistory
      /\ n >= MinSamples
      /\ baseline >= MinBaseline
      /\ short < baseline - Drop
      /\ Elapsed(s.lastAlert, t, CorrCooldown)

(***************************************************************************)
(* Registry.OnTick: every detector sees every tick.  Each returns its      *)
(* state after the tick and whether it raises an alert.                    *)
(***************************************************************************)
Result(s, fires, t) ==
  [state |-> IF fires THEN [s EXCEPT !.lastAlert = t.at] ELSE s, alert |-> fires]

SpikeOnTick(t) ==
  LET s == SpikePush(spike[t.symbol], t) IN Result(s, SpikeFires(s, t), t)

FlowOnTick(t) ==
  LET s == FlowPush(flow[t.symbol], t) IN Result(s, FlowFires(s, t), t)

Concerns(p, t) == t.symbol \in {p[1], p[2]}

CorrOnTick(p, t) ==
  LET u == CorrUpdate(corr[p], p, t)
      sampled == Sample(u, t)
  IN  IF ~Concerns(p, t) THEN Result(corr[p], FALSE, t)
      ELSE IF First(u) THEN Result([Snapshot(u, t) EXCEPT !.firstSeen = t.at], FALSE, t)
      ELSE IF Due(u, t) THEN Result(sampled, CorrFires(sampled, t), t)
      ELSE Result(u, FALSE, t)

TakesSnapshot(p, t) ==
  LET u == CorrUpdate(corr[p], p, t) IN Concerns(p, t) /\ (First(u) \/ Due(u, t))

Last == IF ticks = <<>> THEN 0 ELSE ticks[Len(ticks)].at

Init ==
  /\ spike = [s \in Symbol |-> NewSpike]
  /\ flow = [s \in Symbol |-> NewFlow]
  /\ corr = [p \in Pairs |-> NewCorr]
  /\ ticks = <<>> /\ alerts = {}
  /\ taken = [p \in Pairs |-> <<>>]

OnTick(t) ==
  LET sp == SpikeOnTick(t)
      fl == FlowOnTick(t)
      co == [p \in Pairs |-> CorrOnTick(p, t)]
  IN  /\ spike' = [spike EXCEPT ![t.symbol] = sp.state]
      /\ flow' = [flow EXCEPT ![t.symbol] = fl.state]
      /\ corr' = [p \in Pairs |-> co[p].state]
      /\ ticks' = Append(ticks, t)
      /\ taken' = [p \in Pairs |-> IF TakesSnapshot(p, t) THEN Append(taken[p], Len(ticks) + 1)
                                                        ELSE taken[p]]
      /\ alerts' = alerts
           \cup (IF sp.alert THEN {<<"volume_spike", t.symbol, t.at>>} ELSE {})
           \cup (IF fl.alert THEN {<<"order_flow_imbalance", t.symbol, t.at>>} ELSE {})
           \cup {<<"correlation_breakdown", p, t.at>> : p \in {q \in Pairs : co[q].alert}}

Next ==
  /\ Len(ticks) < MaxTick
  /\ \E trade \in Trade :
       OnTick([symbol |-> trade.symbol, volume |-> trade.volume, side |-> trade.side,
               price |-> trade.price, at |-> Last + trade.gap])

Spec == Init /\ [][Next]_vars

(***************************************************************************)
(* Properties.                                                             *)
(***************************************************************************)
AnySide == {"buy", "sell", ""}
Time == Int \cup {Never}
Price == Int \cup {NoPrice}

Tick == [symbol : Symbol, volume : Nat, side : AnySide, price : Price, at : Int]

SpikeState ==
  [short : RingOf(ShortCap), long : RingOf(LongCap), firstSeen : Time, lastAlert : Time]

FlowState ==
  [buys : RingOf(FlowCap), sells : RingOf(FlowCap), totalTicks : Nat,
   firstSeen : Time, lastAlert : Time]

CorrState ==
  [returnsA : RingOf(ReturnCap), returnsB : RingOf(ReturnCap),
   snapshotA : Price, snapshotB : Price, snapshotAt : Time, latestA : Price, latestB : Price,
   updatedA : BOOLEAN, updatedB : BOOLEAN, firstSeen : Time, lastAlert : Time]

\* The types; every ring stays within its array, and a pair that has a snapshot has it of
\* two real prices.
TypeOK ==
  /\ spike \in [Symbol -> SpikeState]
  /\ flow \in [Symbol -> FlowState]
  /\ corr \in [Pairs -> CorrState]
  /\ \A p \in Pairs : corr[p].snapshotAt # Never
                       => corr[p].snapshotA # NoPrice /\ corr[p].snapshotB # NoPrice
  /\ ticks \in Seq(Tick) /\ Len(ticks) <= MaxTick
  /\ DOMAIN taken = Pairs /\ \A p \in Pairs : taken[p] \in Seq(DOMAIN ticks)

\* A ring holds as many of the things pushed as it can.
Holds(r, pushed) == r.count = IF pushed < r.cap THEN pushed ELSE r.cap

\* What a detector reads from a ring are the last ticks of its own symbol and side, as
\* many as the ring holds, in the order they came, and inside the window are those that
\* are: also when the ring has wrapped, and for ticks that came out of time order.
Own(s, sides) == {i \in DOMAIN ticks : ticks[i].symbol = s /\ ticks[i].side \in sides}
FromEnd(own, i) == Cardinality({j \in own : j >= i})

Exact(r, own, window) ==
  /\ Holds(r, Cardinality(own))
  /\ \A i \in own :
       LET k == FromEnd(own, i)
       IN  k <= r.cap =>
             /\ \A n \in k .. r.count :
                  Recent(r, n)[n + 1 - k] = [at |-> ticks[i].at, value |-> ticks[i].volume]
             /\ r.count + 1 - k \in InWindow(r, Last - window) <=> ticks[i].at > Last - window

WindowsExact ==
  /\ TypeOK
  /\ \A s \in Symbol :
       /\ Exact(spike[s].short, Own(s, AnySide), ShortWindow)
       /\ Exact(spike[s].long, Own(s, AnySide), LongWindow)
       /\ Exact(flow[s].buys, Own(s, {"buy"}), FlowWindow)
       /\ Exact(flow[s].sells, Own(s, {"sell"}), FlowWindow)

\* The samples of a pair tile its history: the first snapshot is taken by the first tick
\* that finds both prices known, and each return, taken for both symbols at once, is what
\* the price moved by from one snapshot to the next, nothing lost and nothing counted
\* twice; between the two both symbols have ticked, and the interval has passed.
LatestPrice(s, i) ==
  LET own == {j \in 1 .. i : ticks[j].symbol = s}
  IN  IF own = {} THEN NoPrice ELSE ticks[CHOOSE j \in own : \A k \in own : k <= j].price

BothKnown(p, i) == LatestPrice(p[1], i) # NoPrice /\ LatestPrice(p[2], i) # NoPrice

Between(s, i, j) ==
  [at |-> ticks[j].at, value |-> LatestPrice(s, j) - LatestPrice(s, i)]

Tiles(r, s, snaps) ==
  /\ Holds(r, Len(snaps) - 1)
  /\ \A n \in 1 .. r.count : \A k \in 1 .. n :
       Recent(r, n)[n + 1 - k]
         = Between(s, snaps[Len(snaps) - k], snaps[Len(snaps) + 1 - k])

Apart(p, i, j) ==
  /\ ticks[j].at - ticks[i].at >= SampleInterval
  /\ \A s \in {p[1], p[2]} : \E k \in i + 1 .. j : ticks[k].symbol = s

SamplesTile ==
  \A p \in Pairs :
    LET snaps == taken[p]
    IN  /\ \A i \in DOMAIN ticks : BothKnown(p, i) => snaps # <<>> /\ snaps[1] <= i
        /\ snaps # <<>> =>
             /\ BothKnown(p, snaps[1])
             /\ Tiles(corr[p].returnsA, p[1], snaps) /\ Tiles(corr[p].returnsB, p[2], snaps)
        /\ \A k \in 1 .. Len(snaps) - 1 : Apart(p, snaps[k], snaps[k + 1])

\* Welford's online terms are those of the textbook formula, for every pair of short
\* series: n times a term is n * sum(x * y) - sum(x) * sum(y).  It is about pearson alone,
\* so one state is enough to look at it.
Total(x, n) ==
  LET total[i \in 0 .. n] == IF i = 0 THEN 0 ELSE total[i - 1] + x[i]
  IN  total[n]

Cross(xs, ys) ==
  LET n == Len(xs)
  IN  n * Total([i \in 1 .. n |-> xs[i] * ys[i]], n) - Total(xs, n) * Total(ys, n)

PearsonExact ==
  ticks = <<>> => \A n \in 1 .. 4 : \A xs, ys \in [1 .. n -> -1 .. 1] :
    LET w == Welford(xs, ys)
    IN  /\ n * w.C = Scale * Scale * Cross(xs, ys)
        /\ n * w.M2X = Scale * Scale * Cross(xs, xs)
        /\ n * w.M2Y = Scale * Scale * Cross(ys, ys)

(***************************************************************************)
(* What the documentation says and the code does not do.                   *)
(***************************************************************************)

\* volumespike.go:14: minHistory makes the baseline meaningful; without it the ratio would
\* be enormous and cause false alerts.  So a flow that never changes raises no alert.
Steady ==
  \A i \in 1 .. Len(ticks) - 1 :
    /\ ticks[i + 1].at - ticks[i].at = ticks[2].at - ticks[1].at
    /\ ticks[i + 1].symbol = ticks[i].symbol /\ ticks[i + 1].volume = ticks[i].volume

SteadyFlowIsNoSpike == Steady => \A a \in alerts : a[1] # "volume_spike"
=============================================================================
