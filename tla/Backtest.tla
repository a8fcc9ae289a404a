------------------------------ MODULE Backtest ------------------------------
(***************************************************************************)
(* The backtest engine (backtest.go): four strategies that turn a series   *)
(* of closing prices into a list of buys and sells, the Python harness     *)
(* with the presets of the page (index.html), and computeResult.  All of   *)
(* it is a function of the closes; module LiveStrategy trades on them.     *)
(*                                                                         *)
(* Bar i is index i-1 of the code.  A strategy's parameters are the        *)
(* constants: the live signals and the presets use the same ones (the      *)
(* backtest's defaults).  Dates, which follow the bars, are left out.      *)
(*                                                                         *)
(* An operator marked "bug" is used nowhere: it puts a plausible error in  *)
(* the definition below it, to show that a property would notice.          *)
(***************************************************************************)
EXTENDS Indicators, FiniteSets, SequencesExt

CONSTANTS
  Fast, Slow,            \* crossovers: 9 and 21 in the code
  Period,                \* RSI: 14 in the code
  Oversold, Overbought,  \* 30 and 70 in the code
  BandPeriod, StdDevs,   \* Bollinger: 20 and 2 in the code
  Lookback, HoldBars,    \* breakout: 20 and 10 in the code
  ForwardBars,           \* forwardDays: 5 in the code
  PriceUnit              \* a multiple of every price, to count returns in

ASSUME BacktestAssumption ==
  /\ {Fast, Slow, Period, BandPeriod, StdDevs, Lookback, HoldBars} \subseteq Nat \ {0}
  /\ Fast < Slow /\ {ForwardBars, PriceUnit} \subseteq Nat \ {0}
  /\ {Oversold, Overbought} \subseteq 0 .. 100 /\ Oversold <= Overbought

(***************************************************************************)
(* The loop that the strategies and the harness share.  A trade is a bar   *)
(* and a kind; inPosition is whether the last one is a buy, and its bar is *)
(* entryBar.                                                               *)
(***************************************************************************)
TradeEvent(i, kind) == [bar |-> i, kind |-> kind]
Held(events) == events # <<>> /\ Last(events).kind = "buy"

AfterBar(events, i, buys, sells) ==
  IF ~Held(events) /\ buys THEN Append(events, TradeEvent(i, "buy"))
  ELSE IF Held(events) /\ sells THEN Append(events, TradeEvent(i, "sell"))
  ELSE events

\* buys are the bars that buy, sells[entry] those that sell what was bought at bar entry;
\* the loop begins at the first of them.
Trade(n, buys, sells) ==
  LET events[i \in 0 .. n] ==
        IF i = 0 THEN <<>>
        ELSE LET before == events[i - 1]
             IN  AfterBar(before, i, i \in buys, i \in sells[Last(before).bar])
  IN  events[n]

\* A strategy that does not ask when it bought.
TradeSignals(n, buys, sells) == Trade(n, buys, [entry \in 1 .. n |-> sells])

(***************************************************************************)
(* The strategies.  Each is an error without enough bars, here no trade.   *)
(***************************************************************************)
Averages(closes, period, useEMA) ==
  IF useEMA THEN computeEMA(closes, period)
            ELSE [i \in DOMAIN closes |-> barSMA(closes, i, period)]

runCrossover(closes, useEMA) ==
  LET n == Len(closes)
      bars == Slow + 2 .. n
      fast == Averages(closes, Fast, useEMA)
      slow == Averages(closes, Slow, useEMA)
      Above(i) == Less(slow[i], fast[i])
  IN  TradeSignals(n, {i \in bars : ~Above(i - 1) /\ Above(i)},
                      {i \in bars : Above(i - 1) /\ ~Above(i)})

runRSI(closes) ==
  LET n == Len(closes)
      bars == Period + 2 .. n
      rsi == computeRSI(closes, Period)
  IN  TradeSignals(n, {i \in bars : ~Equal(rsi[i], Zero) /\ Less(rsi[i], <<Oversold, 1>>)},
                      {i \in bars : Less(<<Overbought, 1>>, rsi[i])})

runBollinger(closes) ==
  LET n == Len(closes)
      band == computeBollinger(closes, BandPeriod, StdDevs)
      bars == {i \in BandPeriod + 1 .. n : ~LowerIsZero(band[i])}
  IN  TradeSignals(n, {i \in bars : BelowLower(closes[i], band[i], BandPeriod)},
                      {i \in bars : AboveMiddle(closes[i], band[i], BandPeriod)})

\* Bar i closes above the Lookback bars before it.
BreaksOut(closes, i) == \A j \in i - Lookback .. i - 1 : closes[j] < closes[i]

HeldLongerThan(i, entry) == i > entry + HoldBars            \* bug: one bar too long
HeldLong(i, entry) == i >= entry + HoldBars

runBreakout(closes) ==
  LET n == Len(closes)
      bars == Lookback + 1 .. n
  IN  Trade(n, {i \in bars : BreaksOut(closes, i)},
            [entry \in 1 .. n |-> {i \in bars : HeldLong(i, entry)}])

(***************************************************************************)
(* The harness drives the on_bar of a program over all bars, with the      *)
(* position it holds; here the programs that the page offers, "custom" the *)
(* one it opens with.  The averages of the EMA program begin with the      *)
(* first price.                                                            *)
(***************************************************************************)
Preset == {"custom", "sma_crossover", "ema_crossover", "rsi_mean_reversion",
           "bollinger_bands", "breakout"}

FromFirst(closes, period) ==
  LET ema[i \in DOMAIN closes] ==
        IF i = 1 THEN <<closes[1], 1>> ELSE Smoothed(ema[i - 1], closes[i], period)
  IN  ema

Crosses(first, n, fast, slow) ==
  TradeSignals(n, {i \in first .. n : Less(slow[i], fast[i])},
                  {i \in first .. n : Less(fast[i], slow[i])})

harness(code, closes) ==
  LET n == Len(closes)
      fast == Averages(closes, Fast, FALSE)
      slow == Averages(closes, Slow, FALSE)
      rsi == computeRSI(closes, Period)
      valued == Period + 2 .. n
      band == computeBollinger(closes, BandPeriod, StdDevs)
      banded == BandPeriod .. n
      after == Lookback + 1 .. n
  IN  CASE code = "custom" -> Crosses(Slow + 1, n, fast, slow)
        [] code = "sma_crossover" -> Crosses(Slow, n, fast, slow)
        [] code = "ema_crossover" ->
             Crosses(Slow + 1, n, FromFirst(closes, Fast), FromFirst(closes, Slow))
        [] code = "rsi_mean_reversion" ->
             TradeSignals(n, {i \in valued : Less(rsi[i], <<Oversold, 1>>)},
                             {i \in valued : Less(<<Overbought, 1>>, rsi[i])})
        [] code = "bollinger_bands" ->
             TradeSignals(n, {i \in banded : BelowLower(closes[i], band[i], BandPeriod)},
                             {i \in banded : AboveMiddle(closes[i], band[i], BandPeriod)})
        [] code = "breakout" ->
             Trade(n, {i \in after : BreaksOut(closes, i)},
                   [entry \in 1 .. n |-> {i \in after : i - entry >= HoldBars}])

(***************************************************************************)
(* btPearson, of the samples xs[i] and ys[i]: the numerator and the square *)
(* of the denominator of the coefficient, with deviations times n.         *)
(***************************************************************************)
btPearson(xs, ys) ==
  LET n == Cardinality(DOMAIN xs)
      sumX == SumFunction(xs)
      sumY == SumFunction(ys)
      dx == [i \in DOMAIN xs |-> n * xs[i] - sumX]
      dy == [i \in DOMAIN ys |-> n * ys[i] - sumY]
      SumOf(a, b) == SumFunction([i \in DOMAIN a |-> a[i] * b[i]])
  IN  IF n < 2 \/ SumOf(dx, dx) = 0 \/ SumOf(dy, dy) = 0 THEN Zero
      ELSE <<SumOf(dx, dy), SumOf(dx, dx) * SumOf(dy, dy)>>

(***************************************************************************)
(* computeResult.  Money grows by the price of each sell over the price of *)
(* its buy, and by the last close over the price of an open buy.  The      *)
(* result keeps the trades, wins and buys of the win rate, and the         *)
(* correlation between being a buy and the forward return, from bar        *)
(* warmup + 1 on.                                                          *)
(***************************************************************************)
ForwardReturn(closes, i) ==
  ((closes[i + ForwardBars] - closes[i]) * PriceUnit) \div closes[i]
HasForward(closes, i) == i + ForwardBars <= Len(closes)

Growth(closes, from, to) == <<closes[to], closes[from]>>

OpenForgotten(events, closes, product) == product           \* bug: open position left out
WithOpen(events, closes, product) ==
  IF Len(events) % 2 = 1 /\ Held(events)
    THEN Times(product, Growth(closes, Last(events).bar, Len(closes)))
    ELSE product

stratReturn(events, closes) ==
  LET product[k \in 0 .. Len(events) \div 2] ==
        IF k = 0 THEN <<1, 1>>
        ELSE IF events[2 * k - 1].kind = "buy" /\ events[2 * k].kind = "sell"
               THEN Times(product[k - 1],
                          Growth(closes, events[2 * k - 1].bar, events[2 * k].bar))
               ELSE product[k - 1]
  IN  WithOpen(events, closes, product[Len(events) \div 2])

computeResult(events, closes, warmup) ==
  LET buys == {e.bar : e \in {x \in Range(events) : x.kind = "buy"}}
      counted == {i \in buys : HasForward(closes, i)}
      sample == warmup + 1 .. Len(closes) - ForwardBars
  IN  [signals |-> events,
       stratReturn |-> stratReturn(events, closes),
       wins |-> Cardinality({i \in counted : ForwardReturn(closes, i) > 0}),
       buys |-> Cardinality(counted),
       correlation |-> btPearson([i \in sample |-> IF i \in buys THEN 1 ELSE 0],
                                 [i \in sample |-> ForwardReturn(closes, i)])]

(***************************************************************************)
(* The entry points: a strategy of the code, or a program in the harness.  *)
(* Each with the warmup it hands to computeResult.                         *)
(***************************************************************************)
Events(strategy, code, closes) ==
  CASE strategy = "sma_crossover" -> runCrossover(closes, FALSE)
    [] strategy = "ema_crossover" -> runCrossover(closes, TRUE)
    [] strategy = "rsi_mean_reversion" -> runRSI(closes)
    [] strategy = "bollinger_bands" -> runBollinger(closes)
    [] strategy = "breakout" -> runBreakout(closes)
    [] strategy = "custom" -> harness(code, closes)

Warmup(strategy) ==
  CASE strategy \in {"sma_crossover", "ema_crossover"} -> Slow + 1
    [] strategy = "rsi_mean_reversion" -> Period + 1
    [] strategy = "bollinger_bands" -> BandPeriod
    [] strategy = "breakout" -> Lookback
    [] strategy = "custom" -> 0

handleBacktest(strategy, code, closes) ==
  computeResult(Events(strategy, code, closes), closes, Warmup(strategy))
=============================================================================
