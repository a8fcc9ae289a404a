---------------------------- MODULE LiveStrategy ----------------------------
(***************************************************************************)
(* One live session's strategy and paper account (livestrategy.go): every  *)
(* tick of its goroutine reads the latest closes, the unfinished bar's     *)
(* price among them, computes a signal and applies it to the account.      *)
(* That ticks, lists and stops of sessions interleave is the matter of     *)
(* module LiveSessions; here a tick is one step, as sess.mu makes it.      *)
(*                                                                         *)
(* A price is 2^k and is given by k, so that what is bought and sold all   *)
(* at once is a sum: cash, shares and values are base-2 logarithms as      *)
(* well, of multiples of the notional 10000, and a P&L is the logarithm of *)
(* value over notional, of which the code's percentage is a growing        *)
(* function.  Nothing stands for no money and for no shares.               *)
(*                                                                         *)
(* An operator marked "bug" is no part of Next: it puts a plausible error  *)
(* in the definition below it, to show that a property would notice.       *)
(***************************************************************************)
EXTENDS Backtest

CONSTANTS
  Level,     \* the prices: logarithms
  FirstBars, \* number of bars at the exchange when the session starts
  MaxBar,    \* bound on the bars
  MaxTime,   \* bound on the ticks of the session
  Window,    \* bars that a tick asks for (200 in the code)
  MaxCurve,  \* points the equity curve keeps (2000 in the code)
  Nothing    \* no cash, no shares

ASSUME LiveStrategyAssumption ==
  /\ Level \subseteq Nat
  /\ \A k \in Level : 2 ^ k \in Nat \ {0} /\ PriceUnit % (2 ^ k) = 0
  /\ {FirstBars, MaxBar, Window, MaxCurve} \subseteq Nat \ {0} /\ FirstBars <= MaxBar
  /\ MaxTime \in Nat /\ Nothing \notin Int

VARIABLES
  strategy, \* sess.Strategy
  code,     \* sess.Code, of a custom session
  market,   \* the closes at the exchange, the last one that of the unfinished bar
  now,      \* the time: how often the session's ticker has fired
  sess      \* the rest of the session

vars == <<strategy, code, market, now, sess>>

Builtin == {"sma_crossover", "ema_crossover", "rsi_mean_reversion", "bollinger_bands",
            "breakout"}

NewSession ==
  [Position |-> "flat", EntryPrice |-> Nothing, cash |-> 0, shares |-> Nothing,
   CurrentPrice |-> Nothing, PnL |-> 0, Trades |-> 0, Signal |-> "",
   TradeHistory |-> <<>>, EquityCurve |-> <<>>]

Init ==
  /\ \/ strategy \in Builtin /\ code = ""
     \/ strategy = "custom" /\ code \in Preset
  /\ market \in [1 .. FirstBars -> Level]
  /\ now = 0
  /\ sess = NewSession

\* The latest closes, as prices.
Latest(m) ==
  LET first == IF Len(m) > Window THEN Len(m) - Window + 1 ELSE 1
  IN  [i \in 1 .. Len(m) - first + 1 |-> 2 ^ m[first + i - 1]]

(***************************************************************************)
(* The live signals: each looks at the last bar of the window only.        *)
(***************************************************************************)
liveSignalCrossover(closes, useEMA) ==
  LET n == Len(closes)
  IN  IF n < Slow + 1 THEN "hold"
      ELSE IF Less(Averages(closes, Slow, useEMA)[n], Averages(closes, Fast, useEMA)[n])
             THEN "buy" ELSE "sell"

\* The newest bar whose RSI is not 0 decides.
liveSignalRSI(closes) ==
  LET rsi == computeRSI(closes, Period)
      valued == {i \in DOMAIN closes : ~Equal(rsi[i], Zero)}
      last == rsi[CHOOSE i \in valued : \A j \in valued : j <= i]
  IN  IF valued = {} THEN "hold"
      ELSE IF Less(last, <<Oversold, 1>>) THEN "buy"
      ELSE IF Less(<<Overbought, 1>>, last) THEN "sell"
      ELSE "hold"

BandBeforeLast(closes) ==                                   \* bug: one bar behind
  computeBollinger(closes, BandPeriod, StdDevs)[Len(closes) - 1]
BandOfLast(closes) == computeBollinger(closes, BandPeriod, StdDevs)[Len(closes)]

liveSignalBollinger(closes) ==
  LET last == closes[Len(closes)]
      band == BandOfLast(closes)
  IN  IF LowerIsPositive(band) /\ BelowLower(last, band, BandPeriod) THEN "buy"
      ELSE IF UpperIsPositive(band) /\ AboveMiddle(last, band, BandPeriod) THEN "sell"
      ELSE "hold"

liveSignalBreakout(closes) ==
  IF Len(closes) >= Lookback + 1 /\ BreaksOut(closes, Len(closes)) THEN "buy" ELSE "hold"

\* The position in which the harness ends, replayed over the window.
computeCustomLiveSignal(closes) == IF Held(harness(code, closes)) THEN "buy" ELSE "sell"

computeLiveSignal(closes) ==
  CASE strategy = "sma_crossover" -> liveSignalCrossover(closes, FALSE)
    [] strategy = "ema_crossover" -> liveSignalCrossover(closes, TRUE)
    [] strategy = "rsi_mean_reversion" -> liveSignalRSI(closes)
    [] strategy = "bollinger_bands" -> liveSignalBollinger(closes)
    [] strategy = "breakout" -> liveSignalBreakout(closes)
    [] strategy = "custom" -> computeCustomLiveSignal(closes)

(***************************************************************************)
(* The account: everything is bought, and everything sold.                 *)
(***************************************************************************)
totalValue(s) == IF s.Position = "long" THEN s.shares + s.CurrentPrice ELSE s.cash

Record(s, t, kind) ==
  [s EXCEPT !.Trades = @ + 1,
            !.TradeHistory = Append(@, [T |-> t, Kind |-> kind, Price |-> s.CurrentPrice,
                                        PnL |-> totalValue(s)])]

Buy(s, t) ==
  Record([s EXCEPT !.Position = "long", !.EntryPrice = s.CurrentPrice,
                   !.shares = s.cash - s.CurrentPrice, !.cash = Nothing], t, "buy")

SellAtEntry(s, t) ==                                        \* bug: the price it was bought at
  Record([s EXCEPT !.cash = s.shares + s.EntryPrice, !.shares = Nothing,
                   !.Position = "flat"], t, "sell")
Sell(s, t) ==
  Record([s EXCEPT !.cash = s.shares + s.CurrentPrice, !.shares = Nothing,
                   !.Position = "flat"], t, "sell")

KeepOldest(curve) ==                                        \* bug: cut at the wrong end
  IF Len(curve) > MaxCurve THEN SubSeq(curve, 1, MaxCurve) ELSE curve
KeepNewest(curve) ==
  IF Len(curve) > MaxCurve THEN SubSeq(curve, Len(curve) - MaxCurve + 1, Len(curve)) ELSE curve

Mark(s, t) ==
  [s EXCEPT !.PnL = totalValue(s),
            !.EquityCurve = KeepNewest(Append(@, [T |-> t, V |-> totalValue(s)]))]

applySignal(s, signal, price, t) ==
  LET seen == [s EXCEPT !.CurrentPrice = price, !.Signal = signal]
  IN  Mark(IF signal = "buy" /\ s.Position = "flat" THEN Buy(seen, t)
           ELSE IF signal = "sell" /\ s.Position = "long" THEN Sell(seen, t)
           ELSE seen, t)

(***************************************************************************)
(* Between two ticks the unfinished bar moves to another price, or a new   *)
(* bar begins.                                                             *)
(***************************************************************************)
MarketMoves ==
  \E p \in Level :
    \/ market' = [market EXCEPT ![Len(market)] = p]
    \/ Len(market) < MaxBar /\ market' = Append(market, p)

Fires == now < MaxTime /\ now' = now + 1 /\ MarketMoves /\ UNCHANGED <<strategy, code>>

\* tick; a built-in strategy wants two bars at least.
Tick ==
  /\ Fires
  /\ LET closes == Latest(market')
     IN  /\ strategy # "custom" => Len(closes) >= 2
         /\ sess' = applySignal(sess, computeLiveSignal(closes), Last(market'), now')

\* The program fails or takes too long: the signal is to hold.
TickOfFailedProgram ==
  /\ Fires /\ strategy = "custom"
  /\ sess' = applySignal(sess, "hold", Last(market'), now')

\* Binance does not answer: tick returns.
FetchFails == Fires /\ UNCHANGED sess

Next == Tick \/ TickOfFailedProgram \/ FetchFails

Spec == Init /\ [][Next]_vars

(***************************************************************************)
(* Properties.                                                             *)
(***************************************************************************)
Prices(m) == [i \in DOMAIN m |-> 2 ^ m[i]]

Money == Int \cup {Nothing}

TradeRecord == [T : Nat, Kind : {"buy", "sell"}, Price : Level, PnL : Int]
EquityPoint == [T : Nat, V : Int]

SessionState ==
  [Position : {"flat", "long"}, EntryPrice : Money, cash : Money, shares : Money,
   CurrentPrice : Money, PnL : Int, Trades : Nat, Signal : {"", "buy", "sell", "hold"},
   TradeHistory : Seq(TradeRecord), EquityCurve : Seq(EquityPoint)]

\* The types; a time stamp is that of a tick that was, the curve is capped.
TypeOK ==
  /\ <<strategy, code>> \in (Builtin \X {""}) \cup ({"custom"} \X Preset)
  /\ market \in Seq(Level) /\ Len(market) \in FirstBars .. MaxBar /\ now \in 0 .. MaxTime
  /\ sess \in SessionState
  /\ \A k \in DOMAIN sess.TradeHistory : sess.TradeHistory[k].T \in 1 .. now
  /\ \A i \in DOMAIN sess.EquityCurve : sess.EquityCurve[i].T \in 1 .. now
  /\ Len(sess.EquityCurve) <= MaxCurve

\* What the account was worth after so many trades.
Worth(history, k) == IF k = 0 THEN 0 ELSE history[k].PnL

\* Buys and sells alternate from a buy on; a buy changes no value and a sell changes it by
\* what the price moved since the buy.
Alternate(history) ==
  \A k \in DOMAIN history :
    IF k % 2 = 1
    THEN history[k].Kind = "buy" /\ history[k].PnL = Worth(history, k - 1)
    ELSE /\ history[k].Kind = "sell"
         /\ history[k].PnL
              = Worth(history, k - 1) + history[k].Price - history[k - 1].Price

\* After n trades the account is all cash or all shares, counted at the price of the buy.
Replays(s, n) ==
  LET worth == Worth(s.TradeHistory, n)
      bought == s.TradeHistory[n].Price
  IN  /\ s.Trades = n
      /\ IF n % 2 = 1
         THEN /\ s.Position = "long" /\ s.EntryPrice = bought
              /\ s.cash = Nothing /\ s.shares = worth - bought
              /\ s.PnL = worth + s.CurrentPrice - bought
         ELSE /\ s.Position = "flat" /\ s.cash = worth /\ s.shares = Nothing
              /\ s.PnL = worth

\* The account is what its trade history says: cash and shares are what its trades leave,
\* and the value now is what the trades realised and what the price moved by since an open
\* one.
AccountIsReplay ==
  /\ TypeOK
  /\ Alternate(sess.TradeHistory)
  /\ Replays(sess, Len(sess.TradeHistory))

TradesBy(history, t) == Cardinality({k \in DOMAIN history : history[k].T <= t})

TellsTheTrades(curve, history) ==
  /\ \A i, j \in DOMAIN curve : i < j => curve[i].T < curve[j].T
  /\ history # <<>> => curve # <<>> /\ history[Len(history)].T <= curve[Len(curve)].T
  /\ \A k \in DOMAIN history :
       curve[1].T <= history[k].T =>
         \E i \in DOMAIN curve : curve[i] = [T |-> history[k].T, V |-> history[k].PnL]
  /\ \A i \in DOMAIN curve :
       LET n == TradesBy(history, curve[i].T)
       IN  n % 2 = 0 => curve[i].V = Worth(history, n)

\* The curve on the page is the newest stretch of the session's time, the latest tick at its
\* end, and tells the same story as the table of trades: every trade in that stretch lies
\* on it, and it is level while the account is flat.
CurveTellsTheTrades ==
  LET curve == sess.EquityCurve
  IN  /\ TellsTheTrades(curve, sess.TradeHistory)
      /\ curve # <<>> => curve[Len(curve)].V = sess.PnL

RSIIsZero(closes) == Equal(computeRSI(closes, Period)[Len(closes)], Zero)

\* A signal to buy or to sell puts the session where a backtest over the same bars ends, if
\* that trades at all, and a trade of the backtest on the newest bar is signalled.  Said
\* where the code follows: a breakout gives no signal to sell, so only its buys are
\* compared, and an RSI or a lower band of exactly 0 is taken for a bar without a value.
LiveFollowsBacktest ==
  [][sess' # sess =>
       LET closes == Latest(market')
           events == Events(strategy, code, closes)
           signal == sess'.Signal
           tradesNow == events # <<>> /\ Last(events).bar = Len(closes)
       IN  IF strategy = "breakout"
           THEN tradesNow /\ Held(events) => signal = "buy"
           ELSE /\ /\ events # <<>> /\ signal # "hold"
                   /\ strategy = "bollinger_bands" /\ signal = "sell"
                        => ~LowerIsZero(BandOfLast(closes))
                   /\ strategy = "rsi_mean_reversion" => ~RSIIsZero(closes)
                   => (sess'.Position = "long") = Held(events)
                /\ strategy \in Builtin /\ tradesNow => signal = Last(events).kind]_vars

\* Trades of closes m are trades of closes n as well, up to where these differ.
TradesAlike(m, events, n, others) ==
  \A k \in DOMAIN events :
    (\A i \in 1 .. events[k].bar : i \in DOMAIN n /\ n[i] = m[i])
      => k \in DOMAIN others /\ others[k] = events[k]

\* A backtest does not look ahead: what it traded up to a bar stays the same whatever comes
\* after it.
NoLookahead ==
  [][market' # market =>
       \A before \in {Events(strategy, code, Prices(market))} :
       \A after \in {Events(strategy, code, Prices(market'))} :
         /\ TradesAlike(market, before, market', after)
         /\ TradesAlike(market', after, market, before)]_vars

\* The position after bar i: the newest trade up to then is a buy.
LongAfter(events, i) ==
  \E k \in DOMAIN events :
    /\ events[k].bar <= i /\ events[k].kind = "buy"
    /\ \A j \in DOMAIN events : events[j].bar <= i => j <= k

Followed(events, closes) ==
  LET money[i \in DOMAIN closes] ==
        IF i = 1 THEN <<1, 1>>
        ELSE IF LongAfter(events, i - 1) THEN Times(money[i - 1], Growth(closes, i - 1, i))
        ELSE money[i - 1]
  IN  money

\* The return of a backtest is that of money which follows its position from bar to bar,
\* and its correlation is taken over bars that hold every buy the win rate counts: it is
\* positive exactly when these did better than the average bar.
ResultExact ==
  LET closes == Prices(market)
      n == Len(closes)
      result == handleBacktest(strategy, code, closes)
      events == result.signals
      sample == Warmup(strategy) + 1 .. n - ForwardBars
      buys == {i \in 1 .. n - ForwardBars : \E e \in Range(events) : e = TradeEvent(i, "buy")}
      Returns(S) == SumFunction([i \in S |-> ForwardReturn(closes, i)])
      better == Cardinality(sample) * Returns(buys) - Cardinality(buys) * Returns(sample)
      flat == \A i, j \in sample : ForwardReturn(closes, i) = ForwardReturn(closes, j)
  IN  /\ Equal(result.stratReturn, Followed(events, closes)[n])
      /\ buys \subseteq sample /\ result.buys = Cardinality(buys)
      /\ IF buys \in {{}, sample} \/ flat THEN result.correlation = Zero
         ELSE /\ (result.correlation[1] > 0) = (better > 0)
              /\ (result.correlation[1] < 0) = (better < 0)

\* Every step of a recursion is what the indicator's definition says: the weights of an EMA,
\* Wilder's weights in an RSI, the variance under a Bollinger band.
Power(b, n) ==
  LET power[k \in 0 .. n] == IF k = 0 THEN 1 ELSE b * power[k - 1]
  IN  power[n]

Weighted(x, seed, last, growth, decay) ==
  [i \in seed + 1 .. last |-> Power(growth, i - seed - 1) * Power(decay, last - i) * x[i]]

WeightedSum(x, seed, last, coefficient, growth, decay) ==
  Power(decay, last - seed) * SumOver(x, DOMAIN x \cap 1 .. seed)
    + coefficient * SumFunction(Weighted(x, seed, last, growth, decay))

EMAExact(closes, p) ==
  \A i \in p .. Len(closes) :
    Equal(computeEMA(closes, p)[i],
          <<WeightedSum(closes, p, i, 2 * p, p + 1, p - 1), p * Power(p + 1, i - p)>>)

RSIExact(closes, p) ==
  LET Moved(moves, i) == WeightedSum(moves, p + 1, i, p, p, p - 1)
      gains == [j \in 2 .. Len(closes) |-> Gain(closes, j)]
      losses == [j \in 2 .. Len(closes) |-> Loss(closes, j)]
  IN  \A i \in p + 1 .. Len(closes) :
        Equal(computeRSI(closes, p)[i],
              IF Moved(losses, i) = 0 THEN <<100, 1>>
              ELSE <<100 * Moved(gains, i), Moved(gains, i) + Moved(losses, i)>>)

BandExact(closes, p) ==
  \A i \in p .. Len(closes) :
    LET bars == i - p + 1 .. i
        sum == SumOver(closes, bars)
        squares == [j \in bars |-> Squared(closes[j])]
    IN  computeBollinger(closes, p, StdDevs)[i] =
          [mid |-> sum,
           spread |-> Squared(StdDevs) * (p * SumFunction(squares) - Squared(sum))]

IndicatorsExact ==
  LET closes == Prices(market)
  IN  /\ strategy = "ema_crossover" => EMAExact(closes, Fast) /\ EMAExact(closes, Slow)
      /\ strategy = "rsi_mean_reversion" => RSIExact(closes, Period)
      /\ strategy = "bollinger_bands" => BandExact(closes, BandPeriod)

\* The page backtests with a program in Python, a session trades with Go.  The two hold the
\* same where both have made up their mind: a breakout is the same trade by trade; for the
\* averages once the Go code has traded and they differ; an RSI outside its limits, but for
\* 0; a band unless the program traded on the one bar more it looks at, or the lower band was
\* exactly 0.  The exponential averages begin otherwise and promise nothing.
PresetsAgree ==
  LET closes == Prices(market)
      n == Len(closes)
      python == harness(code, closes)
      Same(events) == Held(python) = Held(events)
      rsi == computeRSI(closes, Period)[n]
  IN  strategy = "custom" =>
      CASE code = "breakout" -> python = runBreakout(closes)
        [] code \in {"custom", "sma_crossover"} ->
             LET events == runCrossover(closes, FALSE)
             IN  /\ events # <<>>
                 /\ ~Equal(barSMA(closes, n, Fast), barSMA(closes, n, Slow))
                 => Same(events)
        [] code = "rsi_mean_reversion" ->
             n >= Period + 2 /\ ~Equal(rsi, Zero)
               /\ (Less(rsi, <<Oversold, 1>>) \/ Less(<<Overbought, 1>>, rsi))
             => Same(runRSI(closes))
        [] code = "bollinger_bands" ->
             LET band == computeBollinger(closes, BandPeriod, StdDevs)
             IN  /\ python # <<>> => python[1].bar > BandPeriod
                 /\ \A i \in BandPeriod + 1 .. n : ~LowerIsZero(band[i])
                 => python = runBollinger(closes)
        [] code = "ema_crossover" -> TRUE
=============================================================================
