----------------------------- MODULE Indicators -----------------------------
(***************************************************************************)
(* The indicators of backtest.go, which the live signals use as well, as   *)
(* functions of a sequence of closing prices.  Bar i of the sequence is    *)
(* index i-1 of the code.                                                  *)
(*                                                                         *)
(* Prices are natural numbers and every value is exact: a rational, given  *)
(* by its numerator and its positive denominator.  What floating point     *)
(* rounds away is not modelled.  A bar for which an indicator has no value *)
(* yet has the value 0, as in the code's zeroed slices.                    *)
(*                                                                         *)
(* An operator marked "bug" is used nowhere: it puts a plausible error in  *)
(* the definition below it, to show that a property would notice.          *)
(***************************************************************************)
EXTENDS Integers, Sequences, Functions

Zero == <<0, 1>>
Less(a, b) == a[1] * b[2] < b[1] * a[2]
Equal(a, b) == a[1] * b[2] = b[1] * a[2]
Times(a, b) == <<a[1] * b[1], a[2] * b[2]>>

\* The sum of some bars.
SumOver(x, bars) == SumFunction([i \in bars |-> x[i]])

(***************************************************************************)
(* barSMA: the mean of the bars up to and including bar end.               *)
(***************************************************************************)
barSMA(prices, end, period) ==
  IF end < period THEN Zero
                  ELSE <<SumOver(prices, end - period + 1 .. end), period>>

(***************************************************************************)
(* computeEMA: k = 2 / (period + 1) of the price, the rest of the last     *)
(* value, beginning with the mean of the first period prices.              *)
(***************************************************************************)
SmoothedTooSlow(last, price, period) ==                     \* bug: k = 1 / (period + 1)
  <<price * last[2] + period * last[1], (period + 1) * last[2]>>
Smoothed(last, price, period) ==
  <<2 * price * last[2] + (period - 1) * last[1], (period + 1) * last[2]>>

computeEMA(prices, period) ==
  LET ema[i \in DOMAIN prices] ==
        IF i <= period THEN barSMA(prices, i, period)
                       ELSE Smoothed(ema[i - 1], prices[i], period)
  IN  ema

(***************************************************************************)
(* computeRSI: Wilder's averages of the gains and of the losses, which     *)
(* have the same denominator at each bar, and their ratio.                 *)
(***************************************************************************)
Gain(prices, i) == IF prices[i] > prices[i - 1] THEN prices[i] - prices[i - 1] ELSE 0
Loss(prices, i) == IF prices[i] < prices[i - 1] THEN prices[i - 1] - prices[i] ELSE 0

Gains(prices) == [i \in DOMAIN prices \ {1} |-> Gain(prices, i)]
Losses(prices) == [i \in DOMAIN prices \ {1} |-> Loss(prices, i)]

Wilder(moves, period) ==
  LET avg[i \in DOMAIN moves \cup {1}] ==
        IF i <= period THEN Zero
        ELSE IF i = period + 1 THEN <<SumOver(moves, 2 .. i), period>>
        ELSE <<avg[i - 1][1] * (period - 1) + moves[i] * avg[i - 1][2], avg[i - 1][2] * period>>
  IN  avg

toRSI(g, l) == IF l[1] = 0 THEN <<100, 1>> ELSE <<100 * g[1], g[1] + l[1]>>

computeRSI(prices, period) ==
  LET gain == Wilder(Gains(prices), period)
      loss == Wilder(Losses(prices), period)
  IN  [i \in DOMAIN prices |-> IF i <= period THEN Zero ELSE toRSI(gain[i], loss[i])]

(***************************************************************************)
(* computeBollinger.  A band is given by period times its middle and by    *)
(* the square of period times its half-width: the lower band is            *)
(* (mid - root of spread) / period, and comparisons need no root.          *)
(***************************************************************************)
Squared(n) == n * n

BarsAtEnd(prices, i, period) ==                             \* bug: the newest bars, not bar i's
  Len(prices) - period + 1 .. Len(prices)
BarsUpTo(prices, i, period) == i - period + 1 .. i

computeBollinger(prices, period, stdDevs) ==
  [i \in DOMAIN prices |->
    IF i < period THEN [mid |-> 0, spread |-> 0]
    ELSE LET bars == BarsUpTo(prices, i, period)
             sum == SumOver(prices, bars)
             d2 == [j \in bars |-> Squared(period * prices[j] - sum)]
         IN  [mid |-> sum,
              spread |-> Squared(stdDevs) * (SumFunction(d2) \div period)]]

LowerIsZero(band) == Squared(band.mid) = band.spread
LowerIsPositive(band) == Squared(band.mid) > band.spread
UpperIsPositive(band) == band.mid > 0
BelowLower(price, band, period) ==
  /\ period * price < band.mid
  /\ Squared(band.mid - period * price) > band.spread
AboveMiddle(price, band, period) == period * price > band.mid
=============================================================================
